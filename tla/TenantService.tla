---------------------------- MODULE TenantService ----------------------------
(***************************************************************************)
(* Resolving the tenant of a request (gateway-tenant service.rs and        *)
(* middleware.rs) from a cache without expiry, while administrators create,*)
(* change and delete tenants (handlers/tenants.rs).  One replica: what the *)
(* others write reaches it through the database only.                      *)
(*                                                                         *)
(* A tenant is cached under its identifier and under its slug.  A slug     *)
(* never changes and deletion only marks the row, so a tenant stands for   *)
(* both.  Plans stand for all that an update may change.                   *)
(***************************************************************************)
EXTENDS Integers, Sequences, FiniteSets

CONSTANTS
    Tenants,
    Requests,       \* requests being resolved
    TenantPlans,
    DefaultTenant   \* default_tenant_id, or NoTenant

NoTenant == "none"

ASSUME TenantAssumption ==
    IsFiniteSet(Tenants) /\ IsFiniteSet(Requests) /\ NoTenant \notin TenantPlans

VARIABLES
    tenantRow,      \* tenants: NoRow, or whether it is active and its plan
    tenantCache,    \* the cache, by kind of key and tenant
    request,        \* what each request still has to try, and what it holds
    dirty,          \* tenants written here, whose cache is not yet invalidated
    raced           \* tenants whose entry an update could not reach

tenantVars == <<tenantRow, tenantCache, request, dirty, raced>>

NoRow == [active |-> FALSE, plan |-> NoTenant]
RowOf(plan) == [active |-> TRUE, plan |-> plan]
Ready == [at |-> "ready"]

TenantInit ==
    /\ tenantRow = [t \in Tenants |-> NoRow]
    /\ tenantCache = [k \in {"id", "slug"} \X Tenants |-> NoRow]
    /\ request = [q \in Requests |-> Ready]
    /\ dirty = {} /\ raced = {}

----------------------------------------------------------------------------
(* resolve.                                                                *)

\* What is tried, in order: an identifier decides, a slug that is not found
\* lets the next one try.
ById(t) == IF t = NoTenant THEN <<>> ELSE <<<<"id", t>>>>
BySlug(t) == IF t = NoTenant THEN <<>> ELSE <<<<"slug", t>>>>
Final(source) == source[1] = "id"

Sources(header, jwt, host) == header \o ById(jwt) \o BySlug(host) \o ById(DefaultTenant)

Proceed(q, at) == request' = [request EXCEPT ![q] = at]

ResolveTenant(q) ==
    /\ request[q] = Ready
    /\ \E t, jwt, host \in Tenants \union {NoTenant} : \E header \in {ById(t), BySlug(t)} :
          Proceed(q, [at |-> "look", left |-> Sources(header, jwt, host)])
    /\ UNCHANGED <<tenantRow, tenantCache, dirty, raced>>

\* NotFound, too, lets the request go on, without a TenantContext.
Resolved(q) == Proceed(q, Ready)

Look(q) ==
    /\ request[q].at = "look"
    /\ IF request[q].left = <<>>
       THEN Resolved(q)
       ELSE IF tenantCache[Head(request[q].left)] # NoRow
       THEN Resolved(q)
       ELSE Proceed(q, [request[q] EXCEPT !.at = "find"])
    /\ UNCHANGED <<tenantRow, tenantCache, dirty, raced>>

\* Only active rows are found; an error of the database is a NotFound.
Find(q) ==
    /\ request[q].at = "find"
    /\ LET source == Head(request[q].left) IN
       \/ /\ tenantRow[source[2]].active
          /\ Proceed(q, [at |-> "fill", key |-> source, held |-> tenantRow[source[2]]])
       \/ IF Final(source)
          THEN Resolved(q)
          ELSE Proceed(q, [at |-> "look", left |-> Tail(request[q].left)])
    /\ UNCHANGED <<tenantRow, tenantCache, dirty, raced>>

\* Found by its slug, a tenant is entered under both keys.
Fill(q) ==
    /\ request[q].at = "fill"
    /\ tenantCache' = [k \in DOMAIN tenantCache |->
          IF k[2] = request[q].key[2] /\ (k = request[q].key \/ k[1] = "id")
          THEN request[q].held ELSE tenantCache[k]]
    /\ Resolved(q)
    /\ UNCHANGED <<tenantRow, dirty, raced>>

----------------------------------------------------------------------------
(* The administrators.                                                     *)

CreateTenant(t) ==
    /\ tenantRow[t] = NoRow
    /\ \E p \in TenantPlans : tenantRow' = [tenantRow EXCEPT ![t] = RowOf(p)]
    /\ UNCHANGED <<tenantCache, request, dirty, raced>>

\* What update and delete may make of a row; an update may also bring a
\* deleted tenant back.
Written(t) ==
    {[active |-> a, plan |-> p] : a \in BOOLEAN, p \in TenantPlans} \ {tenantRow[t]}

WriteTenant(t) ==
    /\ tenantRow[t] # NoRow /\ t \notin dirty
    /\ \E r \in Written(t) : tenantRow' = [tenantRow EXCEPT ![t] = r]
    /\ dirty' = dirty \union {t}
    /\ UNCHANGED <<tenantCache, request, raced>>

\* Another replica's write.
WriteElsewhere(t) ==
    /\ tenantRow[t] # NoRow
    /\ \E r \in Written(t) : tenantRow' = [tenantRow EXCEPT ![t] = r]
    /\ raced' = raced \union {t}
    /\ UNCHANGED <<tenantCache, request, dirty>>

\* A request that has read the old row and not yet filled the cache.
Outdated(t) ==
    \E q \in Requests :
        request[q].at = "fill" /\ request[q].key[2] = t /\ request[q].held # tenantRow[t]

\* Mutant: the entry is removed under the wrong key.
RemoveSlug(t) == tenantCache' = [tenantCache EXCEPT ![<<"slug", t>>] = NoRow]

RemoveEntry(t) == tenantCache' = [tenantCache EXCEPT ![<<"id", t>>] = NoRow]

InvalidateCache(t) ==
    /\ t \in dirty
    /\ RemoveEntry(t)
    /\ dirty' = dirty \ {t}
    /\ raced' = IF Outdated(t) THEN raced \union {t} ELSE raced \ {t}
    /\ UNCHANGED <<tenantRow, request>>

TenantNext ==
    \/ \E q \in Requests : ResolveTenant(q) \/ Look(q) \/ Find(q) \/ Fill(q)
    \/ \E t \in Tenants :
          CreateTenant(t) \/ WriteTenant(t) \/ WriteElsewhere(t) \/ InvalidateCache(t)

TenantSpec == TenantInit /\ [][TenantNext]_tenantVars

----------------------------------------------------------------------------
\* The entry under an identifier is the row as it is, but while the update is
\* on its way to the cache, or when it could not reach it: another replica
\* made it, or a request had read the old row and filled the cache later
\* (service.rs:99 invalidate_cache, find_by_id, find_by_slug).
OnlyRacesStale ==
    \A t \in Tenants \ (dirty \union raced) :
        tenantCache[<<"id", t>>] # NoRow =>
            tenantRow[t].active /\ tenantCache[<<"id", t>>] = tenantRow[t]
=============================================================================
