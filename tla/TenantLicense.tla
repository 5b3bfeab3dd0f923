---------------------------- MODULE TenantLicense ----------------------------
(***************************************************************************)
(* The licence of a tenant in platform mode (gateway-license               *)
(* tenant_license.rs): its row, a cache in each replica and one in Redis   *)
(* that the replicas share, the administrator who sets it (admin.rs) and   *)
(* the refresh that asks the platform.  A replica invalidates its own      *)
(* cache and Redis, never the cache of the others.                         *)
(*                                                                         *)
(* Flags are members of Flags; Free stands for those of the free plan.     *)
(* A task is one request at one replica, and takes one step per await.     *)
(* The database and Redis fail at most LicenseFaultLimit times.            *)
(***************************************************************************)
EXTENDS Integers, FiniteSets

CONSTANTS
    Replicas, Tasks,
    Flags, Free,    \* flags of the plans, and of the free one
    L1Ttl, L2Ttl,   \* in ticks of the clock
    LicenseFaultLimit

ASSUME TenantLicenseAssumption ==
    /\ IsFiniteSet(Replicas) /\ IsFiniteSet(Tasks)
    /\ Free \in Flags
    /\ L1Ttl \in Nat \ {0} /\ L2Ttl \in Nat \ {0} /\ LicenseFaultLimit \in Nat

VARIABLES
    license,        \* tenant_licenses: NoLicense, or type and flags
    l1, l2,         \* the caches: flags and the ticks that are left
    task,           \* where a request is: replica, step, and what it holds
    licenseFaults

tenantLicenseVars == <<license, l1, l2, task, licenseFaults>>

NoLicense == [type |-> "none", flags |-> Free]
Gone == [flags |-> Free, left |-> 0]
CachedIn(c) == c.left > 0
Resting == [at |-> "idle"]
Step(r, at, held) == [replica |-> r, at |-> at, held |-> held]

TenantLicenseInit ==
    /\ license = NoLicense
    /\ l1 = [r \in Replicas |-> Gone] /\ l2 = Gone
    /\ task = [t \in Tasks |-> Resting]
    /\ licenseFaults = 0

GotoTask(t, at) == task' = [task EXCEPT ![t] = at]
Fails == licenseFaults < LicenseFaultLimit /\ licenseFaults' = licenseFaults + 1
Works == UNCHANGED licenseFaults

----------------------------------------------------------------------------
(* resolve: L1, Redis, the database.                                       *)

\* A live L1 entry answers without a step that is seen here.
Resolve(t, r) ==
    /\ task[t] = Resting /\ ~CachedIn(l1[r])
    /\ GotoTask(t, Step(r, "redis", Free))
    /\ UNCHANGED <<license, l1, l2, licenseFaults>>

\* Mutant: an answer of Redis is kept for another hour.
HitRenews == l2' = [l2 EXCEPT !.left = L2Ttl]
HitRedis == UNCHANGED l2

\* An error of Redis is a miss.
ResolveRedis(t) ==
    /\ task[t].at = "redis"
    /\ LET r == task[t].replica IN
       \/ /\ CachedIn(l2) /\ Works /\ HitRedis
          /\ l1' = [l1 EXCEPT ![r] = [flags |-> l2.flags, left |-> L1Ttl]]
          /\ GotoTask(t, Resting)
       \/ /\ IF CachedIn(l2) THEN Fails ELSE Works
          /\ GotoTask(t, Step(r, "find", Free))
          /\ UNCHANGED <<l1, l2>>
    /\ UNCHANGED license

\* No row and an error of the database are the free plan, and cached as such.
ResolveFind(t) ==
    /\ task[t].at = "find"
    /\ \/ Works /\ GotoTask(t, Step(task[t].replica, "l1", license.flags))
       \/ Fails /\ GotoTask(t, Step(task[t].replica, "l1", Free))
    /\ UNCHANGED <<license, l1, l2>>

\* update_caches: the replica's entry, then Redis, whose error is ignored.
UpdateL1(t) ==
    /\ task[t].at = "l1"
    /\ l1' = [l1 EXCEPT ![task[t].replica] = [flags |-> task[t].held, left |-> L1Ttl]]
    /\ GotoTask(t, [task[t] EXCEPT !.at = "l2"])
    /\ UNCHANGED <<license, l2, licenseFaults>>

UpdateL2(t) ==
    /\ task[t].at = "l2"
    /\ \/ Works /\ l2' = [flags |-> task[t].held, left |-> L2Ttl]
       \/ Fails /\ UNCHANGED l2
    /\ GotoTask(t, Resting)
    /\ UNCHANGED <<license, l1>>

----------------------------------------------------------------------------
(* set_tenant_license: the row, then invalidate.                           *)

\* update sets the columns it is given; no caller gives it a key or a type.
LicenseUpdate(f) == [license EXCEPT !.flags = f]

SetLicense(t, r) ==
    /\ task[t] = Resting
    /\ \E type \in {"online", "offline"}, f \in Flags :
          /\ license' = IF license = NoLicense
                        THEN [type |-> type, flags |-> f]
                        ELSE LicenseUpdate(f)
    /\ GotoTask(t, Step(r, "invalidate", Free))
    /\ UNCHANGED <<l1, l2, licenseFaults>>

\* The replica's entry first, then Redis, whose error is ignored.
Invalidate(t) ==
    /\ task[t].at = "invalidate"
    /\ l1' = [l1 EXCEPT ![task[t].replica] = Gone]
    /\ GotoTask(t, [task[t] EXCEPT !.at = "delete"])
    /\ UNCHANGED <<license, l2, licenseFaults>>

DeleteL2(t) ==
    /\ task[t].at = "delete"
    /\ \/ Works /\ l2' = Gone
       \/ Fails /\ UNCHANGED l2
    /\ GotoTask(t, Resting)
    /\ UNCHANGED <<license, l1>>

----------------------------------------------------------------------------
(* refresh: the row is read, the platform asked, the row written.          *)

Refresh(t, r) ==
    /\ task[t] = Resting /\ license # NoLicense
    /\ GotoTask(t, Step(r, IF license.type = "online" THEN "ask" ELSE "again", Free))
    /\ UNCHANGED <<license, l1, l2, licenseFaults>>

\* The platform gives flags of its own; when it fails the row decides.
AskPlatform(t) ==
    /\ task[t].at = "ask"
    /\ \/ \E f \in Flags :
            /\ license' = LicenseUpdate(f)
            /\ GotoTask(t, Step(task[t].replica, "l1", f))
       \/ GotoTask(t, Step(task[t].replica, "again", Free)) /\ UNCHANGED license
    /\ UNCHANGED <<l1, l2, licenseFaults>>

\* A failed refresh resolves: a live entry answers.
ResolveAgain(t) ==
    /\ task[t].at = "again"
    /\ GotoTask(t, IF CachedIn(l1[task[t].replica]) THEN Resting
               ELSE [task[t] EXCEPT !.at = "redis"])
    /\ UNCHANGED <<license, l1, l2, licenseFaults>>

TaskStep(t) ==
    \/ ResolveRedis(t) \/ ResolveFind(t) \/ UpdateL1(t) \/ UpdateL2(t)
    \/ Invalidate(t) \/ DeleteL2(t) \/ AskPlatform(t) \/ ResolveAgain(t)

Aged(c) == [c EXCEPT !.left = IF @ > 0 THEN @ - 1 ELSE 0]

AgeLicenses ==
    /\ \E c \in {l2} \union {l1[r] : r \in Replicas} : CachedIn(c)
    /\ l1' = [r \in Replicas |-> Aged(l1[r])] /\ l2' = Aged(l2)
    /\ UNCHANGED <<license, task, licenseFaults>>

TenantLicenseNext ==
    \/ \E t \in Tasks, r \in Replicas : Resolve(t, r) \/ SetLicense(t, r) \/ Refresh(t, r)
    \/ \E t \in Tasks : TaskStep(t)
    \/ AgeLicenses

TenantLicenseSpec == TenantLicenseInit /\ [][TenantLicenseNext]_tenantLicenseVars

\* Awaited calls return and time passes.
TenantLicenseFairness ==
    /\ \A t \in Tasks : WF_tenantLicenseVars(TaskStep(t))
    /\ WF_tenantLicenseVars(AgeLicenses)

----------------------------------------------------------------------------
\* Once the row stays as it is, every cache that still answers answers with
\* it, on the replica that was not told of the change too, and although a
\* resolve that read the old row may fill both caches after the invalidation
\* (tenant_license.rs:102, resolve, invalidate).
CachesConverge ==
    \A f \in Flags :
        <>[](license.flags = f)
        => <>[](\A c \in {l2} \union {l1[r] : r \in Replicas} : CachedIn(c) => c.flags = f)
=============================================================================
