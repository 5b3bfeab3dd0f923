---------------------------- MODULE TenantQuotas ----------------------------
(***************************************************************************)
(* The users, backends and API keys of tenants and the quotas of their     *)
(* plans (handlers/users.rs, backends.rs, api_keys.rs, gateway-tenant      *)
(* context.rs, and their repositories).  A handler counts the rows of the  *)
(* caller's tenant and compares them with the quota of the TenantContext,  *)
(* which comes from a header, the host or the default and which a request  *)
(* may be without; it inserts some awaits later.  Other ways into the same *)
(* table do not count at all.  A table is a pair of a tenant and a kind;   *)
(* what an update may change besides the activity of a row (a role, an     *)
(* endpoint, a weight) is left out, and a quota does not change.           *)
(***************************************************************************)
EXTENDS Integers, FiniteSets

CONSTANTS
    QuotaTables,    \* <<tenant, "user" | "backend" | "api_key">>
    QuotaRows,      \* the rows a table may have
    QuotaOf,        \* tenant -> max_users, max_backends, max_api_keys
    Admins,         \* handlers at work at a time
    ReactivateLimit \* bound on the rows an update reactivates

QuotaTenants == DOMAIN QuotaOf

ASSUME QuotaAssumption ==
    /\ QuotaTables \subseteq QuotaTenants \X {"user", "backend", "api_key"}
    /\ QuotaOf \in [QuotaTenants -> Nat] /\ ReactivateLimit \in Nat
    /\ IsFiniteSet(QuotaRows) /\ IsFiniteSet(Admins) /\ Admins # {}
    /\ "none" \notin QuotaTenants

VARIABLES
    row,            \* table, row -> Missing, Activated or Inactive
    admin,          \* handler -> the table it adds to, and the tenant whose quota let it
    outside         \* table -> rows that became active, not held to its tenant's quota

quotaVars == <<row, admin, outside>>

Missing == "missing"
Activated == "active"
Inactive == "inactive"
NoContext == "none"
AtRest == [table |-> <<>>, context |-> NoContext]

TenantOf(t) == t[1]
KindOf(t) == t[2]

QuotaInit ==
    /\ row = [t \in QuotaTables |-> [i \in QuotaRows |-> Missing]]
    /\ admin = [a \in Admins |-> AtRest]
    /\ outside = [t \in QuotaTables |-> 0]

\* A locked or a pending user counts, an inactive one does not.
CountOf(t) == Cardinality({i \in QuotaRows : row[t][i] = Activated})

\* Mutant: the quota may be passed by one.
CanAddOneMore(c, count) == count <= QuotaOf[c]

CanAdd(c, count) == count < QuotaOf[c]

\* The contexts a creation passes the check in: that of any tenant with room
\* for the rows of the caller's tenant.  Without a context there is no check,
\* and the count of backends or keys that fails is as none.
LetThroughBy(t) == {NoContext} \union {c \in QuotaTenants : CanAdd(c, CountOf(t))}

CountRows(a, t) ==
    /\ admin[a] = AtRest
    /\ \E c \in LetThroughBy(t) : admin' = [admin EXCEPT ![a] = [table |-> t, context |-> c]]
    /\ UNCHANGED <<row, outside>>

BecomeActive(t, i, held) ==
    /\ row' = [row EXCEPT ![t][i] = Activated]
    /\ outside' = [outside EXCEPT ![t] = IF held THEN @ ELSE @ + 1]

Create(a, i) ==
    LET t == admin[a].table IN
    /\ t \in QuotaTables
    /\ row[t][i] = Missing
    /\ BecomeActive(t, i, admin[a].context = TenantOf(t))
    /\ admin' = [admin EXCEPT ![a] = AtRest]

\* The insert is refused, for an email that is taken or by the database, or
\* the client has gone.
GiveUp(a) ==
    /\ admin[a] # AtRest
    /\ admin' = [admin EXCEPT ![a] = AtRest]
    /\ UNCHANGED <<row, outside>>

\* update: a row may become active again, and nothing counts.
Reactivate(t, i) ==
    /\ KindOf(t) # "api_key" /\ row[t][i] = Inactive
    /\ outside[t] < ReactivateLimit
    /\ BecomeActive(t, i, FALSE)
    /\ UNCHANGED admin

Deactivate(t, i) ==
    /\ row[t][i] = Activated
    /\ row' = [row EXCEPT ![t][i] = Inactive]
    /\ UNCHANGED <<admin, outside>>

\* The first login of a user through SSO.
Provision(t, i) ==
    /\ KindOf(t) = "user" /\ row[t][i] = Missing
    /\ BecomeActive(t, i, FALSE)
    /\ UNCHANGED admin

QuotaNext ==
    \/ \E a \in Admins : GiveUp(a) \/ \E i \in QuotaRows : Create(a, i)
    \/ \E t \in QuotaTables :
          \/ \E a \in Admins : CountRows(a, t)
          \/ \E i \in QuotaRows : Reactivate(t, i) \/ Deactivate(t, i) \/ Provision(t, i)

QuotaSpec == QuotaInit /\ [][QuotaNext]_quotaVars

----------------------------------------------------------------------------
\* However the handlers overtake one another between a count and its insert,
\* a tenant passes its quota by no more rows than there are other handlers at
\* work, not counting the rows nobody held to that quota: those created in no
\* context or in that of another tenant, reactivated by an update or
\* provisioned at a login (users.rs, backends.rs, api_keys.rs, create).
QuotaHolds ==
    \A t \in QuotaTables :
       CountOf(t) <= QuotaOf[TenantOf(t)] + outside[t] + Cardinality(Admins) - 1
=============================================================================
