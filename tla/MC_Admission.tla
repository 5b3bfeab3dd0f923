----------------------------- MODULE MC_Admission -----------------------------
(***************************************************************************)
(* What lets a request in: the cache of API keys and the two levels of     *)
(* caches of the tenants' licences, which answer for rows that             *)
(* administrators change, and the limits of proxy_handler.  The three      *)
(* share no state: a run explores one of them, chosen at the start.        *)
(***************************************************************************)
EXTENDS MC_ProxyHandler, TenantLicense, ApiKeyAuth

VARIABLE part

MCInit ==
    /\ part \in {"tenantLicense", "keys", "limits"}
    /\ TenantLicenseInit
    /\ KeyInit
    /\ Init
    \* What is not explored need not be tried in every one of its first states.
    /\ \/ part = "keys"
       \/ /\ \A a \in ApiKeys : row[a].role = CHOOSE x \in Roles : TRUE
          /\ \A u \in Users : keyOf[u] = CHOOSE a \in ApiKeys : TRUE
    /\ \/ part = "limits"
       \/ limiter = "Redis" /\ store = "InMemory" /\ loaded = FALSE

MCNext ==
    /\ UNCHANGED part
    /\ IF part = "tenantLicense" THEN TenantLicenseNext ELSE UNCHANGED tenantLicenseVars
    /\ IF part = "keys" THEN KeyNext ELSE UNCHANGED keyVars
    /\ IF part = "limits" THEN Next ELSE UNCHANGED vars

\* In its first state, where a part that is not explored stays, no action of
\* its fairness can change anything.
MCSpec ==
    /\ MCInit /\ [][MCNext]_<<part, tenantLicenseVars, keyVars, vars>>
    /\ TenantLicenseFairness
    /\ KeyFairness
    /\ Fairness
=============================================================================
