------------------------------- MODULE Plans -------------------------------
(***************************************************************************)
(* The plans and what they grant (gateway-license features.rs).  The flags *)
(* of a plan are the set of those that are on; each plan is written as     *)
(* what it adds to the one below it.  Quotas, which no handler enforces,   *)
(* are left out.                                                           *)
(***************************************************************************)
EXTENDS Integers

Plan == {"community", "professional", "enterprise"}

\* Any other name is the free plan.
FromStr(s) == IF s = "pro" THEN "professional" ELSE IF s \in Plan THEN s ELSE "community"

Rank(p) == CASE p = "community" -> 0 [] p = "professional" -> 1 [] p = "enterprise" -> 2

Meets(p, required) == Rank(p) >= Rank(required)

CommunityFlags ==
    {"universal_api", "automatic_fallbacks", "loadbalancing", "conditional_routing",
     "automatic_retries", "request_timeouts", "multi_provider_fallback",
     "embedding_support", "streaming_support"}

\* Mutant: a column of the professional plan is left off.
ProfessionalNoTraces == CommunityFlags \union {"logs", "feedback", "alerts", "rbac"}

ProfessionalFlags == CommunityFlags \union
    {"config_management", "llm_key_management", "dashboard", "simple_cache",
     "semantic_cache", "logs", "traces", "feedback", "custom_metadata", "filters",
     "alerts", "prompt_templates", "playground", "prompt_api_deployment",
     "prompt_versioning", "prompt_variables", "prompt_partials",
     "prompt_side_by_side", "prompt_access_control", "deterministic_guardrails",
     "partner_guardrails", "pii_redaction", "rbac", "team_management", "graphql",
     "multi_tenant", "webhook", "ip_filtering", "budget_enforcement",
     "cost_analytics", "websocket"}

EnterpriseFlags == ProfessionalFlags \union
    {"admin_apis", "finops_dashboard", "unified_fine_tuning_batch", "private_llm",
     "autonomous_fine_tuning", "rbac_advanced", "team_management_advanced",
     "audit_logs", "scim", "jwt_auth", "byok", "org_metadata_reporting",
     "org_llm_guardrails", "sso", "compliance_certs", "baa_signing", "vpc_hosting",
     "private_tenancy", "configurable_retention", "datalake_export",
     "org_management", "grpc", "custom_branding", "model_federation",
     "custom_model_pricing", "http3"}

ForPlan(p) == CASE p = "community" -> CommunityFlags
                [] p = "professional" -> ProfessionalFlags
                [] p = "enterprise" -> EnterpriseFlags

\* The features the handlers may ask for: each is the flag of its name.
ProfessionalFeatures ==
    {"logs", "traces", "feedback", "alerts", "llm_key_management", "simple_cache",
     "semantic_cache", "prompt_templates", "playground", "deterministic_guardrails",
     "partner_guardrails", "pii_redaction", "rbac", "team_management"}

EnterpriseFeatures ==
    {"finops_dashboard", "audit_logs", "admin_apis", "scim", "jwt_auth", "byok",
     "sso", "org_management", "datalake_export", "private_llm", "baa_signing",
     "vpc_hosting", "configurable_retention", "autonomous_fine_tuning"}

Feature == ProfessionalFeatures \union EnterpriseFeatures

\* Flags an online or an offline licence may set by itself.
Overridable == {"sso", "grpc", "multi_tenant"}

MinPlan(f) == IF f \in ProfessionalFeatures THEN "professional" ELSE "enterprise"

Check(f, flags) == f \in flags
=============================================================================
