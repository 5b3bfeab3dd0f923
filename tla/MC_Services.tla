---------------------------- MODULE MC_Services ----------------------------
(***************************************************************************)
(* The services around the proxy share no state with each other that a     *)
(* property sees: a run explores one of them, chosen at the start, while   *)
(* the others stay at their first state.                                   *)
(***************************************************************************)
EXTENDS LogSink, LogPages, UsageReporter, TenantService, PlatformSync,
        LlmRouter, Completions, TenantQuotas, SsoLogin, Prompts, Mcp,
        Guardrails, SemanticPolicy, Plugins

\* Two providers, one to be preferred.
TwoProviders ==
    {[kind |-> "openai", priority |-> 1], [kind |-> "anthropic", priority |-> 2]}

RequestOf(t, list, texts, safe) ==
    [tenant |-> t, model |-> <<"m">>, listed |-> list, limits |-> <<>>, safe |-> safe,
     messages |-> [i \in DOMAIN texts |->
                      [role |-> "user", isText |-> TRUE, content |-> texts[i]]]]

\* Tenants that ask the same, a message that spells two, a request
\* without messages that is not cached.
SomeRequests ==
    {RequestOf("t1", TRUE, <<<<"a">>, <<"b">>>>, TRUE),
     RequestOf("t2", TRUE, <<<<"a">>, <<"b">>>>, TRUE),
     RequestOf("t1", TRUE, <<<<"a", "user", "b">>>>, TRUE),
     RequestOf("t1", FALSE, <<>>, FALSE)}

\* A small tenant beside a larger one.
TwoQuotas == [q \in {"acme", "globex"} |-> IF q = "acme" THEN 1 ELSE 2]

UsersOfTheSmall == {<<"acme", "user">>}

TwoSsoProviders ==
    {[kind |-> "google", urls |-> FALSE, auto |-> TRUE],
     [kind |-> "okta", urls |-> TRUE, auto |-> FALSE]}

ShapeOf(k, s, m, p, x, n) ==
    [kind |-> k, stage |-> s, mode |-> m, patterns |-> p, max |-> x, priority |-> n]

\* A rule of every kind, stage and mode, and redactions that feed a block.
SomeRules ==
    {ShapeOf("regex", "pre_call", "block", {"a"}, 0, 1),
     ShapeOf("regex", "pre_call", "redact", {"a"}, 0, 2),
     ShapeOf("regex", "pre_call", "redact", {"a", "b"}, 0, 1),
     ShapeOf("pii", "pre_call", "flag", {"b"}, 0, 1),
     ShapeOf("length", "pre_call", "redact", {}, 11, 1),
     ShapeOf("json_schema", "pre_call", "block", {}, 0, 1),
     ShapeOf("regex", "post_call", "block", {"a"}, 0, 1),
     ShapeOf("regex", "pre_call", "block", {}, 0, 1),
     ShapeOf("regex", "pre_call", "block", {"b"}, 0, 2)}

SomeContents == {<<"a">>, <<"b">>, <<"a", "b">>, <<"a", "c">>}

\* A redaction makes the one longer and the other shorter than it was, across
\* the limit of the length rule.
SomeSizes(w) ==
    CASE w = "a" -> 2 [] w = "b" -> 12 [] w = "c" -> 3 [] w = Redacted -> 10

PluginOf(n, k, p, e) == [name |-> n, kind |-> k, priority |-> p, enabled |-> e]

\* Ties of kind and of priority, a kind of every phase, one that is disabled.
SomePlugins ==
    {PluginOf(1, "input", 1, TRUE), PluginOf(1, "input", 2, TRUE),
     PluginOf(2, "input", 1, TRUE), PluginOf(2, "observer", 1, TRUE),
     PluginOf(3, "output", 1, TRUE), PluginOf(3, "guardrail", 1, FALSE)}

EmbedTexts11 == 1..11

VARIABLE part

MCParts ==
    {"logs", "pages", "usage", "tenants", "sync", "router", "llm",
     "quotas", "sso", "prompts", "mcp", "guards", "semantic", "plugins"}

MCInit ==
    /\ part \in MCParts
    /\ SinkInit
    /\ PagesInit
    /\ UsageInit
    /\ TenantInit
    /\ SyncInit
    /\ RouterInit
    /\ LlmInit
    /\ QuotaInit
    /\ SsoInit
    /\ PromptsInit
    /\ McpInit
    /\ GuardInit
    /\ SemanticInit
    /\ PluginsInit
    \* What is not explored need not be tried in every one of its first states.
    /\ part = "logs" \/ sink = "export"
    /\ part = "pages" \/ retention = Forever
    /\ \/ part = "sso"
       \/ accounts = {} /\ emailOf = [p \in Persons |-> CHOOSE e \in Emails : TRUE]

MCNext ==
    /\ UNCHANGED part
    /\ IF part = "logs" THEN SinkNext ELSE UNCHANGED sinkVars
    /\ IF part = "pages" THEN PagesNext ELSE UNCHANGED pageVars
    /\ IF part = "usage" THEN UsageNext ELSE UNCHANGED usageVars
    /\ IF part = "tenants" THEN TenantNext ELSE UNCHANGED tenantVars
    /\ IF part = "sync" THEN SyncNext ELSE UNCHANGED syncVars
    /\ IF part = "router" THEN RouterNext ELSE UNCHANGED routerVars
    /\ IF part = "llm" THEN LlmNext ELSE UNCHANGED llmVars
    /\ IF part = "quotas" THEN QuotaNext ELSE UNCHANGED quotaVars
    /\ IF part = "sso" THEN SsoNext ELSE UNCHANGED ssoVars
    /\ IF part = "prompts" THEN PromptsNext ELSE UNCHANGED promptVars
    /\ IF part = "mcp" THEN McpNext ELSE UNCHANGED mcpVars
    /\ IF part = "guards" THEN GuardNext ELSE UNCHANGED guardVars
    /\ IF part = "semantic" THEN SemanticNext ELSE UNCHANGED semanticVars
    /\ IF part = "plugins" THEN PluginsNext ELSE UNCHANGED pluginVars

MCSpec ==
    MCInit /\ [][MCNext]_<<
        part, sinkVars, pageVars, usageVars, tenantVars, syncVars,
        routerVars, llmVars, quotaVars, ssoVars, promptVars, mcpVars,
        guardVars, semanticVars, pluginVars>>
=============================================================================
