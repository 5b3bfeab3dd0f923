SPECIFICATION MCSpec
CONSTANTS
    \* the sinks of the LLM log, and its pages
    EntryLimit = 4
    QueueSize = 1
    LogBatch = 2
    RowIds = {1, 2, 3}
    LastTime = 2
    PageLimit = 1
    \* the usage report
    Records = {"r1", "r2"}
    Window = 1
    EndOfTime = 3
    \* tenants, and the link to the platform
    Tenants = {"t1", "t2"}
    Requests = {"q1"}
    TenantPlans = {"p1"}
    DefaultTenant = "t1"
    Registrations = 2
    Calls = {"c1", "c2"}
    \* routing and completions
    Models = {"m", "a"}
    Providers <- TwoProviders
    TurnLimit = 3
    LlmRequests <- SomeRequests
    Handlers = {"h1", "h2"}
    MaxEntries = 1
    AnswerLimit = 3
    \* quotas
    QuotaTables <- UsersOfTheSmall
    QuotaRows = {1, 2, 3, 4}
    QuotaOf <- TwoQuotas
    Admins = {"a1", "a2", "a3"}
    ReactivateLimit = 1
    \* single sign-on
    SsoProviders <- TwoSsoProviders
    Persons = {"p1", "p2"}
    Emails = {"e1", "e2"}
    SsoStates = {"s1", "s2"}
    Callbacks = {"c1", "c2"}
    \* prompts
    Labels = {"prod"}
    Editors = {"e1", "e2"}
    ContentLimit = 2
    \* MCP servers
    ServerIds = {"b1", "b2"}
    ServerNames = {"n"}
    Tools = {"t"}
    McpTasks = {"k1", "k2", "k3"}
    \* guardrails, embeddings, plugins
    RuleNames = {1, 2}
    RuleShapes <- SomeRules
    Contents <- SomeContents
    WordSize <- SomeSizes
    EmbedTexts <- EmbedTexts11
    EmbedCacheMax = 10
    Evaluators = {"e1", "e2"}
    PluginShapes <- SomePlugins
    PluginRuns = {"q1"}
CHECK_DEADLOCK FALSE
INVARIANTS
    EntriesInOnePlace
    PagesExact
    OwedIsReported
    OnlyRacesStale
    LinkedWhole
    
    HitsStayHome
    CacheBounded
    QuotaHolds
    OneLoginPerState
    LabelsKeepContent
    ListedIsConnected
    PipelineInOrder
    EmbedCacheBounded
    OnceInOrder
