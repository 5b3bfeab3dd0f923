SPECIFICATION MCSpec
CONSTANTS
    \* the engine, with the one backend of a route
    Backends = {1}
    FailureThreshold = 2
    RecoveryTimeout = 1
    PassiveThreshold = 2
    ProbeAnswers = {"Healthy", "Degraded", "Unhealthy"}
    Strategies = {"InferenceAware"}
    Weight <- Weights
    CounterModulus = 2
    CastModulus = 2
    Requests = {r1, r2}
    Pools <- RoutePools
    MaxRetries = 1
    \* the audit pipeline
    Endpoints = {"e1"}
    EventLimit = 2
    ChannelSize = 1
    BatchSize = 2
    DeliveryRetries = 2
    \* the licence of the gateway
    Entitlements <- TwoEntitlements
    KeyExpires = 1
    GraceDays = 1
    LastDay = 3
CHECK_DEADLOCK FALSE
INVARIANTS
    AuditTypeOK
    RefusalsName
PROPERTIES
    RequestCompletes
    OpenBreakerRecovers
    FailingBackendIsPublished
    KeepsPromise
    EventsSettle
    RevocationTakesHold
