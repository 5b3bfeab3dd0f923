\* No day passes: the key is valid throughout.  The route and the audit
\* pipeline are at their smallest.
SPECIFICATION MCSpec
CONSTANTS
    Backends = {1}
    FailureThreshold = 1
    RecoveryTimeout = 0
    PassiveThreshold = 1
    ProbeAnswers = {}
    Strategies = {"InferenceAware"}
    Weight <- Weights
    CounterModulus = 2
    CastModulus = 2
    Requests = {r1}
    Pools <- RoutePools
    MaxRetries = 0
    Endpoints = {}
    EventLimit = 0
    ChannelSize = 1
    BatchSize = 1
    DeliveryRetries = 1
    Entitlements <- TwoEntitlements
    KeyExpires = 1
    GraceDays = 1
    LastDay = 0
CHECK_DEADLOCK FALSE
PROPERTY
    RevokedDegrades
