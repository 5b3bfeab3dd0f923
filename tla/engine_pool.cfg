SPECIFICATION Spec
CONSTANTS
    Backends = {1, 2}
    FailureThreshold = 2
    RecoveryTimeout = 0
    PassiveThreshold = 1
    ProbeAnswers = {"Unhealthy"}
    Strategies = {"LeastConnections"}
    Weight <- Weights
    CounterModulus = 2
    CastModulus = 2
    Requests = {r1, r2}
    Pools <- AllPools
    MaxRetries = 1
INVARIANTS TypeOK BreakerConsistent ActiveIsInFlight
PROPERTIES ImplementsPromise
SYMMETRY Interchangeable
