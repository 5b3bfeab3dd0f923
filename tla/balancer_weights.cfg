SPECIFICATION Spec
CONSTANTS
    Backends = {1, 2}
    Strategies = {"WeightedRoundRobin"}
    Weight <- Weights
    CounterModulus = 64
    CastModulus = 16
INVARIANTS WeightedShares
