\* No restart: what lets a revoked token through is its leeway.
SPECIFICATION TokenSpec
CONSTANTS
    Jtis = {"j1", "j2"}
    Clients = {"c1"}
    AccessTtl = 1
    RefreshTtl = 2
    Leeway = 1
    RestartLimit = 0
PROPERTY
    RevokedUntilRefused
