SPECIFICATION MCSpec
CONSTANTS
    \* the budget, as proxy_handler drives it
    r1 = r1
    r2 = r2
    k = k
    Keys = {k}
    Rpms = {1}
    MaxRpm = 1
    Window = 1
    IdleThreshold = 1
    Limiters = {"TokenBucket"}
    FirstDay = 7
    LastDay = 8
    MonthStarts = {9}
    Cost = 1
    Stores = {"Redis"}
    Requests = {r1, r2}
    Method <- VirtualKey
    LimitKey <- OneKey
    KeyRpm <- Rpms1
    KeyDaily <- Daily1
    KeyMonthly <- Monthly1
    DefaultRpm = 1
    FaultLimit = 1
    \* logins
    Logins = {"l1", "l2", "l3"}
    MaxFailed = 2
    Lockout = 2
    LoginFaultLimit = 1
    \* tokens
    Jtis = {"j1", "j2", "j3", "j4"}
    Clients = {r1, r2}
    AccessTtl = 1
    RefreshTtl = 2
    Leeway = 1
    RestartLimit = 1
SYMMETRY Interchangeable
INVARIANTS
    SpendKept
    OvershootBounded
    LoginTypeOK
    GuessesBounded
    TokenTypeOK
    ExchangesBounded
PROPERTIES
    RevokedRejected
