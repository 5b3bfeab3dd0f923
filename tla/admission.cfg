SPECIFICATION MCSpec
CONSTANTS
    \* the licences of the tenants
    Replicas = {"r1", "r2"}
    Tasks = {"t1", "t2"}
    Flags = {"free", "pro"}
    Free = "free"
    L1Ttl = 1
    L2Ttl = 2
    LicenseFaultLimit = 1
    \* the API keys
    ApiKeys = {"k1", "k2"}
    Users = {"u1", "u2"}
    Roles = {"Admin", "User"}
    KeyTtl = 2
    \* the limiters, as proxy_handler drives them
    r1 = r1
    r2 = r2
    k = k
    Keys = {k}
    Rpms = {1}
    MaxRpm = 1
    Window = 2
    IdleThreshold = 2
    Limiters = {"TokenBucket", "SlidingWindow", "Redis"}
    FirstDay = 7
    LastDay = 7
    MonthStarts = {9}
    Cost = 1
    Stores = {"InMemory"}
    Requests = {r1, r2}
    Method <- VirtualKey
    LimitKey <- OneKey
    KeyRpm <- Rpms1
    KeyDaily <- Daily1
    KeyMonthly <- Monthly1
    DefaultRpm = 1
    FaultLimit = 2
CHECK_DEADLOCK FALSE
INVARIANTS
    KeyTypeOK
    TypeOK
    GrantsBounded
PROPERTIES
    StaleAnswersEnd
    CachesConverge
    GrantedAgain
