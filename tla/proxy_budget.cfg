SPECIFICATION Spec
CONSTANTS
    r1 = r1
    r2 = r2
    k = k
    Keys = {k}
    Rpms = {1}
    MaxRpm = 1
    Window = 2
    IdleThreshold = 2
    Limiters = {"SlidingWindow"}
    FirstDay = 7
    LastDay = 8
    MonthStarts = {9}
    Cost = 1
    Stores = {"Redis"}
    Requests = {r1, r2}
    Method <- VirtualKey
    LimitKey <- OneKey
    KeyRpm <- Rpms1
    KeyDaily <- Daily1
    KeyMonthly <- Monthly3
    DefaultRpm = 1
    FaultLimit = 1
PROPERTIES DailyBudgetBlocks
