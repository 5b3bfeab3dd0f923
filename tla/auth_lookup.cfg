SPECIFICATION KeyFairSpec
CONSTANTS
    ApiKeys = {"k1"}
    Users = {"u1"}
    Roles = {"Admin"}
    KeyTtl = 1
PROPERTY
    LookupReturns
