SPECIFICATION MCSpec
CONSTANTS
    Ids = {"k1", "k2"}
    Backends = {"aws", "azure", "pkcs11"}
    MaxCalls = 3
    MaxUpsets = 1
    None = None
    OtsKeys <- MCOtsKeys
    Heights = {0, 1}
    MaxUses = 3
    MaxRestores = 2
    Absent = Absent
    Workers = {"w1", "w2", "w3"}
    total = 7
    SIGN_BIT = 4
INVARIANTS
    NoStraySecret
    
    LeavesSignOnce
PROPERTIES
    CallsSettle
    PoolResolves
CHECK_DEADLOCK FALSE
