\* As many clients as connections, one of them a keeper.  More clients than
\* connections are RedisPool_safety's, whose specification refines this one.
SPECIFICATION FairSpec
CONSTANTS
    c1 = c1
    c2 = c2
    c3 = c3
    Clients = {c1, c2, c3}
    Keepers = {c3}
    N = 3
    None = None
INVARIANTS
    TypeOK
    PoolSafety
    ScanFinds
PROPERTIES
    LendingSpec
    GetConnReturns
