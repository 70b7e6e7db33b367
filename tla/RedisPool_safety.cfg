\* Three clients on two password-protected connections.  A wrong password can
\* leave every connection with a client whose free_conn threw: the others then
\* poll for ever, so the system may really stop.
SPECIFICATION RedisSpec
CONSTANTS
    c1 = c1
    c2 = c2
    c3 = c3
    Clients = {c1, c2, c3}
    Keepers = {}
    N = 2
    None = None
    HasPassword = TRUE
CHECK_DEADLOCK FALSE
SYMMETRY ClientSymmetry
INVARIANTS
    IdleHealthy
    RedisExclusive
PROPERTIES
    PoolSpec
