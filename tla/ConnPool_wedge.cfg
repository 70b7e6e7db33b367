\* One connection, two clients: both pass the poll, the second scans for ever.
SPECIFICATION FairSpec
CONSTANTS
    c1 = c1
    c2 = c2
    Clients = {c1, c2}
    Keepers = {}
    N = 1
    None = None
PROPERTY GetConnReturns
