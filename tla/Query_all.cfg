\* Two searchers, a connection of each pool for each of them, and anything that can
\* fail.
SPECIFICATION FairSpec
CONSTANTS
    q1 = q1
    q2 = q2
    x = x
    y = y
    NumRequests = 2
    Queries = {q1, q2}
    Keys = {x, y}
    KeysOf <- MCKeysOf
    Topics <- MCTopics
    Searchers = {s1, s2}
    MysqlConns = 2
    RedisConns = 2
    SearchFaults = {"select", "refuse", "redis", "auth"}
    SendFaults = {"fail", "raise"}
    MaxFaults = 1
    MaxTrouble = 1
    MaxVersion <- MCMaxVersion
    Polls = 1
    QueMaxSize = 1
    None = None
    NoReply = NoReply
CHECK_DEADLOCK FALSE
INVARIANTS
    ConnsAccounted
    NoCircularWait
PROPERTIES
    ServiceSpec
    QueriesAnswered
