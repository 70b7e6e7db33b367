\* Four pages, queues of one, and two faults of any kind.
SPECIFICATION FairCrawlSpec
CONSTANTS
    a = a
    b = b
    c = c
    d = d
    other = other
    relative = relative
    nocolon = nocolon
    Urls = {a, b, c, d, other, relative, nocolon}
    Kind <- MCKind
    Links <- MCLinks
    Seeds <- MCSeeds
    Topics <- MCTopics
    CrawlFaults = {"patience", "download", "evaluator"}
    SendFaults = {"fail", "timeout", "raise"}
    MaxFaults = 2
    UrlQueSize = 1
    QueMaxSize = 1
    NoPage = NoPage
CHECK_DEADLOCK FALSE
INVARIANTS
    FetchedOnce
    NothingAstray
PROPERTIES
    CrawlGoesOn
