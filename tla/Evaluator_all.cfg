\* Two evaluators, which may both be at the page with links, and everything that
\* can fail.  They rest when all the messages are consumed.
SPECIFICATION Spec
CONSTANTS
    a = a
    b = b
    e1 = e1
    e2 = e2
    Evaluators = {e1, e2}
    Urls <- MCUrls
    Messages <- MCMessages
    Faults = {"redis", "select", "insert", "update"}
    MaxDeliveries = 1
    MaxId = 3
    None = None
CHECK_DEADLOCK FALSE
SYMMETRY EvaluatorSymmetry
INVARIANTS
    StoreReturnsId
    FinishedIsComplete
    LinkRecordedOnce
    CrawlTruthful
    CacheAgrees
