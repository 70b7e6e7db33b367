\* Every index of three keys in two pages, at most two nodes a list, queries with and without repeated keywords.
SPECIFICATION FairSpec
CONSTANTS
    Keys = {"a", "b", "c"}
    Pages = {1, 2}
    Offsets = {0, 20, 50}
    Queries <- AllQueries
    MatchDelta = 33
    MaxList = 2
    Wrap = 65536
CHECK_DEADLOCK FALSE
INVARIANTS
    SearchSound
    PageAligned
PROPERTIES
    OnceFound
