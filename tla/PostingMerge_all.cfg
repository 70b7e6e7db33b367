\* It stops when the loops are done.
SPECIFICATION FairMergeSpec
CONSTANTS
    Pages = {1, 2, 3}
    Offsets = {0, 3}
CHECK_DEADLOCK FALSE
INVARIANTS
    MergeIsSortedUnion
PROPERTIES
    PageSetMatches
