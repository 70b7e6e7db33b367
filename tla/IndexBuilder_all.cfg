\* Two builders and two seconds: they race for a row, and files of a key get one
\* name, or neither.  One crash.  It rests when the messages are consumed.
SPECIFICATION Spec
CONSTANTS
    b1 = b1
    b2 = b2
    Builders = {b1, b2}
    Keys <- MCKeys
    RowOf <- MCRowOf
    Messages <- MCMessages
    Faults = {"select", "insert", "update"}
    BatchSize = 2
    MaxTime = 1
    MaxDeliveries = 1
    MaxCrashes = 1
    None = None
SYMMETRY BuilderSymmetry
CHECK_DEADLOCK FALSE
INVARIANTS
    PathWhole
    IndexCurrent
    ListsTruthful
PROPERTIES
    NothingForgotten
