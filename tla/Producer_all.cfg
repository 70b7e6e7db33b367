\* Twice as many records as there is room for, two in flight, three faults.
SPECIFICATION FairSpec
CONSTANTS
    None = None
    QueueMax = 2
    InFlightMax = 2
    MaxRecords = 4
    MaxFaults = 3
CHECK_DEADLOCK FALSE
INVARIANTS
    OpaqueOnce
    LogOrdered
PROPERTIES
    AllSettled
