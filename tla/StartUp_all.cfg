\* Two processes, two evaluators on pools of two, and three faults of any kind.
SPECIFICATION FairSpec
CONSTANTS
    p1 = p1
    p2 = p2
    Processes = {p1, p2}
    Groups = {"evaluator", "searcher"}
    Nobody = Nobody
    Commands <- MCCommands
    Files <- MCFiles
    NoFile = NoFile
    EvaluatorNum = 2
    PoolSize = 2
    Statements = 3
    MaxFaults = 3
    MaxRecords = 1
CHECK_DEADLOCK FALSE
INVARIANTS
    OneOwner
    InitDone
PROPERTIES
    ModulesComeUp
