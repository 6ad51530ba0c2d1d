SPECIFICATION Spec
CONSTANTS
    None = None
    Specs <- LongSpecs
    FirstSpecs <- LongSpecs
    UserAuths <- MCAuths
    Brought = {"mine"}
    BaseSANs = {"svc"}
    CADuration = 4
    MaxNow = 3
    NodePorts = {1, 2}
    Events <- MCEvents
INVARIANT ServingNeverOutlivesCA
CHECK_DEADLOCK FALSE
