SPECIFICATION FairSpec
CONSTANTS
    None = None
    Specs <- MCSpecs
    FirstSpecs <- MCFirstSpecs
    UserAuths <- MCAuths
    Brought = {"mine"}
    BaseSANs = {"svc"}
    CADuration = 4
    MaxNow = 3
    NodePorts = {1, 2}
    Events <- MCEvents
INVARIANT TypeOK
INVARIANT NeverDangling
INVARIANT ServingOutlivedByCA
INVARIANT HealthyMeansApplied
PROPERTY CredentialsKept
PROPERTY RestIsKept
PROPERTY NonWedging
PROPERTY Settles
PROPERTY ComesToRest
PROPERTY DeletionCompletes
CHECK_DEADLOCK FALSE
