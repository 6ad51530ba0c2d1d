SPECIFICATION FairSpec
CONSTANTS
    p1 = p1
    p2 = p2
    None = None
    Pods <- MCPods
    Vars <- MCVars
    Values <- MCValues
    Domain <- MCDomain
    Monitor <- MCMonitor
    Stubborn <- MCStubborn
    Cnfs <- StructCnfs
    Edits <- StructEdits
    Legacy = FALSE
    EditWhen = "any"
    MaxEdits = 2
    FaultKinds <- AllFaults
    MaxFaults = 2
INVARIANT TypeOK
INVARIANT StructMarkerHonest
INVARIANT RestsOnlyWhenCurrent
PROPERTY StructureConverges
CHECK_DEADLOCK FALSE
