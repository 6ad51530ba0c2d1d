SPECIFICATION FairSpec
CONSTANTS
    p1 = p1
    p2 = p2
    None = None
    Pods <- MCPods
    Vars <- MCVars
    Values <- MCValues
    Domain <- MCDomain
    Monitor <- MCMonitor
    Stubborn <- MCStubborn
    Cnfs <- VarCnfs
    Edits <- VarEdits
    Legacy = TRUE
    EditWhen = "converged"
    MaxEdits = 2
    FaultKinds <- OperatorFaults
    MaxFaults = 3
INVARIANT VarsMarkerHonest
PROPERTY RestartOnlyWithReason
PROPERTY Converges
CHECK_DEADLOCK FALSE
