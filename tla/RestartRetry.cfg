SPECIFICATION Spec
CONSTANTS
    p1 = p1
    p2 = p2
    None = None
    Pods <- MCPods
    Vars <- MCVars
    Values <- MCValues
    Domain <- MCDomain
    Monitor <- MCMonitor
    Stubborn <- MCStubborn
    Cnfs <- TwoStepCnfs
    Edits <- TwoStepEdits
    Legacy = FALSE
    EditWhen = "ready"
    MaxEdits = 2
    FaultKinds <- OperatorFaults
    MaxFaults = 1
INVARIANT VarsMarkerHonest
CHECK_DEADLOCK FALSE
