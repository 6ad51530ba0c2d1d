SPECIFICATION Spec
CONSTANTS
    p1 = p1
    p2 = p2
    None = None
    Pods <- MCPods
    Vars <- MCVars
    Values <- MCValues
    Domain <- MCDomain
    Monitor <- MCMonitor
    Stubborn <- MCStubborn
    Cnfs <- TwoStepCnfs
    Edits <- TwoStepEdits
    Legacy = FALSE
    EditWhen = "converged"
    MaxEdits = 1
    FaultKinds <- PodFaults
    MaxFaults = 1
PROPERTY RestartOnlyWithReason
CHECK_DEADLOCK FALSE
