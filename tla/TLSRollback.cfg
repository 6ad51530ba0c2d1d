SPECIFICATION FairSpec
CONSTANTS
    p1 = p1
    p2 = p2
    s1 = s1
    None = None
    Off = Off
    Broken = Broken
    Pods <- MCPods
    Names <- OneName
    Leaves <- MCLeaves
    CAs <- MCCAs
    Issuer <- MCIssuer
    Bundles <- BackBundles
    Rotations <- BackRotations
    EditKinds <- RotateOnly
    MaxEdits = 2
    FaultKinds <- DialFaults
    MaxFaults = 1
PROPERTY ServedConverges
CHECK_DEADLOCK FALSE
