SPECIFICATION Spec
CONSTANTS
    p1 = p1
    p2 = p2
    s1 = s1
    None = None
    Off = Off
    Broken = Broken
    Pods <- MCPods
    Names <- OneName
    Leaves <- MCLeaves
    CAs <- MCCAs
    Issuer <- MCIssuer
    Bundles <- CABundles
    Rotations <- CARotations
    EditKinds <- RotateOnly
    MaxEdits = 1
    FaultKinds <- DialFaults
    MaxFaults = 0
INVARIANT TLSMarkerHonest
CHECK_DEADLOCK FALSE
