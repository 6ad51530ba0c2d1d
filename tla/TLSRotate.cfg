SPECIFICATION FairSpec
CONSTANTS
    p1 = p1
    p2 = p2
    s1 = s1
    None = None
    Off = Off
    Broken = Broken
    Pods <- MCPods
    Names <- OneName
    Leaves <- MCLeaves
    CAs <- MCCAs
    Issuer <- MCIssuer
    Bundles <- RenewBundles
    Rotations <- RenewRotations
    EditKinds <- AllEdits
    MaxEdits = 2
    FaultKinds <- AllFaults
    MaxFaults = 1
INVARIANT TLSMarkerHonest
INVARIANT TypeOK
INVARIANT NoDanglingBoot
PROPERTY NeverDroppedByFailure
PROPERTY WindowNotReopened
PROPERTY ServedConverges
CHECK_DEADLOCK FALSE
