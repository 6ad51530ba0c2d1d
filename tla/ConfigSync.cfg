CONSTANTS
    None = None
    DefaultPool = "default"
    Configs <- MCConfigs
    Specs <- MCSpecs
    Groups <- MCGroups
    Pods <- MCPods
    Fragile = {1, 2}
    Addrs <- MCAddrs
    Passwords <- MCPasswords
    MonitorKeys = {"monitor"}
    Peers <- MCPeers
    PgsqlEnabled = FALSE
    AccessKinds <- MCAccess
    NativeFaults <- MCNativeFaults
    ProxyFaults <- MCProxyFaults
    Wiped <- MCWiped
    FreshProxy <- MCFreshProxy
    Starts <- MCStarts
    At <- MCAt
    FirstPassword = "old"
    Events <- MCEvents
    MaxEvents = 2
SPECIFICATION FairSpec
INVARIANT TypeOK
INVARIANT SkipOnlyWhenAsserted
PROPERTY Promise
PROPERTY Converges
PROPERTY DeletionEnds
CHECK_DEADLOCK FALSE
