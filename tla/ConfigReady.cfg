CONSTANTS
    None = None
    DefaultPool = "default"
    Configs <- MCConfigs
    Specs <- MCSpecs
    Groups <- MCGroupsAlone
    Pods <- MCPods
    Fragile = {1, 2}
    Addrs <- MCAddrs
    Passwords <- MCPasswords
    MonitorKeys = {"monitor"}
    Peers <- MCPeers
    PgsqlEnabled = FALSE
    AccessKinds <- MCAccess
    NativeFaults <- MCNativeFaults
    ProxyFaults <- MCProxyFaults
    Wiped <- MCWiped
    FreshProxy <- MCFreshProxy
    Starts <- MCStartsAlone
    At <- MCAt
    FirstPassword = "old"
    Events = {"secret"}
    MaxEvents = 1
SPECIFICATION FairSpec
PROPERTY ReadyReturns
CHECK_DEADLOCK FALSE
