SPECIFICATION MCSpec
CONSTANTS
    BackendIds <- MCBackendIds
    Regions = {"near", "far"}
    SelfRegion = "near"
    RegionOf <- MCRegionOf
    DomainOf <- MCDomainOf
    ModelLists <- MCModelLists
    MetricsValues <- MCMetricsValues
    Hashes = {"h1", "h2"}
    HeldValues = {{"h1", "h2"}}
    Sessions = {"s"}
    SessionTtl = 10
    RttValues = {20}
    CustomEntries <- MCCustom
    BuiltinEntries <- MCBuiltin
    NameContains <- MCContains
    Prices <- MCPrices
    Tiers <- MCTiers
    RemoteHeld <- MCRemoteHeld
    Requests = {"r1", "r2"}
    Request <- MCRequest
    Configs <- MCConfigs
    MaxHistory = 1
    TickSecs = 40
    MaxClock = 40
    Moving = {1}
    MaxCalls = 1
    MaxReports = 1
INVARIANT
    HeadAnswers
CHECK_DEADLOCK FALSE
