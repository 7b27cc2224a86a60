SPECIFICATION MCServicesSpec
CONSTANTS
    b1 = b1
    b2 = b2
    h1 = h1
    h2 = h2
    h3 = h3
    h4 = h4
    f1 = f1
    f2 = f2
    f3 = f3
    q1 = q1
    q2 = q2
    q3 = q3
    c1 = c1
    c2 = c2
    r1 = r1
    r2 = r2
    \* index and producer
    Hashes = {h1, h2, h3, h4}
    Backends = {b1, b2}
    Buckets = {0, 1, 2, 3}
    Fps = {f1, f2, f3}
    Probe <- MCProbe
    Alt <- MCAlt
    Slots = 1
    MaxKicks = 2
    LaneIds = {1}
    Chains <- MCChains
    Removals <- MCRemovals
    \* consumer
    RemoteLanes = {0}
    Regions = {ra}
    NoRegion = none
    Images <- MCImages
    Queries <- MCQueries
    \* tenants
    Tenants = {"gold", "free"}
    Requests = {q1, q2, q3}
    Tiers <- MCTenantTiers
    Defaults <- MCDefaults
    SaturationPct = 80
    Capacities = {0, 1}
    Unit = 2
    MaxTime = 2
    \* shared
    Kinds = {"local", "redis"}
    Clients = {c1, c2}
    Tables = {"instances", "sessions"}
    Keys = {"k"}
    Values = {"v"}
    Sec = 2
    Ttls = {1, 3}
    Locks = {"l"}
    MaxClock = 4
    \* weights
    Workers = {"b1"}
    Routers = {r1, r2}
    Scale = 4
    Base <- MCBase
    MinWeight = 2
    WeightUnit = 20
    MaxAdjustment = 2
    AlphaDiv = 2
    Overlaps = {0, 5}
    LoadViews <- MCLoadViews
    Interval = 1
    MaxAge = 1
    \* sync
    Nodes = {"n1", "n2"}
    Senders = {"n1", "n2", "joiner"}
    HomeOf <- MCHomeOf
    Peers <- MCPeers
    Servers = {"s1", "s2"}
    ServerRegion <- MCServerRegion
    Announcements <- MCAnnouncements
    SyncKeys = {"load_state", "topology_state", "other"}
    LaneRegions = {"far"}
    MaxVersion = 1
    MaxMail = 1
    \* connectors
    Configs <- MCConfigs
    EmitTokenIds = TRUE
    Asks <- MCAsks
    Reports <- MCReports
    Wires <- MCWires
    Pages <- MCPages
INVARIANTS
    PTypeOK
    ConsumerTypeOK
    AnswersAreWitnessed
    OwnershipAgrees
    FingerprintsMatchOwners
    ChangesAreDirty
    LanesAgree
    MissesAreDisplaced
    RateLimitHolds
    LockExclusive
    WeightsAreBounded
    NoCrosstalk
    ConnectorContract
SYMMETRY Symmetric
CHECK_DEADLOCK FALSE
