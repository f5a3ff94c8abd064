\* Identity, roles, keys, providers, the catalog, alerts, prices, plugins, the
\* start and the reload: each module alone, one after the other.
SPECIFICATION ControlSpec
CONSTANTS
    n1 = n1
    n2 = n2
    q1 = q1
    q2 = q2
    a1 = a1
    a2 = a2
    s1 = s1
    s2 = s2
    u2 = u2
    \* IdentityCache
    Replicas = {n1, n2}
    AuthReqs = {q1, q2}
    HomeOf <- Home
    AdminHome = n1
    Scopes = {"api_key", "user"}
    NoEntry = NoEntry
    CacheTTL = 1
    MaxChange = 1
    MaxRedisFault = 1
    \* PermissionCache
    RbacNodes = {n1, n2}
    RbacReqs = {q1, q2}
    NodeOf <- Home
    Perms = {"read", "write"}
    SystemPerms = {"read"}
    LegacyPerms = {}
    RoleAdmins = {a1, a2}
    NoSet = noset
    PermTTL = 1
    MaxRoleChange = 4
    MaxRbacFault = 1
    \* KeyAdministration
    Users = {u1, u2}
    Admin = adm
    Keys = {k1, k2}
    VKeys = {v1}
    NoKey = nokey
    BootKey = k1
    BootUser = u1
    Providers = {"a", "b"}
    Lists <- KeyLists
    MaxWrites = 2
    KeyCallers = {adm, u2}
    \* ProviderRegistry
    Names = {"p", "q"}
    ConfiguredNames = {"p"}
    RegCallers = {c1, c2}
    Checks = {k1}
    FailureThreshold = 2
    MaxRegCalls = 2
    MaxRoutes = 1
    MaxRegFaults = 1
    \* ServiceCatalog
    Services = {s1, s2}
    Subs = {u1}
    Admins = {a1, a2}
    Prefixes = {"x", "y"}
    Surfaces = {"responses", "invoke"}
    SurfaceSets = {{"responses", "invoke"}}
    MaxVersions = 2
    MaxKeys = 2
    MaxEdits = 2
    MaxCalls = 3
    MaxCatFaults = 1
    \* AlertDelivery
    Notifiers = {n1, n2}
    AlertConfs <- AlertFiles
    AlertEvents <- Happenings
    DedupWindow = 2
    QuotaWindow = 1
    SendSlots = 1
    MaxReloads = 1
    \* PricingFeed
    FeedKeys = {"m", "M", "x", "X"}
    LowerOf <- LowerCase
    Published <- Feeds
    MaxFeeds = 3
    MaxPriceFaults = 1
    \* PluginMarket
    PluginAdmins = {a1, a2}
    PluginNames = {"p", "q"}
    Configured <- PluginFile
    MaxPlugins = 1
    MaxPluginEdits = 2
    MaxPluginFaults = 2
    \* GatewayStartup
    Gateways = {"g1", "g2"}
    ProviderNames = {"p", "q"}
    EnabledProviders <- GatewayFiles
    BootKeys = {"admin", "k"}
    MaxStarts = 3
    MaxTenantEdits = 1
    MaxSeedFaults = 1
    \* ConfigReload
    Reloads = {"r1", "r2"}
    Versions = {1, 2, 3}
    Refused = {3}
    MaxApplyFaults = 2
CHECK_DEADLOCK FALSE
INVARIANTS
    IdentitySound
    AccessSound
    RegistrySound
    CatalogSound
    UpkeepSound
    ConfigSound
PROPERTIES
    ControlSteps
