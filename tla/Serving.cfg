SPECIFICATION ServingSpec
CONSTANTS
    Req = {r1}
    RequestKinds <- MCKinds
    PrivateAddrs = {"lan", "local"}
    LoopbackAddrs = {"local"}
    ProxyHosts = {"proxy"}
    ClientAddrs = {"c1", "c2"}
    AllowLists = {{}, {"c1", "c2"}}
    ExemptLists = {{}, {"upload"}}
    MetricsLists = {{}, {"c2"}}
    BlockLists = {{}, {"c1"}}
    DeniedCountry = {"c2"}
    MaxChanges = 1
    IPs = {ip1, ip2}
    Calls = {q1, q2}
    Buckets = {b1, b2, b3, b4, b5}
    NoBucket = NoBucket
    Limits = {1, 2}
    LimitWindow = 1
    LimiterMaxTime = 1
    MaxRounds = 1
    Procs = {p1, p2}
    Secrets = {s1, s2}
    NoSecret = NoSecret
    CaptchaTTL = 1
    IDWindow = 2
    SecretsMaxTime = 4
    Faults = TRUE
    TrackingIDs = {t1}
    Viewers = {v1, v2}
    ClosedGrace = 0
    ReportsMaxDay = 1
    Keys = {k1, k2, k3}
    NoKey = NoKey
    RotatedGrace = 0
    KeysMaxDay = 1
    MaxRuns = 3
    RestoreFiles = {"server.yml", "server.db"}
    MaxCommands = 3
    LogConfigs <- MCLogConfigs
    MaxLines = 3
    LogMaxDay = 2
    Seconds = 2
    CertModes = {"dns", "autocert", "overlay", "off"}
    CertLife = 1
    MaxKeys = 4
    CertMaxDay = 3
    Openers = {"server", "command"}
    OldLayouts <- MCOldLayouts
    MaxOpenings = 3
    MaxSchemaFaults = 1
    Managers = {"systemd", "openrc", "sysv", "runit", "launchd", "bsdrc"}
    MaxServiceCommands = 4
    MaxServiceFaults = 1
INVARIANTS
    RequestsGuarded
    LimitsKept
    SecretsSound
    ReportsHandled KeysUsable
    RestoreSound LogsSound CertificatesSound
    SchemaSound ServiceSound
PROPERTIES RefusedOnlyAtLimit
CHECK_DEADLOCK FALSE
