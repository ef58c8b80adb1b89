SPECIFICATION ServicesSpec
CONSTANTS
    a = a
    b = b
    c1 = c1
    c2 = c2
    c3 = c3
    t1 = t1
    u = u
    v = v
    r1 = r1
    r2 = r2
    r3 = r3
    r4 = r4
    d1 = d1
    d2 = d2
    k1 = k1
    k2 = k2
    k3 = k3
    e1 = e1
    e2 = e2
    y1 = y1
    y2 = y2
    Task = {t1, t2, t3, t4, t5}
    MaxConcurrent = 2
    MayTimeOut = {t1, t2, t3, t4, t5}
    Resource = {a, b}
    File = {f, g}
    Worker = {w1, w2}
    Requires <- LifeRequires
    Batches <- LifeBatches
    MaxCalls = 3
    MaxFaults = 1
    Fetch = {c1, c2, c3, t1}
    Url = {u, v}
    urlOf <- NetUrlOf
    MaxConcurrency = 1
    MaxRetries = 1
    Run = {r1, r2, r3, r4}
    Category = {"background", "metadata"}
    categoryOf <- RunCategories
    Limit <- OneEach
    Getter = {g1, r1}
    FreshTTL = 1
    StaleTTL = 2
    MaxBudget = 1
    Window = 2
    MaxTime = 4
    Path <- SourceFiles
    RegistryFile = "registry.json"
    Tree = "tree"
    Manifests <- ThreeManifests
    NameOf <- SharedName
    IsValid <- AllValid
    RegistryText = "garbage"
    HasToken = TRUE
    Reader = {d1, d2}
    Wants <- ReaderWants
    MaxVersion = 1
    TransportRetries = 1
    Key = {k1, k2, k3}
    Size <- KeySizes
    MaxSize = 3
    MaxEntries = 2
    User = {n1, n2}
    MaxOps = 4
    MaxTries <- StageTries
    Process = {p1, p2, p3}
    NoProcess = none
    Item = {e1, e2}
    Section = {y1, y2}
    sectionOf <- ItemSections
    Recommended = {e1}
    Setting <- Toggles
    DefaultConfig <- Defaults
    None = none
    MaxDepth = 12
    Visitor = {l1, l2, l3}
    Project = "here"
    Inputs <- OfflineHere
    Ambient <- OnlineThere
    Listener = {h1, h2, h3}
    OnceOnly = {h2}
    Emission = {m1, m2}
    MaxRemovals = 1
    Service = {"marketplace"}
INVARIANTS
    OfflineAsksNobody
CHECK_DEADLOCK FALSE
