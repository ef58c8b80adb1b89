SPECIFICATION MCSpec
CONSTANTS
    p1 = p1
    p2 = p2
    p3 = p3
    Id = {1, 2, 3, 4, 5}
    NoAlias = 0
    Registries <- MCRegistries
    Requests <- MCRequests
    MaxDepth = 3
    TTL = 1
    MaxSize = 2
    MaxTime = 3
    Listings <- MCListings
    NoIndex = NoIndex
    Type = {1, 2, 3}
    NamesOf <- MCNamesOf
    TypeInstaller = {1, 2, 3}
    TypesOf <- MCTypesOf
    PriorityOf <- MCPriorityOf
    Nobody = 0
    Plugin = {p1, p2, p3}
    Owner = {p1}
    HookName = {"search", "install"}
    HooksOf <- MCHooksOf
    Execution = {x1, x2}
    Priority <- MCPriority
    Caller = {c1, c2}
    Scenarios <- MCScenarios
SYMMETRY Symmetry
INVARIANTS
    HandlersRunOnce
    FlushedIsOnDisk
    DependenciesFirst
    ResolutionIsSound
    DependentsAreComplete
    StaleAtMostTTL
    MergeIsSound
CHECK_DEADLOCK FALSE
