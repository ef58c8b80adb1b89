SPECIFICATION Spec
CONSTANTS
    a = a
    b = b
    c = c
    r = r
    s = s
    manifest = manifest
    file = file
    SignalHandler = SignalHandler
    StartupRecovery = StartupRecovery
    NoTx = NoTx
    NoCall = NoCall
    NoSnapshot = NoSnapshot
    NoLockfile = NoLockfile
    Res = {r, s}
    Files = {manifest, file}
    Manifest = manifest
    Tx = {a, b, c}
    Clients = {a, b, c}
    BinaryFiles = {}
    ResourceOf <- TwoResources
    DepsOf <- TwoDeps
    Roots = {a}
    Removable = {}
    MayFail <- AllButRestore
    MaxConcurrent = 1
    MaxSignals = 0
    MaxCrashes = 1
INVARIANTS
    TypeOK
PROPERTIES
    KeepsLifecycle
CHECK_DEADLOCK FALSE
