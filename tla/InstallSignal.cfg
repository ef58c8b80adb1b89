SPECIFICATION FairSpec
CONSTANTS
    a = a
    b = b
    c = c
    r = r
    s = s
    manifest = manifest
    file = file
    SignalHandler = SignalHandler
    StartupRecovery = StartupRecovery
    NoTx = NoTx
    NoCall = NoCall
    NoSnapshot = NoSnapshot
    NoLockfile = NoLockfile
    Res = {r}
    Files = {manifest}
    Manifest = manifest
    Tx = {a}
    Clients = {a}
    BinaryFiles = {}
    ResourceOf <- OneResource
    DepsOf <- NoDeps
    Roots = {a}
    Removable = {r}
    MayFail = {"journal"}
    MaxConcurrent = 2
    MaxSignals = 1
    MaxCrashes = 0
PROPERTIES
    CallsSettle
CHECK_DEADLOCK FALSE
