SPECIFICATION Spec
CONSTANTS
    a = a
    b = b
    c = c
    r = r
    s = s
    manifest = manifest
    file = file
    SignalHandler = SignalHandler
    StartupRecovery = StartupRecovery
    NoTx = NoTx
    NoCall = NoCall
    NoSnapshot = NoSnapshot
    NoLockfile = NoLockfile
    Res = {r, s}
    Files = {manifest, file}
    Manifest = manifest
    Tx = {a}
    Clients = {a}
    BinaryFiles = {file}
    ResourceOf <- TwoResources
    DepsOf <- NoDeps
    Roots = {a}
    Removable = {}
    MayFail = {"file"}
    MaxConcurrent = 1
    MaxSignals = 0
    MaxCrashes = 0
INVARIANTS
    BystandersUntouched
CHECK_DEADLOCK FALSE
