SPECIFICATION Spec
CONSTANTS
    a = a
    b = b
    c = c
    r = r
    s = s
    manifest = manifest
    file = file
    SignalHandler = SignalHandler
    StartupRecovery = StartupRecovery
    NoTx = NoTx
    NoCall = NoCall
    NoSnapshot = NoSnapshot
    NoLockfile = NoLockfile
    Res = {r, s}
    Files = {manifest, file}
    Manifest = manifest
    Tx = {a, b}
    Clients = {a, b}
    BinaryFiles = {}
    ResourceOf <- TwoResources
    DepsOf <- NoDeps
    Roots = {a, b}
    Removable = {r}
    MayFail = {"hook"}
    MaxConcurrent = 2
    MaxSignals = 0
    MaxCrashes = 0
INVARIANTS
    NewIsJournaled
CHECK_DEADLOCK FALSE
