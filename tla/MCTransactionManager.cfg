SPECIFICATION FairSpec
CONSTANTS
    Tx = {t1}
    Clients = {c1, c2}
    SignalHandler = SignalHandler
    StartupRecovery = StartupRecovery
    NoTx = NoTx
    NoCall = NoCall
    Marks <- MCMarks
    MaxJournal = 2
    MaxCrashes = 1
    t1 = t1
    c1 = c1
    c2 = c2
INVARIANTS
    TypeOK
    JournalConsistent
    OrphanCommitsMarked
PROPERTIES
    OrphanCommitsRecovered
CHECK_DEADLOCK FALSE
