CONSTANTS
    Caller = {c1, c2}
    Key = {k1, k2}
    Blob = {b}
    MaxEntries = 1
    MaxWrites = 1
    Scenarios <- MCScenarios
    NoKey = NoKey
SPECIFICATION Spec
SYMMETRY Symmetry
INVARIANTS
    HitsAreRecent
    OneLeader
    NothingLeaks
    CallsGoOn
CHECK_DEADLOCK FALSE
