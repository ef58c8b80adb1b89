CONSTANTS
    Caller = {c1, c2}
    Task = {t}
    CacheKey = {"registry", "manifest"}
    FlightKey = {"registry", "manifest"}
    Flight = {f1, f2, f3}
    NoFlight = NoFlight
    MaxVersion = 2
    Scenarios <- MCScenarios
SPECIFICATION Spec
SYMMETRY Symmetry
INVARIANTS
    FlightsShared
    ForcedIsFetched
    StaleIsServed
CHECK_DEADLOCK FALSE
