--------------------------- MODULE MCCacheManager ---------------------------
EXTENDS CacheManager, TLC

Symmetry == Permutations(Caller)

Behaviour(ops, n, c) == [ops |-> ops, calls |-> n, crashes |-> c]

\* Each scenario brings together the operations that can disturb each other.
MCScenarios == {
    Behaviour({"get", "set", "invalidate"}, 3, 1),
    Behaviour({"get", "set", "clearExpired", "invalidateResource", "time"}, 2, 0),
    Behaviour({"get", "set", "cleanup", "clearAll", "invalidateLayer"}, 2, 1),
    Behaviour({"get", "getRaw", "setRaw", "set", "flush"}, 2, 1),
    Behaviour({"getOrSet", "time"}, 2, 1),
    Behaviour({"store", "release", "cleanup"}, 5, 0)}
=============================================================================
