-------------------------- MODULE MCRegistryClient --------------------------
EXTENDS RegistryClient, TLC

Symmetry == Permutations(Caller)

Ask(force, refresh, policy) ==
    [force |-> force, refresh |-> refresh, policy |-> policy]

Normal == Ask(FALSE, FALSE, "normal")
Strict == Ask(FALSE, FALSE, "strict")
Cached == Ask(FALSE, FALSE, "cache-only")
Refresh == Ask(FALSE, TRUE, "normal")
Force == Ask(TRUE, FALSE, "normal")

Behaviour(loads, ops, n) == [loads |-> loads, ops |-> ops, calls |-> n]

\* Each scenario brings together the calls that can disturb each other.
MCScenarios == {
    Behaviour({Normal, Force}, {"outage"}, 2),
    Behaviour({Normal, Refresh}, {"outage", "crash"}, 2),
    Behaviour({Normal, Strict}, {"time", "crash"}, 2),
    Behaviour({Cached, Strict}, {"failures", "outage"}, 2),
    Behaviour({Normal, Refresh}, {"time", "clearCache"}, 2),
    Behaviour({Refresh, Force}, {"invalidate", "offline"}, 2),
    Behaviour({Force}, {"invalidate"}, 3),
    Behaviour({Normal}, {"lookup", "manifest", "offline"}, 2),
    Behaviour({Force}, {"manifest", "prefetch"}, 2)}
=============================================================================
