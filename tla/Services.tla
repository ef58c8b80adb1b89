------------------------------ MODULE Services ------------------------------
(***************************************************************************)
(* The services that share no state with one another: a behaviour          *)
(* exercises one of them, which the variable service names.                *)
(***************************************************************************)
EXTENDS ConcurrencyLimiter

CONSTANTS
    Service,                       \* the services that are exercised
    \* Lifecycle
    Resource, File, Worker, Requires, Batches, MaxCalls, MaxFaults,
    \* NetworkClient
    Fetch, Url, urlOf, MaxConcurrency, MaxRetries,
    \* NetworkRuntime
    Run, Category, categoryOf, Limit, Getter, FreshTTL, StaleTTL, MaxBudget, Window, MaxTime,
    \* RepoSources, whose transport has a number of retries of its own
    Path, RegistryFile, Tree, Manifests, NameOf, IsValid, RegistryText, HasToken, Reader,
    Wants, MaxVersion, TransportRetries,
    \* StorageManager
    Key, Size, MaxSize, MaxEntries, User, MaxOps,
    \* Startup
    MaxTries,
    \* StateLock
    Process, NoProcess,
    \* Wizard, with the names of what it shows of resources and categories
    Item, Section, sectionOf, Recommended, Setting, DefaultConfig, None, MaxDepth,
    \* Marketplace
    Visitor, Project, Inputs, Ambient,
    \* EventBus
    Listener, OnceOnly, Emission, MaxRemovals

\* config.maxConcurrency, and the limits of the categories.
ASSUME ClientAssumption == IsFiniteSet(Fetch) /\ MaxConcurrency \in Nat \ {0}
ASSUME RuntimeAssumption ==
    IsFiniteSet(Run) /\ categoryOf \in [Run -> Category] /\ Limit \in [Category -> Nat]

\* A tree names a path once, and registry.json and the tree are no manifests.
ASSUME ListingAssumption ==
    /\ RegistryFile \in Path /\ Tree \in Path /\ RegistryFile # Tree
    /\ Manifests \in Seq(Path)
    /\ \A i \in 1 .. Len(Manifests) : Manifests[i] \notin {RegistryFile, Tree}
    /\ \A i, j \in 1 .. Len(Manifests) : Manifests[i] = Manifests[j] => i = j
    /\ Wants \in [Reader -> Path \cup {"discover"}] /\ "discover" \notin Path
    /\ TransportRetries \in Nat

\* A cache has room for an entry, and what does not parse lists no keys.
ASSUME StorageAssumption ==
    /\ Size \in [Key -> Nat] /\ MaxSize \in Nat /\ MaxEntries \in Nat \ {0}
    /\ "torn" \notin Key

\* null is no resource and no result.
ASSUME NoneAssumption ==
    /\ None \notin Item /\ Recommended \subseteq Item
    /\ \A of \in Item \cup {None}, success \in BOOLEAN :
          None # [of |-> of, success |-> success]

VARIABLES
    service,
    installed, writes, files, locked, batch, op, step, calls, faults, deleted, overlapped,
    at, joined, inFlight, slots, line, attempt, etag,
    now, slot, busy, waiting, used, windowStart, record, refreshing, getter, source,
    remote, primary, native, cached, reader,
    manifest, onDisk, caller, ops, raced,
    stage, try, waitFor, passed, result, late, shown, aborted,
    lockFile, where, repair,
    live, stack, data, seen, local, install, confirmed,
    initial, managed, built, holds, loaded, catalog, disk, visitor, mixed, contacted,
    arrays, mapped, home, emission, removals, removed, crossed

-----------------------------------------------------------------------------
Life == INSTANCE Lifecycle WITH queue <- batch, pc <- step
Net == INSTANCE NetworkClient
Rt == INSTANCE NetworkRuntime
Src == INSTANCE RepoSources WITH MaxRetries <- TransportRetries
Sto == INSTANCE StorageManager
Start == INSTANCE Startup
Lock == INSTANCE StateLock
Wiz == INSTANCE Wizard WITH Resource <- Item, Category <- Section, categoryOf <- sectionOf
Mkt == INSTANCE Marketplace
Bus == INSTANCE EventBus

lifeVars == <<installed, writes, files, locked, batch, op, step, calls, faults,
              deleted, overlapped>>
netVars == <<at, joined, inFlight, slots, line, attempt, etag>>
rtVars == <<now, slot, busy, waiting, used, windowStart, record, refreshing, getter, source>>
srcVars == <<remote, primary, native, cached, reader>>
stoVars == <<manifest, onDisk, caller, ops, raced>>
startVars == <<stage, try, waitFor, passed, result, late, shown, aborted>>
lockVars == <<lockFile, where, repair>>
wizVars == <<live, stack, data, seen, local, install, confirmed>>
mktVars == <<initial, managed, built, holds, loaded, catalog, disk, visitor, mixed,
             contacted>>
busVars == <<arrays, mapped, home, emission, removals, removed, crossed>>
servicesVars == <<vars, service, lifeVars, netVars, rtVars, srcVars, stoVars, startVars,
                  lockVars, wizVars, mktVars, busVars>>

ServicesInit ==
    /\ service \in Service
    /\ Init
    /\ Life!LifecycleInit
    /\ Net!NetworkInit
    /\ Rt!RuntimeInit
    /\ Src!SourcesInit
    /\ (service # "sources" => remote = [p \in Path |-> 1])
    /\ Sto!StorageInit
    /\ Start!StartupInit
    /\ Lock!LockInit
    /\ Wiz!WizardInit
    /\ Mkt!MarketInit
    /\ Bus!BusInit
    /\ (service # "marketplace" => initial = Mkt!Absent /\ disk = {})

ServicesNext ==
    /\ UNCHANGED service
    /\ \/ /\ service = "limiter" /\ Next
          /\ UNCHANGED <<lifeVars, netVars, rtVars, srcVars, stoVars, startVars, lockVars,
                          wizVars, mktVars, busVars>>
       \/ /\ service = "lifecycle" /\ Life!LifecycleNext
          /\ UNCHANGED <<vars, netVars, rtVars, srcVars, stoVars, startVars, lockVars,
                          wizVars, mktVars, busVars>>
       \/ /\ service = "network" /\ Net!NetworkNext
          /\ UNCHANGED <<vars, lifeVars, rtVars, srcVars, stoVars, startVars, lockVars,
                          wizVars, mktVars, busVars>>
       \/ /\ service = "runtime" /\ Rt!RuntimeNext
          /\ UNCHANGED <<vars, lifeVars, netVars, srcVars, stoVars, startVars, lockVars,
                          wizVars, mktVars, busVars>>
       \/ /\ service = "sources" /\ Src!SourcesNext
          /\ UNCHANGED <<vars, lifeVars, netVars, rtVars, stoVars, startVars, lockVars,
                          wizVars, mktVars, busVars>>
       \/ /\ service = "storage" /\ Sto!StorageNext
          /\ UNCHANGED <<vars, lifeVars, netVars, rtVars, srcVars, startVars, lockVars,
                          wizVars, mktVars, busVars>>
       \/ /\ service = "startup" /\ Start!StartupNext
          /\ UNCHANGED <<vars, lifeVars, netVars, rtVars, srcVars, stoVars, lockVars,
                          wizVars, mktVars, busVars>>
       \/ /\ service = "lock" /\ Lock!LockNext
          /\ UNCHANGED <<vars, lifeVars, netVars, rtVars, srcVars, stoVars, startVars,
                          wizVars, mktVars, busVars>>
       \/ /\ service = "wizard" /\ Wiz!WizardNext
          /\ UNCHANGED <<vars, lifeVars, netVars, rtVars, srcVars, stoVars, startVars,
                          lockVars, mktVars, busVars>>
       \/ /\ service = "marketplace" /\ Mkt!MarketNext
          /\ UNCHANGED <<vars, lifeVars, netVars, rtVars, srcVars, stoVars, startVars,
                          lockVars, wizVars, busVars>>
       \/ /\ service = "events" /\ Bus!BusNext
          /\ UNCHANGED <<vars, lifeVars, netVars, rtVars, srcVars, stoVars, startVars,
                          lockVars, wizVars, mktVars>>

\* The functions that the limiter runs settle; in the startup the event loop
\* turns and timers fire, while the marketplace need not answer.
ServicesSpec ==
    /\ ServicesInit
    /\ [][ServicesNext]_servicesVars
    /\ Fairness
    /\ WF_startVars(service = "startup" /\ Start!Turns)
    /\ WF_startVars(service = "startup" /\ Start!TimesOut)
    /\ WF_wizVars(service = "wizard" /\ Wiz!Progress)

-----------------------------------------------------------------------------
(* The properties of the services, under the names of their modules.       *)

RemovalIsAnnounced == Life!RemovalIsAnnounced
NobodyStranded ==
    /\ Net!NobodyStranded
    /\ Rt!SlotsOfOwnCategory
    /\ Lock!LocksAreGivenBack
    /\ Bus!EmissionsAreComplete
    /\ Bus!ListenersStay
ReadsAreSound == Src!ReadsAreSound /\ Mkt!ShownIsKnown
CacheWithinLimits == Sto!CacheWithinLimits
StartupEnds ==
    /\ service = "startup" => Start!StartupEnds
    /\ service = "wizard" => Wiz!InstallIsShown
InstallsWhatWasConfirmed == Wiz!InstallsWhatWasConfirmed
OfflineAsksNobody == Mkt!OfflineAsksNobody
=============================================================================
