--------------------------- MODULE RegistryClient ---------------------------
(***************************************************************************)
(* RegistryClient (src/src/registry/index.ts) over its sources: the local  *)
(* index (RegistryIndexManager), the cache, and the remote repository,     *)
(* whose reads share flights.                                              *)
(*                                                                         *)
(* A registry is the number of the version that the remote had when it was *)
(* read; 0 is null.  A step is the code from one await to the next.  Calls *)
(* of the callers interleave, with one another and with the loads and the  *)
(* prefetches that the client starts and does not wait for.                *)
(***************************************************************************)
EXTENDS Integers, FiniteSets, Cache, SingleFlight

CONSTANTS
    Caller,     \* who calls the client
    Task,       \* bound: what the client has running in the background
    MaxVersion, \* bound: versions of the remote
    Scenarios   \* what happens in a behaviour: the calls and the events, and
                \* the bound on calls

Policy == {"cache-only", "normal", "strict"}
Event == {"lookup", "manifest", "prefetch", "invalidate", "offline", "clearCache",
          "outage", "failures", "time", "crash"}

ASSUME RegistryAssumption ==
    /\ Caller \cap Task = {}
    /\ MaxVersion \in Nat \ {0}
    /\ {"registry", "manifest"} \subseteq CacheKey \cap FlightKey
    /\ Scenarios \subseteq
           [loads : SUBSET [force : BOOLEAN, refresh : BOOLEAN, policy : Policy],
            ops : SUBSET Event, calls : Nat]

None == 0
Process == Caller \cup Task

VARIABLES
    call,       \* what a process is doing
    registry,   \* _registry
    snapshot,   \* _snapshot
    resources,  \* _resourceIndex: the version it was built from
    memory,     \* the _cachedIndex of the index manager
    disk,       \* registry-index.json
    remote,     \* the repository: its version, and whether it answers
    offline,    \* _offline
    scenario, calls,
    \* History
    forced,     \* a load was forced
    indexed     \* an index was saved

clientVars == <<registry, snapshot, resources>>
indexVars == <<memory, disk, indexed>>
setting == <<remote, offline, scenario, calls, forced>>
vars == <<call, clientVars, indexVars, setting, cacheVars, flightVars>>

\* An index has a registry and the revision that was detected after it.
IndexOf(v, rev) == [ver |-> v, rev |-> rev]
NoIndex == IndexOf(None, None)

\* A call: what was asked, what it has at hand, and what it will return.
Idle == [pc |-> "idle", op |-> "none", force |-> FALSE, refresh |-> FALSE,
         policy |-> "normal", local |-> FALSE, age |-> "none",
         index |-> NoIndex, flight |-> NoFlight,
         value |-> None, late |-> FALSE, stale |-> FALSE, fell |-> FALSE,
         entries |-> NoEntries, floor |-> 0, sure |-> FALSE]

TypeOK ==
    /\ \A p \in Process : DOMAIN call[p] = DOMAIN Idle
    /\ {registry, snapshot, resources} \subseteq Nat
    /\ {memory, disk} \subseteq [ver : Nat, rev : Nat]
    /\ remote \in [ver : 1 .. MaxVersion, up : BOOLEAN]
    /\ CacheTypeOK /\ FlightTypeOK

\* A process starts with what an earlier one left: nothing, or the index and
\* the cache of one load.
Init ==
    /\ call = [p \in Process |-> Idle]
    /\ registry = None /\ snapshot = None /\ resources = None
    /\ memory = NoIndex
    /\ remote = [ver |-> 1, up |-> TRUE]
    /\ \E left \in BOOLEAN, age \in {"fresh", "expired"} :
         /\ disk = IF left THEN [ver |-> 1, rev |-> 1] ELSE NoIndex
         /\ entry = [k \in CacheKey |-> IF left /\ k = "registry" THEN age ELSE "none"]
         /\ file = [k \in CacheKey |-> IF left /\ k = "registry" THEN 1 ELSE Missing]
         /\ saved = entry
         /\ indexed = left
    /\ NoFlights
    /\ offline = FALSE /\ scenario \in Scenarios /\ calls = 0 /\ forced = FALSE

-----------------------------------------------------------------------------
(* Freshness (freshness-policy.ts). *)

Usable(age, policy) == CASE policy = "cache-only" -> TRUE
                         [] policy = "normal" -> age \in {"fresh", "stale"}
                         [] policy = "strict" -> FALSE

NeedsRevalidation(age, policy) == policy = "normal" /\ age = "stale"

IsIndexFresh(index, rev) == rev # None /\ index.rev # None /\ index.rev = rev

-----------------------------------------------------------------------------
Go(p, pc) == call' = [call EXCEPT ![p].pc = pc]
At(p, pc) == call[p].pc = pc

\* What a key stands for in this call.
KeyOf(p) == IF call[p].op \in {"load", "lookup", "revalidate"} THEN "registry"
            ELSE "manifest"

\* The client gets a registry from a local source.  If late, the caller will
\* get what is in _registry when the listeners of the event are done.
Adopt(p, v, late, stale) ==
    /\ registry' = v /\ snapshot' = v /\ resources' = v
    /\ call' = [call EXCEPT ![p].pc = "emit", ![p].value = v, ![p].index = NoIndex,
                            ![p].age = "none", ![p].late = late, ![p].stale = stale]

Remaining == UNCHANGED <<remote, offline, scenario, forced>>
SameClient == UNCHANGED clientVars
SameIndex == UNCHANGED indexVars
SameStores == UNCHANGED <<indexVars, cacheVars, flightVars>>

-----------------------------------------------------------------------------
(* load *)

\* The oldest version that a forced load may answer with: it shares a flight
\* that is under way.
Floor == IF inflight["registry"] = NoFlight THEN remote.ver
         ELSE flight[inflight["registry"]].since

Asked(op, force, refresh, policy) ==
    [Idle EXCEPT !.op = op, !.force = force, !.refresh = refresh,
                 !.policy = policy, !.sure = indexed,
                 !.floor = IF force \/ refresh THEN Floor ELSE 0]

\* load from its first line to the event before it; a forced one drops what
\* the client and the index manager have in memory.
Load(p, ask) ==
    IF ask.force
    THEN /\ registry' = None /\ snapshot' = None /\ resources' = None
         /\ memory' = NoIndex /\ forced' = TRUE
         /\ call' = [call EXCEPT ![p] = [ask EXCEPT !.pc = "unlink"]]
         /\ UNCHANGED <<disk, indexed>>
    ELSE /\ SameClient /\ SameIndex /\ UNCHANGED forced
         /\ call' = [call EXCEPT ![p] =
                IF registry # None /\ ~ask.refresh
                THEN [ask EXCEPT !.pc = "return", !.value = registry]
                ELSE [ask EXCEPT !.pc = "index", !.local = offline]]

MayCall(p) ==
    /\ At(p, "idle")
    /\ calls < scenario.calls
    /\ calls' = calls + 1
    /\ UNCHANGED <<remote, offline, scenario, cacheVars, flightVars>>

CallLoad(p) ==
    \E ask \in scenario.loads :
        /\ MayCall(p)
        /\ Load(p, Asked("load", ask.force, ask.refresh, ask.policy))

\* getResource and the other lookups use the resource index, if there is one.
CallLookup(p) ==
    /\ "lookup" \in scenario.ops
    /\ MayCall(p)
    /\ IF resources # None
       THEN /\ call' = [call EXCEPT ![p] =
                  [Asked("lookup", FALSE, FALSE, "normal") EXCEPT
                       !.pc = "return", !.value = resources]]
            /\ SameClient /\ SameIndex /\ UNCHANGED forced
       ELSE Load(p, Asked("lookup", FALSE, FALSE, "normal"))

\* fetchManifest looks the resource up and goes on with the manifest.
CallManifest(p) ==
    /\ "manifest" \in scenario.ops
    /\ MayCall(p)
    /\ resources # None
    /\ call' = [call EXCEPT ![p] =
           [Asked("manifest", FALSE, FALSE, "normal") EXCEPT !.pc = "cache"]]
    /\ SameClient /\ SameIndex /\ UNCHANGED forced

\* RegistryIndexManager.invalidate removes the file.  The index is not asked
\* by a forced load that is online.
Unlink(p) ==
    /\ At(p, "unlink")
    /\ disk' = NoIndex
    /\ call' = [call EXCEPT ![p].local = offline,
                            ![p].pc = IF offline THEN "index" ELSE "cache"]
    /\ SameClient /\ Remaining /\ UNCHANGED <<memory, indexed, calls, cacheVars, flightVars>>

\* loadLocal: what is in memory, or the file.
AskIndex(p) ==
    /\ At(p, "index")
    /\ call' = [call EXCEPT ![p].index = memory,
                            ![p].pc = IF memory # NoIndex THEN "indexed" ELSE "read"]
    /\ SameClient /\ SameStores /\ Remaining /\ UNCHANGED calls

ReadIndex(p) ==
    /\ At(p, "read")
    /\ call' = [call EXCEPT ![p].index = disk, ![p].pc = "parse"]
    /\ SameClient /\ SameStores /\ Remaining /\ UNCHANGED calls

ParseIndex(p) ==
    /\ At(p, "parse")
    /\ memory' = IF call[p].index # NoIndex THEN call[p].index ELSE memory
    /\ Go(p, "indexed")
    /\ SameClient /\ Remaining /\ UNCHANGED <<disk, indexed, calls, cacheVars, flightVars>>

\* A local index is used offline, after a failure, and by a refresh.  Else the
\* revision of the remote decides.
UseIndex(p) ==
    /\ At(p, "indexed")
    /\ LET index == call[p].index
           asIs == call[p].local \/ call[p].fell \/ call[p].refresh
       IN  \/ index = NoIndex /\ Go(p, "cache") /\ SameClient
           \/ index # NoIndex /\ asIs /\ Adopt(p, index.ver, FALSE, FALSE)
           \/ index # NoIndex /\ ~asIs /\ Go(p, "detect") /\ SameClient
    /\ SameStores /\ Remaining /\ UNCHANGED calls

\* detectRevision: the revision, none, or an error.
Detected == IF remote.up THEN {remote.ver, None} ELSE {None}

CheckIndex(p) ==
    /\ At(p, "detect")
    /\ LET index == call[p].index
       IN  \/ \E rev \in Detected :
                IF IsIndexFresh(index, rev)
                THEN Adopt(p, index.ver, FALSE, FALSE)
                ELSE /\ call' = [call EXCEPT ![p].index = NoIndex, ![p].pc = "cache"]
                     /\ SameClient
           \/ "failures" \in scenario.ops /\ Adopt(p, index.ver, FALSE, FALSE)
    /\ SameStores /\ Remaining /\ UNCHANGED calls

-----------------------------------------------------------------------------
(* The cache, and the flight if it does not help. *)

\* No local source was of use: offline, or after discovery failed, ...
GivesUp(p) == IF KeyOf(p) = "manifest" THEN offline
              ELSE call[p].local \/ call[p].fell

GiveUp(p) == /\ Go(p, IF KeyOf(p) = "manifest" THEN "return" ELSE "failed")
             /\ UNCHANGED flightVars

\* ... that is the end; else the call shares a flight.
Share(p) == \E f \in Flight :
    /\ Do(KeyOf(p), f, remote.ver)
    /\ call' = [call EXCEPT ![p].flight = f, ![p].age = "none", ![p].pc = "wait"]

Missed(p) == IF GivesUp(p) THEN GiveUp(p) ELSE Share(p)

AskCache(p) ==
    /\ At(p, "cache")
    /\ IF Listed(KeyOf(p))
       THEN /\ call' = [call EXCEPT ![p].age = entry[KeyOf(p)], ![p].pc = "cached"]
            /\ UNCHANGED flightVars
       ELSE Missed(p)
    /\ SameClient /\ SameIndex /\ Remaining /\ UNCHANGED <<calls, cacheVars>>

\* A mutant: a forced load does not skip the cache.
AcceptedForced(p) ==
    \/ KeyOf(p) = "manifest"
    \/ call[p].local \/ call[p].fell
    \/ Usable(call[p].age, call[p].policy)

\* What the cache has is used offline and after a failure whatever its age,
\* and by a load that is not forced as its policy says.
Accepted(p) ==
    \/ KeyOf(p) = "manifest"
    \/ call[p].local \/ call[p].fell
    \/ ~call[p].force /\ Usable(call[p].age, call[p].policy)

UseCache(p) ==
    /\ At(p, "cached")
    /\ LET k == KeyOf(p)
           stale == /\ NeedsRevalidation(call[p].age, call[p].policy)
                    /\ ~(call[p].fell \/ call[p].local \/ call[p].refresh)
       IN  \/ /\ Readable(k) /\ Accepted(p) /\ k = "registry"
              /\ Adopt(p, file[k], ~call[p].fell, stale)
              /\ UNCHANGED flightVars
           \/ /\ Readable(k) /\ k = "manifest"
              /\ call' = [call EXCEPT ![p].value = file[k], ![p].pc = "return"]
              /\ SameClient /\ UNCHANGED flightVars
           \/ ~(Readable(k) /\ Accepted(p)) /\ Missed(p) /\ SameClient
    /\ SameIndex /\ Remaining /\ UNCHANGED <<calls, cacheVars>>

-----------------------------------------------------------------------------
(* Flights *)

\* The request reads the repository, unless that does not answer.
Request(f) ==
    /\ Arrive(f, IF remote.up THEN remote.ver ELSE None)
    /\ UNCHANGED <<call, calls, cacheVars>>
    /\ SameClient /\ SameIndex /\ Remaining

\* Whoever shares the flight goes on with its result.
Answer(f) ==
    /\ Settle(f)
    /\ call' = [p \in Process |->
          IF At(p, "wait") /\ call[p].flight = f
          THEN [call[p] EXCEPT !.flight = NoFlight, !.value = flight[f].value,
                               !.pc = "landed"]
          ELSE call[p]]
    /\ SameClient /\ SameIndex /\ Remaining /\ UNCHANGED <<calls, cacheVars>>

\* _loadStaleRegistry asks the index and then the cache, whatever their age.
LoadStale(p) == [call EXCEPT ![p].fell = TRUE, ![p].pc = "index"]

\* A mutant: the index is not asked after a failure.
LandUnindexed(p) ==
    /\ At(p, "landed") /\ KeyOf(p) = "registry"
    /\ IF call[p].value # None
       THEN registry' = call[p].value /\ Go(p, "revise")
       ELSE /\ call' = [LoadStale(p) EXCEPT ![p].pc = "cache"]
            /\ UNCHANGED registry
    /\ UNCHANGED <<snapshot, resources, calls>> /\ SameStores /\ Remaining

\* Discovery succeeded; or it failed, and the stale data have to do.
Land(p) ==
    /\ At(p, "landed") /\ KeyOf(p) = "registry"
    /\ IF call[p].value # None
       THEN registry' = call[p].value /\ Go(p, "revise")
       ELSE call' = LoadStale(p) /\ UNCHANGED registry
    /\ UNCHANGED <<snapshot, resources, calls>> /\ SameStores /\ Remaining

\* A manifest is cached; a prefetched one is not.
LandManifest(p) ==
    /\ At(p, "landed") /\ KeyOf(p) = "manifest"
    /\ CASE call[p].op = "prefetch" -> call' = [call EXCEPT ![p] = Idle]
         [] call[p].value = None -> Go(p, "return")
         [] OTHER -> Go(p, "put")
    /\ SameClient /\ SameStores /\ Remaining /\ UNCHANGED calls

\* What the client starts and does not wait for, up to its first await: the
\* prefetch of the manifests, and a refresh of a stale cache.
Prefetch == [Asked("prefetch", FALSE, FALSE, "normal") EXCEPT !.pc = "cache"]
Revalidate == [Asked("revalidate", FALSE, TRUE, "normal") EXCEPT
                   !.pc = "index", !.local = offline]

\* p goes on as in calls, and a task does the rest.
InBackground(next, ask) ==
    \E t \in Task : At(t, "idle") /\ call' = [next EXCEPT ![t] = ask]

\* The revision is detected after the registry was read.
Revise(p) ==
    /\ At(p, "revise")
    /\ snapshot' = call[p].value /\ resources' = call[p].value
    /\ \E rev \in Detected :
         LET next == [call EXCEPT ![p].index = IndexOf(call[p].value, rev),
                                  ![p].pc = "save"]
         IN  IF ~offline /\ "prefetch" \in scenario.ops
             THEN InBackground(next, Prefetch)
             ELSE call' = next
    /\ UNCHANGED <<registry, calls>> /\ SameStores /\ Remaining

\* RegistryIndexManager.save: a rename, then the copy in memory.
SaveIndex(p) ==
    /\ At(p, "save")
    /\ disk' = call[p].index /\ indexed' = TRUE
    /\ Go(p, "remember")
    /\ SameClient /\ Remaining /\ UNCHANGED <<memory, calls, cacheVars, flightVars>>

SaveIndexFails(p) ==
    /\ At(p, "save") /\ "failures" \in scenario.ops
    /\ Go(p, "put")
    /\ SameClient /\ SameStores /\ Remaining /\ UNCHANGED calls

RememberIndex(p) ==
    /\ At(p, "remember")
    /\ memory' = call[p].index
    /\ call' = [call EXCEPT ![p].index = NoIndex, ![p].pc = "put"]
    /\ SameClient /\ Remaining /\ UNCHANGED <<disk, indexed, calls, cacheVars, flightVars>>

-----------------------------------------------------------------------------
(* set of the cache, for the registry or the manifest at hand *)

AfterPut(p) == IF KeyOf(p) = "registry" THEN "emit" ELSE "return"

PutFails(p) ==
    /\ At(p, "put") /\ "failures" \in scenario.ops
    /\ Go(p, AfterPut(p))
    /\ SameClient /\ SameStores /\ Remaining /\ UNCHANGED calls

Put(p) ==
    \/ At(p, "put") /\ WriteBegins(KeyOf(p)) /\ Go(p, "putting")
    \/ /\ At(p, "putting")
       /\ WriteEnds(KeyOf(p), call[p].value)
       /\ call' = [call EXCEPT ![p].entries = entry',
              ![p].pc = IF entry[KeyOf(p)] = "none" THEN "list" ELSE "remove"]
    \/ /\ At(p, "remove")
       /\ RemoveOld(KeyOf(p))
       /\ call' = [call EXCEPT ![p].entries = entry', ![p].pc = "list"]
    \/ At(p, "list") /\ SaveBegins /\ Go(p, "listing")
    \/ /\ At(p, "listing")
       /\ SaveEnds(call[p].entries)
       /\ call' = [call EXCEPT ![p].entries = NoEntries, ![p].pc = AfterPut(p)]

PutInCache(p) == /\ Put(p)
                 /\ SameClient /\ SameIndex /\ Remaining
                 /\ UNCHANGED <<calls, flightVars>>

-----------------------------------------------------------------------------
\* The listeners of the event are done.
Emitted(p) ==
    /\ At(p, "emit")
    /\ LET answer == IF call[p].late THEN registry ELSE call[p].value
           next == [call EXCEPT ![p].value = answer, ![p].pc = "return"]
       IN  IF call[p].stale THEN InBackground(next, Revalidate) ELSE call' = next
    /\ SameClient /\ SameStores /\ Remaining /\ UNCHANGED calls

Return(p) ==
    /\ call[p].pc \in {"return", "failed"}
    /\ call' = [call EXCEPT ![p] = Idle]
    /\ SameClient /\ SameStores /\ Remaining /\ UNCHANGED calls

-----------------------------------------------------------------------------
(* Other operations, and what happens around the client *)

Invalidate ==
    /\ "invalidate" \in scenario.ops /\ calls < scenario.calls /\ calls' = calls + 1
    /\ registry' = None /\ snapshot' = None /\ resources' = None
    /\ Clear
    /\ SameIndex /\ Remaining /\ UNCHANGED <<call, cacheVars>>

SetOffline ==
    /\ "offline" \in scenario.ops
    /\ offline' = ~offline
    /\ SameClient /\ SameStores
    /\ UNCHANGED <<call, calls, remote, scenario, forced>>

\* Another part of the program clears the cache (marketplace clearCache).
ClearCache(p) ==
    /\ "clearCache" \in scenario.ops
    /\ \/ /\ At(p, "idle") /\ calls < scenario.calls /\ calls' = calls + 1
          /\ ClearFiles
          /\ call' = [call EXCEPT ![p] = [Idle EXCEPT !.pc = "clearing"]]
       \/ /\ At(p, "clearing")
          /\ ClearEntries
          /\ call' = [call EXCEPT ![p] = Idle]
          /\ UNCHANGED calls
    /\ SameClient /\ SameIndex /\ Remaining /\ UNCHANGED flightVars

RemoteChanges ==
    /\ \/ remote.ver < MaxVersion /\ remote' = [remote EXCEPT !.ver = @ + 1]
       \/ "outage" \in scenario.ops /\ remote' = [remote EXCEPT !.up = ~@]
    /\ SameClient /\ SameStores
    /\ UNCHANGED <<call, calls, offline, scenario, forced>>

TimePasses ==
    /\ "time" \in scenario.ops
    /\ \E k \in CacheKey : Ages(k)
    /\ SameClient /\ SameIndex /\ Remaining /\ UNCHANGED <<call, calls, flightVars>>

\* The process dies; the next one loads the manifest of the cache.
Restart ==
    /\ "crash" \in scenario.ops
    /\ call' = [p \in Process |-> Idle]
    /\ registry' = None /\ snapshot' = None /\ resources' = None
    /\ memory' = NoIndex
    /\ Initialize
    /\ inflight' = [k \in FlightKey |-> NoFlight]
    /\ flight' = [f \in Flight |-> Grounded]
    /\ cleared' = FALSE
    /\ Remaining /\ UNCHANGED <<calls, disk, indexed>>

-----------------------------------------------------------------------------
Step(p) ==
    \/ Unlink(p) \/ AskIndex(p) \/ ReadIndex(p) \/ ParseIndex(p) \/ UseIndex(p)
    \/ CheckIndex(p) \/ AskCache(p) \/ UseCache(p) \/ Land(p) \/ LandManifest(p)
    \/ Revise(p) \/ SaveIndex(p) \/ SaveIndexFails(p) \/ RememberIndex(p)
    \/ PutFails(p) \/ PutInCache(p) \/ Emitted(p) \/ Return(p)

Next ==
    \/ \E p \in Caller : CallLoad(p) \/ CallLookup(p) \/ CallManifest(p) \/ ClearCache(p)
    \/ \E p \in Process : Step(p)
    \/ \E f \in Flight : Request(f) \/ Answer(f)
    \/ Invalidate \/ SetOffline \/ RemoteChanges \/ TimePasses \/ Restart

Spec == Init /\ [][Next]_vars

-----------------------------------------------------------------------------
\* A forced load answers with what the remote had when it was called, or when
\* the flight it shares was started, or later; neither the index nor the cache
\* can get in its way, whatever other loads save meanwhile.  Only when discovery
\* fails it may have to do with less (docs/registry.md:15).
ForcedIsFetched ==
    \A p \in Caller :
        (/\ At(p, "return") /\ call[p].op = "load" /\ call[p].force
         /\ ~call[p].fell /\ ~call[p].local)
        => call[p].value = None \/ call[p].value >= call[p].floor

\* A load that is called when an index has been saved does not fail, unless a
\* load was forced: outages and crashes at any step included
\* (docs/registry.md:12).
StaleIsServed ==
    \A p \in Caller : At(p, "failed") /\ call[p].sure => forced
=============================================================================
