------------------------------ MODULE Extensions ------------------------------
(***************************************************************************)
(* What a marketplace loads with its registry: plugins, the resolvers of   *)
(* dependencies, the index of resources, and the registries of types.      *)
(* They share no state; a behaviour exercises one of them, which part      *)
(* names.                                                                  *)
(***************************************************************************)
EXTENDS PluginManager, Versions

CONSTANTS
    Id, NoAlias, Registries, Requests,      \* of DependencyResolver
    MaxDepth, TTL, MaxSize, MaxTime,
    Listings, NoIndex,                      \* of ResourceIndex
    Type, NamesOf, TypeInstaller, TypesOf, PriorityOf, Nobody   \* of TypeRegistries

VARIABLES
    part,
    history, cache, lastResult, answer, now, changed,
    registry, index,
    registrations, manifestIndex, installers, typeMap

Resolver == INSTANCE DependencyResolver
Indexing == INSTANCE ResourceIndex
Types == INSTANCE TypeRegistries

-----------------------------------------------------------------------------
(* Assumptions on the constants of the parts. *)

\* Ids have an order, that of their names.
ASSUME ResolverAssumption ==
    /\ Id \subseteq Nat /\ IsFiniteSet(Id) /\ NoAlias \notin Id
    /\ \A h \in Registries : h # <<>> /\ h \in Seq(Seq(Resolver!Resource))
    /\ \A q \in Requests :
          /\ q.roots # <<>> /\ q.roots \in Seq(Id)
          /\ q.skip \in BOOLEAN /\ q.deny \in BOOLEAN
    /\ {MaxDepth, TTL, MaxTime} \subseteq Nat /\ MaxSize \in Nat \ {0}

\* The scan of manifests makes one version of each id, and what a version of a
\* resource says does not change.
ASSUME IndexAssumption ==
    \A k, l \in Listings : \A r \in k, s \in l :
        r.id = s.id /\ (k = l \/ r.version = s.version) => r = s

ASSUME TypesAssumption ==
    /\ NamesOf = [t \in Type |-> NamesOf[t]] /\ Nobody \notin Type \cup TypeInstaller
    /\ TypesOf \in [TypeInstaller -> SUBSET Type] /\ PriorityOf \in [TypeInstaller -> Int]

-----------------------------------------------------------------------------
resolverVars == <<history, cache, lastResult, answer, now, changed>>
indexVars == <<registry, index>>
typeVars == <<registrations, manifestIndex, installers, typeMap>>
extensionVars == <<part, vars, resolverVars, indexVars, typeVars>>

\* The merging of files is a part of its own (Merge).
Part == {"plugins", "resolution", "index", "types", "merge"}

ExtensionsInit ==
    /\ part \in Part
    /\ Init /\ Resolver!Init /\ Indexing!IndexInit /\ Types!RegistriesInit

ExtensionsNext ==
    /\ UNCHANGED part
    /\ \/ /\ part = "plugins" /\ Next
          /\ UNCHANGED <<resolverVars, indexVars, typeVars>>
       \/ /\ part = "resolution" /\ Resolver!Next
          /\ UNCHANGED <<vars, indexVars, typeVars>>
       \/ /\ part = "index" /\ Indexing!IndexNext
          /\ UNCHANGED <<vars, resolverVars, typeVars>>
       \/ /\ part = "types" /\ Types!RegistriesNext
          /\ UNCHANGED <<vars, resolverVars, indexVars>>

ExtensionsSpec == ExtensionsInit /\ [][ExtensionsNext]_extensionVars

-----------------------------------------------------------------------------
\* The results of both resolvers are what a root needs, in an order to install
\* it; the index is the one of the registry, and the lookups of types and of
\* installers are right whatever came and went.
ResolutionIsSound ==
    /\ Resolver!ResolutionIsSound
    /\ Resolver!AdvancedIsSound
    /\ Indexing!IndexIsOfRegistry
    /\ Types!LookupsAreCurrent

\* The dependents of a resource are all that reach it.
DependentsAreComplete == Resolver!DependentsAreComplete

\* An advanced result outlives a change of the registry by TTL at most.
StaleAtMostTTL == Resolver!StaleAtMostTTL
=============================================================================
