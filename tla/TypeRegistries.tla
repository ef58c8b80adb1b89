---------------------------- MODULE TypeRegistries ----------------------------
(***************************************************************************)
(* The registries that plugins extend: resource types with the names of    *)
(* the manifests that they own (src/src/resource-types/index.ts), and      *)
(* installers with the resource types they install and a priority          *)
(* (src/src/installer-registry/index.ts).  Each keeps an index beside its  *)
(* entries; types and installers come and go in any order, and several may *)
(* claim the same.  Registering what is registered throws.                 *)
(***************************************************************************)
EXTENDS Integers, SequencesExt, Functions, FiniteSetsExt

CONSTANTS
    Type, NamesOf,             \* resource types, and the names of their manifests
    TypeInstaller, TypesOf,    \* installers, and the resource types they support
    PriorityOf,
    Nobody

VARIABLES
    registrations,    \* the resource types, in the order of their registration
    manifestIndex,    \* the type that a name of a manifest leads to first
    installers,       \* _entries, in the order of their registration
    typeMap           \* the installers of a resource type

registryVars == <<registrations, manifestIndex, installers, typeMap>>

Name == UNION {NamesOf[t] : t \in Type}

RegistriesInit ==
    /\ registrations = <<>>
    /\ manifestIndex = [n \in Name |-> Nobody]
    /\ installers = <<>>
    /\ typeMap = [t \in Type |-> <<>>]

\* Where x is in a list, and the list without it.
Positions(list, x) == {k \in DOMAIN list : list[k] = x}
Without(list, x) == RemoveAt(list, Min(Positions(list, x)))

-----------------------------------------------------------------------------
(* ResourceTypeRegistry *)

RegisterType(t) ==
    /\ t \notin Range(registrations)
    /\ registrations' = Append(registrations, t)
    /\ manifestIndex' = [n \in Name |->
           IF n \in NamesOf[t] /\ manifestIndex[n] = Nobody THEN t ELSE manifestIndex[n]]
    /\ UNCHANGED <<installers, typeMap>>

\* Mutant of UnregisterType: the names stay with the type that is gone.
UnregisterTypeOnly(t) ==
    /\ t \in Range(registrations)
    /\ registrations' = Without(registrations, t)
    /\ UNCHANGED <<manifestIndex, installers, typeMap>>

\* A name that another type has too leads to nobody then.
UnregisterType(t) ==
    /\ t \in Range(registrations)
    /\ registrations' = Without(registrations, t)
    /\ manifestIndex' = [n \in Name |->
           IF manifestIndex[n] = t THEN Nobody ELSE manifestIndex[n]]
    /\ UNCHANGED <<installers, typeMap>>

ByManifestName(n) ==
    LET owning == {k \in DOMAIN registrations : n \in NamesOf[registrations[k]]}
    IN  IF manifestIndex[n] # Nobody
        THEN IF manifestIndex[n] \in Range(registrations) THEN manifestIndex[n] ELSE Nobody
        ELSE IF owning = {} THEN Nobody ELSE registrations[Min(owning)]

-----------------------------------------------------------------------------
(* InstallerRegistry *)

RegisterInstaller(i) ==
    /\ i \notin Range(installers)
    /\ installers' = Append(installers, i)
    /\ typeMap' = [t \in Type |->
           IF t \in TypesOf[i] /\ i \notin Range(typeMap[t])
           THEN Append(typeMap[t], i) ELSE typeMap[t]]
    /\ UNCHANGED <<registrations, manifestIndex>>

UnregisterInstaller(i) ==
    /\ i \in Range(installers)
    /\ installers' = Without(installers, i)
    /\ typeMap' = [t \in Type |->
           IF t \in TypesOf[i] /\ i \in Range(typeMap[t])
           THEN Without(typeMap[t], i) ELSE typeMap[t]]
    /\ UNCHANGED <<registrations, manifestIndex>>

\* The loop keeps the first of those with the highest priority.
ByResourceType(t) ==
    LET list == typeMap[t]
        there == {k \in DOMAIN list : list[k] \in Range(installers)}
        beats(k, l) == \/ PriorityOf[list[k]] > PriorityOf[list[l]]
                       \/ PriorityOf[list[k]] = PriorityOf[list[l]] /\ k <= l
    IN  IF there = {} THEN Nobody
        ELSE list[CHOOSE k \in there : \A l \in there : beats(k, l)]

RegistriesNext ==
    \/ \E t \in Type : RegisterType(t) \/ UnregisterType(t)
    \/ \E i \in TypeInstaller : RegisterInstaller(i) \/ UnregisterInstaller(i)

-----------------------------------------------------------------------------
\* Whatever came and went: a name leads to a registered type that has it as
\* long as there is one, and a resource type to the installer of the highest
\* priority that supports it, of several to the one registered first
\* (getByManifestName, getByResourceType).
LookupsAreCurrent ==
    /\ \A n \in Name :
          LET owners == {t \in Range(registrations) : n \in NamesOf[t]}
          IN  IF owners = {} THEN ByManifestName(n) = Nobody ELSE ByManifestName(n) \in owners
    /\ \A t \in Type :
          LET able == {k \in DOMAIN installers : t \in TypesOf[installers[k]]}
              best == {k \in able : \A l \in able :
                          PriorityOf[installers[l]] <= PriorityOf[installers[k]]}
          IN  ByResourceType(t) = IF able = {} THEN Nobody ELSE installers[Min(best)]
=============================================================================
