---------------------------- MODULE ResourceIndex ----------------------------
(***************************************************************************)
(* The index by which a registry client looks resources up                 *)
(* (src/src/registry/resource-index.ts): maps by id, name, alias, category,*)
(* tag, author and framework, and the versions of each id.  A refresh that *)
(* changes less than half of the registry edits the index; another builds  *)
(* it anew (src/src/registry/index.ts).                                    *)
(*                                                                         *)
(* A listing has one version of each id, as the scan of manifests makes    *)
(* it, and a version has one content; the README says what becomes of an   *)
(* index without either.                                                   *)
(***************************************************************************)
EXTENDS Naturals, FiniteSets

CONSTANTS
    Listings,    \* registries: sets of [id, version, name, displayName, category, tags, ...]
    NoIndex

VARIABLES
    registry,    \* the listing that the client has read last
    index

indexVars == <<registry, index>>

IndexInit ==
    /\ registry = {}
    /\ index = NoIndex

-----------------------------------------------------------------------------
\* The resources are put in by id and version, and a later one replaces an
\* earlier one in a map of single resources.
Before(r, s) == r.id < s.id \/ (r.id = s.id /\ r.version < s.version)
LastOf(rs) == CHOOSE r \in rs : \A s \in rs \ {r} : Before(s, r)

\* Maps from the keys that the resources have: keysOf[r] is the set of those of r.
Keys(keysOf) == UNION {keysOf[r] : r \in DOMAIN keysOf}
Groups(keysOf) == [k \in Keys(keysOf) |-> {r \in DOMAIN keysOf : k \in keysOf[r]}]
Singles(keysOf) == [k \in Keys(keysOf) |-> LastOf(Groups(keysOf)[k])]

Build(rs) ==
    LET id == [r \in rs |-> {r.id}]
        aliases == Singles([r \in rs |-> {r.displayName} \ {r.name}])
    IN  [byId |-> Singles(id), versions |-> Groups(id),
         byName |-> Singles([r \in rs |-> {r.name}]),
         byAlias |-> [a \in DOMAIN aliases |-> aliases[a].id],
         byCategory |-> Groups([r \in rs |-> {r.category}]),
         byTag |-> Groups([r \in rs |-> r.tags]),
         byAuthor |-> Groups([r \in rs |-> {r.author}]),
         byFramework |-> Groups([r \in rs |-> r.frameworks])]

\* Mutant of UpdateIncremental: what is gone stays in the index.
UpdateKeepsRemoved(existing, added, removed, updated) ==
    LET new == added \cup updated
        current == {existing.byId[i] : i \in DOMAIN existing.byId}
    IN  Build({r \in current : \A n \in new : n.id # r.id} \cup new)

UpdateIncremental(existing, added, removed, updated) ==
    LET new == added \cup updated
        current == {existing.byId[i] : i \in DOMAIN existing.byId \ removed}
    IN  Build({r \in current : \A n \in new : n.id # r.id} \cup new)

-----------------------------------------------------------------------------
BuildIndex(listing) ==
    /\ index = NoIndex
    /\ registry' = listing
    /\ index' = Build(listing)

Refresh(listing) ==
    LET known == DOMAIN index.byId
        added == {r \in listing : r.id \notin known}
        removed == known \ {r.id : r \in listing}
        updated == {r \in listing : r.id \in known /\ index.byId[r.id].version # r.version}
        changed == Cardinality(added) + Cardinality(removed) + Cardinality(updated)
    IN  /\ index # NoIndex
        /\ registry' = listing
        /\ index' = IF 2 * changed < Cardinality(listing)
                    THEN UpdateIncremental(index, added, removed, updated)
                    ELSE Build(listing)

\* invalidate, or the begin of a forced load.
DropIndex ==
    /\ index # NoIndex
    /\ index' = NoIndex
    /\ UNCHANGED registry

IndexNext ==
    \/ \E listing \in Listings : BuildIndex(listing) \/ Refresh(listing)
    \/ DropIndex

-----------------------------------------------------------------------------
\* However many refreshes edited it, the index is the one that would be
\* built from the registry.
IndexIsOfRegistry == index = NoIndex \/ index = Build(registry)
=============================================================================
