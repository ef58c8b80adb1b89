------------------------------- MODULE Cache -------------------------------
(***************************************************************************)
(* Cache (src/src/cache/index.ts), the cache of registries and manifests:  *)
(* one file per key, which is rewritten in place, and a manifest of the    *)
(* entries in memory and in a file, which is rewritten in place as well.   *)
(* A step is the code from one await to the next; the module that uses the *)
(* cache says which call takes it.                                         *)
(***************************************************************************)
EXTENDS Integers

CONSTANT CacheKey

VARIABLES
    entry,      \* _manifest: the age of a key's entry
    file,       \* the file of a key: a version, Missing or Torn
    saved       \* cache-manifest.json: the entries, or TornManifest

cacheVars == <<entry, file, saved>>

Missing == 0
Torn == -1

\* Ages by what is done with an entry: fresh and stale ones are used, expired
\* ones are not (freshness-policy.ts), a dead one is older than its ttl.
Age == {"none", "fresh", "stale", "expired", "dead"}
NoEntries == [k \in CacheKey |-> "none"]
TornManifest == [k \in CacheKey |-> "torn"]

CacheTypeOK ==
    /\ entry \in [CacheKey -> Age]
    /\ file \in [CacheKey -> Nat \cup {Torn}]
    /\ saved \in [CacheKey -> Age] \cup {TornManifest}

Older(age) == CASE age = "fresh" -> "stale"
                [] age = "stale" -> "expired"
                [] age = "expired" -> "dead"
                [] OTHER -> age

\* Time: cachedAt and expiresAt are in the manifest, so both copies age.
Ages(k) ==
    /\ Older(entry[k]) # entry[k]
    /\ entry' = [entry EXCEPT ![k] = Older(@)]
    /\ saved' = [saved EXCEPT ![k] = Older(@)]
    /\ UNCHANGED file

-----------------------------------------------------------------------------
\* get finds an entry whose ttl has not passed, and a file that it can parse.
Listed(k) == entry[k] \notin {"none", "dead"}
Readable(k) == file[k] \notin {Missing, Torn}

\* set writes the file, ...
WriteBegins(k) == file' = [file EXCEPT ![k] = Torn] /\ UNCHANGED <<entry, saved>>

\* ... then looks for the entry of the key and makes one ...  (What is written
\* to a file that was removed meanwhile is lost.)
WriteEnds(k, v) ==
    /\ file' = [file EXCEPT ![k] = IF @ = Missing THEN Missing ELSE v]
    /\ entry' = IF entry[k] = "none" THEN [entry EXCEPT ![k] = "fresh"] ELSE entry
    /\ UNCHANGED saved

\* ... or removes the file of the entry it found, which has the same path,
\* and replaces the entry.
RemoveOld(k) ==
    /\ file' = [file EXCEPT ![k] = Missing]
    /\ entry' = [entry EXCEPT ![k] = "fresh"]
    /\ UNCHANGED saved

\* _saveManifest
SaveBegins == saved' = TornManifest /\ UNCHANGED <<entry, file>>
SaveEnds(entries) == saved' = entries /\ UNCHANGED <<entry, file>>

\* clear: the directory first, then the manifest in memory.
ClearFiles ==
    /\ file' = [k \in CacheKey |-> Missing]
    /\ saved' = NoEntries
    /\ UNCHANGED entry
ClearEntries == entry' = NoEntries /\ UNCHANGED <<file, saved>>

\* initialize: entries of the manifest file, if it parses, less the dead ones
\* and their files.
Initialize ==
    LET found == IF saved = TornManifest THEN NoEntries ELSE saved
        Dead(k) == found[k] = "dead"
    IN  /\ entry' = [k \in CacheKey |-> IF Dead(k) THEN "none" ELSE found[k]]
        /\ file' = [k \in CacheKey |-> IF Dead(k) THEN Missing ELSE file[k]]
        /\ saved' = IF \E k \in CacheKey : Dead(k) THEN entry' ELSE saved
=============================================================================
