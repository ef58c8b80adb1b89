--------------------------- MODULE StorageManager ---------------------------
(***************************************************************************)
(* The cache of StorageManager (src/src/storage/StorageManager.ts): a      *)
(* manifest of entries per category, read and rewritten by every call, and *)
(* a file per entry.  A step is the code from one file operation to the    *)
(* next; the manifest is rewritten in place.  Calls within a millisecond   *)
(* count as made one after the other.                                      *)
(***************************************************************************)
EXTENDS Naturals, Sequences, FiniteSets

CONSTANTS
    Key, Size,        \* Size[k]: what an entry of k takes
    MaxSize,          \* maxCacheSize
    MaxEntries,       \* maxCacheEntries
    User,             \* callers
    MaxOps            \* bound on the calls

Torn == << "torn" >>

VARIABLES
    manifest,     \* the file's entries, least recently used first, or Torn
    onDisk,       \* keys whose file exists
    caller,       \* per caller: where it is, its key, the entries it will
                  \* write and the keys whose files it has to delete
    ops,          \* calls so far
    raced         \* history: two calls overlapped, or one was cut off

storageVars == <<manifest, onDisk, caller, ops, raced>>

Quiet == [at |-> "idle", key |-> "none", entries |-> << >>, gone |-> {}]

StorageInit ==
    /\ manifest = << >>
    /\ onDisk = {}
    /\ caller = [u \in User |-> Quiet]
    /\ ops = 0
    /\ raced = FALSE

-----------------------------------------------------------------------------
Has(entries, k) == \E i \in DOMAIN entries : entries[i] = k

\* A key is there once, so its first place is all its places.
Drop(entries, k) ==
    LET first == CHOOSE i \in DOMAIN entries : entries[i] = k
    IN  IF Has(entries, k)
        THEN [n \in 1 .. Len(entries) - 1 |-> entries[IF n < first THEN n ELSE n + 1]]
        ELSE entries

Keys(entries) == {entries[i] : i \in DOMAIN entries}

Total(entries) ==
    LET sum[i \in 0 .. Len(entries)] ==
            IF i = 0 THEN 0 ELSE sum[i - 1] + Size[entries[i]]
    IN  sum[Len(entries)]

\* A manifest that does not parse is an empty one.
Readable == IF manifest = Torn THEN << >> ELSE manifest

\* The first entries that make room; the new entry itself is the last.
ByCount(entries) ==
    LET n == Len(entries)
    IN  IF n > MaxEntries THEN SubSeq(entries, n - MaxEntries + 1, n) ELSE entries

\* Mutant of BySize: one entry makes room.
BySizeOnce(entries) ==
    IF Total(entries) > MaxSize THEN Tail(entries) ELSE entries

BySize(entries) ==
    LET fits == {i \in 0 .. Len(entries) :
                    Total(SubSeq(entries, i + 1, Len(entries))) <= MaxSize}
        least == CHOOSE i \in fits : \A j \in fits : i <= j
    IN  SubSeq(entries, least + 1, Len(entries))

Overlap(u) == raced' = (raced \/ \E o \in User \ {u} : caller[o] # Quiet)

Starts(u, at, k, entries) ==
    /\ caller[u] = Quiet
    /\ ops < MaxOps
    /\ ops' = ops + 1
    /\ caller' = [caller EXCEPT ![u] =
          [at |-> at, key |-> k, entries |-> entries,
           gone |-> (Keys(Readable) \cup {k}) \ Keys(entries)]]
    /\ Overlap(u)

Moves(u, at) == caller' = [caller EXCEPT ![u].at = at] /\ UNCHANGED <<ops, raced>>

-----------------------------------------------------------------------------
\* cacheSet reads the manifest, and deletes what has to make room ...
CacheSet(u, k) ==
    LET entries == BySize(ByCount(Append(Drop(Readable, k), k)))
    IN  /\ Starts(u, "evict", k, entries)
        /\ UNCHANGED <<manifest, onDisk>>

Evict(u) ==
    /\ caller[u].at = "evict"
    /\ onDisk' = onDisk \ caller[u].gone
    /\ Moves(u, "save set")
    /\ UNCHANGED manifest

\* cacheGet has read the entry's file: it is the latest used.
CacheTouch(u, k) ==
    /\ Has(Readable, k) /\ k \in onDisk
    /\ Starts(u, "save", k, Append(Drop(Readable, k), k))
    /\ UNCHANGED <<manifest, onDisk>>

CacheEvict(u, k) ==
    /\ Has(Readable, k)
    /\ Starts(u, "save", k, Drop(Readable, k))
    /\ onDisk' = onDisk \ {k}
    /\ UNCHANGED manifest

\* writeFile of the manifest: truncate, then write.
Truncate(u) ==
    /\ caller[u].at \in {"save", "save set"}
    /\ manifest' = Torn
    /\ Moves(u, IF caller[u].at = "save" THEN "write" ELSE "write set")
    /\ UNCHANGED onDisk

WriteManifest(u) ==
    /\ caller[u].at \in {"write", "write set"}
    /\ manifest' = caller[u].entries
    /\ IF caller[u].at = "write"
       THEN caller' = [caller EXCEPT ![u] = Quiet] /\ UNCHANGED <<ops, raced>>
       ELSE Moves(u, "store")
    /\ UNCHANGED onDisk

\* ... and writes its own file last, also when it is not in the manifest; a
\* clear may have removed the directory.
WriteEntry(u) ==
    /\ caller[u].at = "store"
    /\ \/ onDisk' = onDisk \cup {caller[u].key}
       \/ raced /\ UNCHANGED onDisk
    /\ caller' = [caller EXCEPT ![u] = Quiet]
    /\ UNCHANGED <<manifest, ops, raced>>

CacheClear ==
    /\ manifest # << >> \/ onDisk # {}
    /\ ops < MaxOps
    /\ ops' = ops + 1
    /\ manifest' = << >>
    /\ onDisk' = {}
    /\ raced' = (raced \/ \E u \in User : caller[u] # Quiet)
    /\ UNCHANGED caller

StorageCrash ==
    /\ \E u \in User : caller[u] # Quiet
    /\ ~raced
    /\ raced' = TRUE
    /\ caller' = [u \in User |-> Quiet]
    /\ UNCHANGED <<manifest, onDisk, ops>>

StorageNext ==
    \/ CacheClear \/ StorageCrash
    \/ \E u \in User :
        \/ \E k \in Key : CacheSet(u, k) \/ CacheTouch(u, k) \/ CacheEvict(u, k)
        \/ Evict(u) \/ Truncate(u) \/ WriteManifest(u) \/ WriteEntry(u)

-----------------------------------------------------------------------------
(* However calls overlap or are cut off, the manifest that is on disk is    *)
(* within both limits and names no key twice; and while calls followed one  *)
(* another and none is under way, every key it names has its file, and no   *)
(* file is without an entry, except that of an entry that by itself is      *)
(* larger than the cache.                                                   *)
CacheWithinLimits ==
    /\ Len(Readable) <= MaxEntries
    /\ Total(Readable) <= MaxSize
    /\ Cardinality(Keys(Readable)) = Len(Readable)
    /\ ~raced /\ (\A u \in User : caller[u] = Quiet) =>
           /\ Keys(Readable) \subseteq onDisk
           /\ \A k \in onDisk \ Keys(Readable) : Size[k] > MaxSize
=============================================================================
