---------------------------- MODULE CacheManager ----------------------------
(***************************************************************************)
(* CacheManager (src/src/cache/CacheManager.ts): entry files, a manifest   *)
(* of them in memory and on disk, and content-addressable files with       *)
(* reference counts.  getOrSet runs its factory under withStampedeGuard    *)
(* (src/src/cache/smart.ts), whose lock is a file.                         *)
(*                                                                         *)
(* The operations are asynchronous and nothing orders them: a step is the  *)
(* code from one await to the next, and the calls of one process           *)
(* interleave.  A crash ends the process; the files stay, but what was     *)
(* written last may be lost.  One layer is modelled, since the layers      *)
(* share nothing but the manifest, and every entry has size 1.             *)
(*                                                                         *)
(* A value is the number of the call that set it, its version.             *)
(***************************************************************************)
EXTENDS Naturals, Sequences, FiniteSets, SequencesExt

CONSTANTS
    Caller,       \* concurrent callers of the cache
    Key,          \* cache keys
    Blob,         \* contents of the content-addressable store
    MaxEntries,   \* of the layer; stands for the limits of its size as well
    Scenarios,    \* what happens in a behaviour: the operations that are called,
                  \* and time and crashes; and the bounds on calls and crashes
    MaxWrites,    \* bound: saves of the timer that are under way
    NoKey

Op == {"get", "getRaw", "set", "setRaw", "invalidate", "invalidateLayer",
       "invalidateResource", "clearExpired", "clearAll", "cleanup", "flush",
       "getOrSet", "store", "release", "time"}

ASSUME CacheAssumption ==
    /\ IsFiniteSet(Caller) /\ IsFiniteSet(Key) /\ IsFiniteSet(Blob)
    /\ MaxEntries \in Nat \ {0}
    /\ Scenarios \subseteq [ops : SUBSET Op, calls : Nat, crashes : Nat]
    /\ NoKey \notin Key

Absent == 0
Garbage == 1    \* what a crash leaves in a file that was not flushed

\* A refCount is 0 for a file that rebuilding the index found; a content that
\* the index lacks has none.  Counts are shifted by one.
NoRef == 0
Found == 1

VARIABLES
    call,       \* what a caller is doing
    entries,    \* the entries of _manifest
    file,       \* the entry file of a key: a version, Absent or Garbage
    life,       \* what the clock makes of a version: fresh, stale or expired
    verified,   \* _verified: keys whose checksum was compared lately
    armed,      \* _manifestSaveTimer is set
    writes,     \* manifests on their way to the disk after the timer fired
    saved,      \* cache-manifest.json
    refs,       \* _casIndex: the refCount of a content
    cas,        \* _manifest.cas: the index as last copied
    bin,        \* contents that have a file
    lock,       \* the stampede lock: absent, empty, held or old
    state,      \* of the process: up, down or starting
    clock,      \* numbers versions and accesses
    scenario,   \* what happens in this behaviour
    calls, crashes,
    \* History
    returned,   \* versions of a key whose set has returned
    gone,       \* versions that a later set or invalidation has replaced
    holders,    \* contents that callers have stored and not released
    seized      \* a stampede lock was taken over

cacheVars == <<entries, file, life, verified, armed, writes, saved>>
casVars == <<refs, cas, bin, holders>>
guardVars == <<lock, seized>>
bounds == <<calls, crashes, state, scenario>>
history == <<returned, gone>>
vars == <<call, cacheVars, casVars, guardVars, bounds, history, clock>>

Entry == [key : Key, sum : Nat, accessed : Nat]
NoEntry == [key |-> NoKey, sum |-> 0, accessed |-> 0]

\* A call, with the local variables of all operations.
Idle == [pc |-> "idle", op |-> "none", stage |-> "none", key |-> NoKey,
         ver |-> 0, data |-> 0, entry |-> NoEntry, idx |-> 0, todo |-> <<>>,
         keys |-> {}, files |-> {}, snap |-> <<>>, leader |-> FALSE, blob |-> {},
         prior |-> {}, shun |-> {}]

Age == {"fresh", "stale", "expired"}

TypeOK ==
    /\ \A c \in Caller : DOMAIN call[c] = DOMAIN Idle
    /\ entries \in Seq(Entry)
    /\ file \in [Key -> Nat]
    /\ \A v \in DOMAIN life : life[v] \in Age
    /\ verified \subseteq Key
    /\ armed \in BOOLEAN
    /\ refs \in [Blob -> Nat] /\ cas \in [Blob -> Nat]
    /\ bin \subseteq Blob
    /\ lock \in {"absent", "empty", "held", "old"}
    /\ state \in {"up", "down", "starting"}

\* A process that finds what an earlier one cached: nothing, or some keys.
Init ==
    \E before \in {<<>>, SetToSeq(Key)} :
        LET old == [i \in DOMAIN before |->
                      [key |-> before[i], sum |-> i + 1, accessed |-> i + 1]]
        IN
        /\ call = [c \in Caller |-> Idle]
        /\ entries = old
        /\ file = [k \in Key |-> IF before = <<>> THEN Absent
                                 ELSE SelectInSeq(old, LAMBDA e : e.key = k) + 1]
        /\ life = [v \in 2 .. Len(old) + 1 |-> "fresh"]
        /\ verified = {} /\ armed = FALSE /\ writes = {}
        /\ saved = [entries |-> old, refs |-> [b \in Blob |-> NoRef]]
        /\ refs = [b \in Blob |-> NoRef] /\ cas = refs
        /\ bin = {} /\ holders = [b \in Blob |-> 0]
        /\ lock = "absent" /\ seized = FALSE
        /\ state = "up" /\ calls = 0 /\ crashes = 0 /\ scenario \in Scenarios
        /\ clock = Len(old) + 1
        /\ returned = [k \in Key |-> {e.sum : e \in {x \in ToSet(old) : x.key = k}}]
        /\ gone = {}

-----------------------------------------------------------------------------
\* The entry of a key, if the manifest has one.
Find(k) == SelectInSeq(entries, LAMBDA e : e.key = k)
Has(k) == Find(k) # 0

\* The manifest with entry e in place of the one of its key.
Replace(e) == IF Has(e.key) THEN [entries EXCEPT ![Find(e.key)] = e]
              ELSE Append(entries, e)

\* The manifest without one object: a touched copy is another object.
Without(e) == SelectSeq(entries, LAMBDA x : x # e)

\* The entries to evict, the least recently accessed first.
Excess ==
    LET n == Len(entries) - MaxEntries
        byAccess == SortSeq(entries, LAMBDA d, e : d.accessed < e.accessed)
    IN  IF n > 0 THEN SubSeq(byAccess, 1, n) ELSE <<>>

Manifest == [entries |-> entries', refs |-> cas]

Go(c, pc) == call' = [call EXCEPT ![c].pc = pc]

Begin(c, op) ==
    /\ op \in scenario.ops
    /\ state = "up"
    /\ call[c].pc = "idle"
    /\ calls < scenario.calls
    /\ calls' = calls + 1
    /\ UNCHANGED <<state, crashes, scenario>>

\* A set or an invalidation returns: what it found returned is replaced.
Settle(c) ==
    /\ gone' = gone \cup call[c].prior
    /\ returned' = IF call[c].ver = 0 THEN returned
                   ELSE [returned EXCEPT ![call[c].key] = @ \cup {call[c].ver}]
    /\ state' = IF call[c].op = "initialize" THEN "up" ELSE state
    /\ UNCHANGED <<calls, crashes, scenario>>
    /\ call' = [call EXCEPT ![c] = Idle]

-----------------------------------------------------------------------------
\* get: the entry and its age are looked at now, the file later.
Lookup(c, k, stage, op) ==
    LET usable == Has(k) /\ life[entries[Find(k)].sum] # "expired" IN
    call' = [call EXCEPT ![c] =
        [@ EXCEPT !.op = op, !.key = k, !.stage = stage, !.shun = gone,
                  !.pc = IF usable THEN "read" ELSE "miss",
                  !.entry = IF usable THEN entries[Find(k)] ELSE NoEntry]]

Get(c, k) ==
    /\ Begin(c, "get")
    /\ Lookup(c, k, "get", "get")
    /\ UNCHANGED <<cacheVars, casVars, guardVars, history, clock>>

\* getRaw trusts what it reads.
GetRaw(c, k) ==
    /\ Begin(c, "getRaw")
    /\ Lookup(c, k, "raw", "getRaw")
    /\ UNCHANGED <<cacheVars, casVars, guardVars, history, clock>>

\* A file that is not what its entry says is dropped; the entry stays.
Read(c) ==
    LET k == call[c].key
        d == file[k]
        trusted == call[c].stage = "raw"
                   \/ (d # Garbage /\ (k \in verified \/ d = call[c].entry.sum))
    IN
    /\ call[c].pc = "read"
    /\ call' = [call EXCEPT ![c].data = d,
                            ![c].pc = IF d = Absent THEN "miss"
                                      ELSE IF trusted THEN "touch" ELSE "drop"]
    /\ UNCHANGED <<cacheVars, casVars, guardVars, bounds, history, clock>>

Drop(c) ==
    /\ call[c].pc = "drop"
    /\ file' = [file EXCEPT ![call[c].key] = Absent]
    /\ Go(c, "miss")
    /\ UNCHANGED <<entries, life, verified, armed, writes, saved,
                   casVars, guardVars, bounds, history, clock>>

\* The hit: the entry is put back into the manifest, touched, even if it was
\* removed meanwhile, and the manifest will be saved.
Touch(c) ==
    LET e == [call[c].entry EXCEPT !.accessed = clock + 1] IN
    /\ call[c].pc = "touch"
    /\ clock' = clock + 1
    /\ entries' = Replace(e)
    /\ verified' = IF call[c].stage = "raw" THEN verified
                   ELSE verified \cup {call[c].key}
    /\ armed' = TRUE
    /\ Go(c, "hit")
    /\ UNCHANGED <<file, life, writes, saved,
                   casVars, guardVars, bounds, history>>

\* What a call does after a get, by the place it called it from.
Hit(c) ==
    /\ call[c].pc = "hit"
    /\ IF call[c].stage = "recheck"
       THEN Go(c, IF call[c].leader THEN "unlock" ELSE "after")
       ELSE call' = [call EXCEPT ![c] = Idle]
    /\ UNCHANGED <<cacheVars, casVars, guardVars, bounds, history, clock>>

Miss(c) ==
    /\ call[c].pc = "miss"
    /\ IF call[c].stage \in {"get", "raw"}
       THEN call' = [call EXCEPT ![c] = Idle]
       ELSE Go(c, CASE call[c].stage = "fast" -> "lock"
                    [] call[c].stage = "recheck" -> "factory"
                    [] call[c].stage = "after" -> "put")
    /\ UNCHANGED <<cacheVars, casVars, guardVars, bounds, history, clock>>

-----------------------------------------------------------------------------
\* set: the old file goes, the new one is written aside and renamed, then the
\* manifest changes.
StartSet(c, k, op) ==
    /\ clock' = clock + 1
    /\ life' = [v \in DOMAIN life \cup {clock + 1} |->
                  IF v = clock + 1 THEN "fresh" ELSE life[v]]
    /\ call' = [call EXCEPT ![c] =
          [@ EXCEPT !.op = op, !.key = k, !.ver = clock + 1,
                    !.prior = IF op = "setRaw" THEN {} ELSE returned[k],
                    !.pc = IF Has(k) THEN "unlink" ELSE "write"]]

Set(c, k) ==
    /\ Begin(c, "set")
    /\ StartSet(c, k, "set")
    /\ UNCHANGED <<entries, file, verified, armed, writes, saved,
                   casVars, guardVars, history>>

\* setRaw writes a .bin or .gz file that no reader looks for: it replaces
\* nothing that a reader can find.
SetRaw(c, k) ==
    /\ Begin(c, "setRaw")
    /\ StartSet(c, k, "setRaw")
    /\ UNCHANGED <<entries, file, verified, armed, writes, saved,
                   casVars, guardVars, history>>

Unlink(c) ==
    /\ call[c].pc = "unlink"
    /\ file' = [file EXCEPT ![call[c].key] = Absent]
    /\ Go(c, "write")
    /\ UNCHANGED <<entries, life, verified, armed, writes, saved,
                   casVars, guardVars, bounds, history, clock>>

WriteFile(c) ==
    /\ call[c].pc = "write"
    /\ file' = IF call[c].op = "setRaw" THEN file
               ELSE [file EXCEPT ![call[c].key] = call[c].ver]
    /\ Go(c, "index")
    /\ UNCHANGED <<entries, life, verified, armed, writes, saved,
                   casVars, guardVars, bounds, history, clock>>

Index(c) ==
    /\ call[c].pc = "index"
    /\ clock' = clock + 1
    /\ entries' = Replace([key |-> call[c].key, sum |-> call[c].ver,
                           accessed |-> clock + 1])
    /\ call' = [call EXCEPT ![c].pc = "save", ![c].snap = Manifest]
    /\ UNCHANGED <<file, life, verified, armed, writes, saved,
                   casVars, guardVars, bounds, history>>

\* The manifest was serialized when the save was called: a save that started
\* earlier may end later.
Save(c) ==
    /\ call[c].pc = "save"
    /\ saved' = call[c].snap
    /\ call' = [call EXCEPT ![c].pc = IF Excess = <<>> THEN "return" ELSE "evict",
                            ![c].todo = Excess]
    /\ UNCHANGED <<entries, file, life, verified, armed, writes,
                   casVars, guardVars, bounds, history, clock>>

\* _enforceLimits, _evictLru: an entry that was touched while its file was
\* removed stays in the manifest.
EvictFile(c) ==
    /\ call[c].pc = "evict"
    /\ file' = [file EXCEPT ![Head(call[c].todo).key] = Absent]
    /\ Go(c, "splice")
    /\ UNCHANGED <<entries, life, verified, armed, writes, saved,
                   casVars, guardVars, bounds, history, clock>>

EvictEntry(c) ==
    LET rest == Tail(call[c].todo) IN
    /\ call[c].pc = "splice"
    /\ entries' = Without(Head(call[c].todo))
    /\ call' = [call EXCEPT ![c].todo = rest,
                            ![c].snap = Manifest,
                            ![c].pc = IF rest = <<>> THEN "saveLast" ELSE "evict"]
    /\ UNCHANGED <<file, life, verified, armed, writes, saved,
                   casVars, guardVars, bounds, history, clock>>

AfterPurge(c) == IF call[c].op = "cleanup" THEN "known" ELSE "return"

SaveLast(c) ==
    /\ call[c].pc = "saveLast"
    /\ saved' = call[c].snap
    /\ Go(c, AfterPurge(c))
    /\ UNCHANGED <<entries, file, life, verified, armed, writes,
                   casVars, guardVars, bounds, history, clock>>

Return(c) ==
    /\ call[c].pc = "return"
    /\ Settle(c)
    /\ UNCHANGED <<cacheVars, casVars, guardVars, clock>>

-----------------------------------------------------------------------------
\* invalidate: the place in the manifest is looked up before the file is
\* removed and used after it.
Invalidate(c, k) ==
    /\ Begin(c, "invalidate")
    /\ Has(k)
    /\ call' = [call EXCEPT ![c] =
          [@ EXCEPT !.op = "invalidate", !.key = k, !.idx = Find(k),
                    !.prior = returned[k], !.pc = "inv"]]
    /\ UNCHANGED <<cacheVars, casVars, guardVars, history, clock>>

\* Mutant of InvalidateFile: only the entry goes.
InvalidateFileKept(c) ==
    /\ call[c].pc = "inv"
    /\ Go(c, "slice")
    /\ UNCHANGED <<cacheVars, casVars, guardVars, bounds, history, clock>>

InvalidateFile(c) ==
    /\ call[c].pc = "inv"
    /\ file' = [file EXCEPT ![call[c].key] = Absent]
    /\ Go(c, "slice")
    /\ UNCHANGED <<entries, life, verified, armed, writes, saved,
                   casVars, guardVars, bounds, history, clock>>

InvalidateEntry(c) ==
    LET i == call[c].idx IN
    /\ call[c].pc = "slice"
    /\ entries' = IF i <= Len(entries) THEN RemoveAt(entries, i) ELSE entries
    /\ call' = [call EXCEPT ![c].pc = "saveLast", ![c].snap = Manifest]
    /\ UNCHANGED <<file, life, verified, armed, writes, saved,
                   casVars, guardVars, bounds, history, clock>>

\* invalidateLayer, invalidateResource, clearExpired: the files of the entries
\* that match go one by one, in an order that is left open, then the entries of
\* those keys, or all of them.
KeysOf(seq) == {k \in Key : \E e \in ToSet(seq) : e.key = k}

StartPurge(c, op, matched, keys, prior) ==
    call' = [call EXCEPT ![c] =
        [@ EXCEPT !.op = op, !.files = KeysOf(matched), !.keys = keys,
                  !.prior = prior, !.pc = "purge"]]

Old == SelectSeq(entries, LAMBDA e : life[e.sum] # "fresh")

InvalidateLayer(c) ==
    /\ Begin(c, "invalidateLayer")
    /\ StartPurge(c, "invalidateLayer", entries, Key,
                  UNION {returned[k] : k \in KeysOf(entries)})
    /\ UNCHANGED <<cacheVars, casVars, guardVars, history, clock>>

InvalidateResource(c, k) ==
    LET matched == SelectSeq(entries, LAMBDA e : e.key = k) IN
    /\ Begin(c, "invalidateResource")
    /\ StartPurge(c, "invalidateResource", matched, KeysOf(matched),
                  UNION {returned[x] : x \in KeysOf(matched)})
    /\ UNCHANGED <<cacheVars, casVars, guardVars, history, clock>>

ClearExpired(c) ==
    /\ Begin(c, "clearExpired")
    /\ StartPurge(c, "clearExpired", Old, KeysOf(Old), {})
    /\ UNCHANGED <<cacheVars, casVars, guardVars, history, clock>>

PurgeFile(c) ==
    /\ call[c].pc = "purge"
    /\ \E k \in call[c].files :
          /\ file' = [file EXCEPT ![k] = Absent]
          /\ call' = [call EXCEPT ![c].files = @ \ {k}]
    /\ UNCHANGED <<entries, life, verified, armed, writes, saved,
                   casVars, guardVars, bounds, history, clock>>

PurgeEntries(c) ==
    /\ call[c].pc = "purge" /\ call[c].files = {}
    /\ entries' = SelectSeq(entries, LAMBDA e : e.key \notin call[c].keys)
    /\ call' = [call EXCEPT
          ![c].snap = Manifest,
          ![c].pc = IF call[c].op \in {"clearExpired", "cleanup", "initialize"}
                       /\ call[c].keys = {}
                    THEN AfterPurge(c) ELSE "saveLast"]
    /\ UNCHANGED <<file, life, verified, armed, writes, saved,
                   casVars, guardVars, bounds, history, clock>>

\* clearAll: the directories go first, the manifest and the index afterwards.
ClearAll(c) ==
    /\ Begin(c, "clearAll")
    /\ call' = [call EXCEPT ![c] =
          [@ EXCEPT !.op = "clearAll", !.pc = "wipe",
                    !.prior = UNION {returned[k] : k \in Key}]]
    /\ UNCHANGED <<cacheVars, casVars, guardVars, history, clock>>

WipeFiles(c) ==
    /\ call[c].pc = "wipe"
    /\ file' = [k \in Key |-> Absent]
    /\ Go(c, "wipeBins")
    /\ UNCHANGED <<entries, life, verified, armed, writes, saved,
                   casVars, guardVars, bounds, history, clock>>

WipeBins(c) ==
    /\ call[c].pc = "wipeBins"
    /\ bin' = {}
    /\ Go(c, "reset")
    /\ UNCHANGED <<cacheVars, refs, cas, holders, guardVars, bounds, history, clock>>

Reset(c) ==
    /\ call[c].pc = "reset"
    /\ entries' = <<>>
    /\ refs' = [b \in Blob |-> NoRef]
    /\ cas' = refs'
    /\ call' = [call EXCEPT ![c].pc = "saveLast",
                            ![c].snap = [entries |-> <<>>, refs |-> refs']]
    /\ UNCHANGED <<file, life, verified, armed, writes, saved, bin, holders,
                   guardVars, bounds, history, clock>>

\* cleanup: clearExpired, then the files that no entry knew are removed.
Cleanup(c) ==
    /\ Begin(c, "cleanup")
    /\ StartPurge(c, "cleanup", Old, KeysOf(Old), {})
    /\ UNCHANGED <<cacheVars, casVars, guardVars, history, clock>>

Known(c) ==
    /\ call[c].pc = "known"
    /\ call' = [call EXCEPT ![c].pc = "orphans",
                            ![c].keys = KeysOf(entries),
                            ![c].blob = {b \in Blob : refs[b] # NoRef}]
    /\ UNCHANGED <<cacheVars, casVars, guardVars, bounds, history, clock>>

Orphans(c) ==
    /\ call[c].pc = "orphans"
    /\ file' = [k \in Key |-> IF k \in call[c].keys THEN file[k] ELSE Absent]
    /\ Go(c, "orphanBins")
    /\ UNCHANGED <<entries, life, verified, armed, writes, saved,
                   casVars, guardVars, bounds, history, clock>>

OrphanBins(c) ==
    /\ call[c].pc = "orphanBins"
    /\ bin' = bin \cap call[c].blob
    /\ Go(c, "return")
    /\ UNCHANGED <<cacheVars, refs, cas, holders, guardVars, bounds, history, clock>>

\* flush, and the save that a hit has asked for.
Flush(c) ==
    /\ Begin(c, "flush")
    /\ armed' = FALSE
    /\ call' = [call EXCEPT ![c] =
          [@ EXCEPT !.op = "flush", !.pc = "saveLast",
                    !.snap = [entries |-> entries, refs |-> cas]]]
    /\ UNCHANGED <<entries, file, life, verified, writes, saved,
                   casVars, guardVars, history, clock>>

TimerFires ==
    /\ armed
    /\ Cardinality(writes) < MaxWrites
    /\ armed' = FALSE
    /\ writes' = writes \cup {[entries |-> entries, refs |-> cas]}
    /\ UNCHANGED <<call, entries, file, life, verified, saved,
                   casVars, guardVars, bounds, history, clock>>

TimerSaves ==
    \E m \in writes :
        /\ writes' = writes \ {m}
        /\ saved' = m
        /\ UNCHANGED <<call, entries, file, life, verified, armed,
                       casVars, guardVars, bounds, history, clock>>

-----------------------------------------------------------------------------
\* getOrSet: get, and on a miss the guard around get and the factory, then get
\* again and set, outside the guard.
GetOrSet(c, k) ==
    /\ Begin(c, "getOrSet")
    /\ Lookup(c, k, "fast", "getOrSet")
    /\ UNCHANGED <<cacheVars, casVars, guardVars, history, clock>>

Lead(c) == call' = [call EXCEPT ![c].leader = TRUE, ![c].pc = "fill"]

\* Mutant of CreateLock: the lock is looked for before it is created.
CreateLockLate(c) ==
    /\ call[c].pc = "lock"
    /\ lock \in {"absent", "empty"}
    /\ lock' = "empty"
    /\ Lead(c)
    /\ UNCHANGED <<cacheVars, casVars, seized, bounds, history, clock>>

\* The file is created exclusively, its content is written afterwards.
CreateLock(c) ==
    /\ call[c].pc = "lock"
    /\ lock = "absent"
    /\ lock' = "empty"
    /\ Lead(c)
    /\ UNCHANGED <<cacheVars, casVars, seized, bounds, history, clock>>

\* A lock that is older than maxAgeMs will be taken over; one that is empty
\* cannot be told to be.
MeetLock(c) ==
    /\ call[c].pc = "lock"
    /\ lock # "absent"
    /\ Go(c, IF lock = "old" THEN "seize" ELSE "poll")
    /\ UNCHANGED <<cacheVars, casVars, guardVars, bounds, history, clock>>

FillLock(c) ==
    /\ call[c].pc = "fill"
    /\ lock' = "held"
    /\ Go(c, "recheck")
    /\ UNCHANGED <<cacheVars, casVars, seized, bounds, history, clock>>

SeizeLock(c) ==
    /\ call[c].pc = "seize"
    /\ lock' = "held"
    /\ seized' = TRUE
    /\ call' = [call EXCEPT ![c].leader = TRUE, ![c].pc = "recheck"]
    /\ UNCHANGED <<cacheVars, casVars, bounds, history, clock>>

LockAges ==
    /\ "time" \in scenario.ops
    /\ lock = "held"
    /\ lock' = "old"
    /\ UNCHANGED <<call, cacheVars, casVars, seized, bounds, history, clock>>

\* Mutant of PollEnds: a follower waits for as long as there is a lock.
PollEndsFreed(c) ==
    /\ call[c].pc = "poll"
    /\ lock = "absent"
    /\ Go(c, "recheck")
    /\ UNCHANGED <<cacheVars, casVars, guardVars, bounds, history, clock>>

\* The lock is gone, or ten seconds have passed.
PollEnds(c) ==
    /\ call[c].pc = "poll"
    /\ Go(c, "recheck")
    /\ UNCHANGED <<cacheVars, casVars, guardVars, bounds, history, clock>>

\* The gets inside and after the guard.
LookAgain(c) ==
    /\ call[c].pc \in {"recheck", "after"}
    /\ Lookup(c, call[c].key, call[c].pc, "getOrSet")
    /\ UNCHANGED <<cacheVars, casVars, guardVars, bounds, history, clock>>

\* The factory returns or throws; the lock goes in either case.
Factory(c) ==
    /\ call[c].pc = "factory"
    /\ \E next \in {"after", "return"} :
          call' = [call EXCEPT
              ![c].stage = next,
              ![c].pc = IF call[c].leader THEN "unlock" ELSE next]
    /\ UNCHANGED <<cacheVars, casVars, guardVars, bounds, history, clock>>

Unlock(c) ==
    /\ call[c].pc = "unlock"
    /\ lock' = "absent"
    /\ call' = [call EXCEPT ![c].leader = FALSE,
                            ![c].pc = IF call[c].stage = "return" THEN "return"
                                      ELSE "after"]
    /\ UNCHANGED <<cacheVars, casVars, seized, bounds, history, clock>>

Put(c) ==
    /\ call[c].pc = "put"
    /\ StartSet(c, call[c].key, "getOrSet")
    /\ UNCHANGED <<entries, file, verified, armed, writes, saved,
                   casVars, guardVars, bounds, history>>

-----------------------------------------------------------------------------
\* The content-addressable store.  Who stores a content holds it.
Store(c, b) ==
    /\ Begin(c, "store")
    /\ IF refs[b] = NoRef
       THEN /\ call' = [call EXCEPT ![c] =
                  [@ EXCEPT !.op = "store", !.pc = "blob", !.blob = {b}]]
            /\ UNCHANGED casVars
       ELSE /\ refs' = [refs EXCEPT ![b] = @ + 1]
            /\ cas' = refs'
            /\ holders' = [holders EXCEPT ![b] = @ + 1]
            /\ UNCHANGED <<call, bin>>
    /\ UNCHANGED <<cacheVars, guardVars, history, clock>>

StoreFile(c) ==
    /\ call[c].pc = "blob"
    /\ bin' = bin \cup call[c].blob
    /\ Go(c, "ref")
    /\ UNCHANGED <<cacheVars, refs, cas, holders, guardVars, bounds, history, clock>>

\* Mutant of StoreRef: the count of a call that stored meanwhile goes on.
StoreRefTwice(c) ==
    /\ call[c].pc = "ref"
    /\ refs' = [b \in Blob |-> IF b \in call[c].blob THEN refs[b] + Found + 1
                               ELSE refs[b]]
    /\ cas' = refs'
    /\ holders' = [b \in Blob |-> holders[b] + IF b \in call[c].blob THEN 1 ELSE 0]
    /\ call' = [call EXCEPT ![c] = Idle]
    /\ UNCHANGED <<cacheVars, bin, guardVars, bounds, history, clock>>

\* The count is set to one, whoever stored the content meanwhile.
StoreRef(c) ==
    /\ call[c].pc = "ref"
    /\ refs' = [b \in Blob |-> IF b \in call[c].blob THEN Found + 1 ELSE refs[b]]
    /\ cas' = refs'
    /\ holders' = [b \in Blob |-> holders[b] + IF b \in call[c].blob THEN 1 ELSE 0]
    /\ call' = [call EXCEPT ![c] = Idle]
    /\ UNCHANGED <<cacheVars, bin, guardVars, bounds, history, clock>>

Release(c, b) ==
    /\ Begin(c, "release")
    /\ holders[b] > 0
    /\ holders' = [holders EXCEPT ![b] = @ - 1]
    /\ IF refs[b] = NoRef
       THEN UNCHANGED <<call, refs, cas>>
       ELSE IF refs[b] <= Found + 1
       THEN /\ refs' = [refs EXCEPT ![b] = NoRef]
            /\ call' = [call EXCEPT ![c] =
                  [@ EXCEPT !.op = "release", !.pc = "unblob", !.blob = {b}]]
            /\ UNCHANGED cas
       ELSE /\ refs' = [refs EXCEPT ![b] = @ - 1]
            /\ cas' = refs'
            /\ UNCHANGED call
    /\ UNCHANGED <<cacheVars, bin, guardVars, history, clock>>

ReleaseFile(c) ==
    /\ call[c].pc = "unblob"
    /\ bin' = bin \ call[c].blob
    /\ cas' = refs
    /\ call' = [call EXCEPT ![c] = Idle]
    /\ UNCHANGED <<cacheVars, refs, holders, guardVars, bounds, history, clock>>

-----------------------------------------------------------------------------
\* Time passes for a version, or for a checksum that was compared.  What is
\* older ages sooner.
Ages(v) ==
    /\ "time" \in scenario.ops
    /\ life[v] # "expired"
    /\ \A w \in DOMAIN life :
          w < v => /\ life[w] # "fresh"
                   /\ life[v] = "stale" => life[w] = "expired"
    /\ life' = [life EXCEPT ![v] = IF @ = "fresh" THEN "stale" ELSE "expired"]
    /\ UNCHANGED <<call, entries, file, verified, armed, writes, saved,
                   casVars, guardVars, bounds, history, clock>>

Forget(k) ==
    /\ "time" \in scenario.ops
    /\ k \in verified
    /\ verified' = verified \ {k}
    /\ UNCHANGED <<call, entries, file, life, armed, writes, saved,
                   casVars, guardVars, bounds, history, clock>>

\* The process ends; a file may turn out not to have reached the disk.
Crash ==
    /\ state = "up"
    /\ crashes < scenario.crashes
    /\ crashes' = crashes + 1
    /\ state' = "down"
    /\ call' = [c \in Caller |-> Idle]
    /\ entries' = <<>> /\ verified' = {} /\ armed' = FALSE /\ writes' = {}
    /\ \E lost \in {{}} \cup {{k} : k \in {x \in Key : file[x] # Absent}} :
          file' = [k \in Key |-> IF k \in lost THEN Garbage ELSE file[k]]
    /\ refs' = [b \in Blob |-> NoRef] /\ cas' = refs'
    /\ holders' = [b \in Blob |-> 0]
    /\ UNCHANGED <<life, saved, bin, guardVars, calls, scenario, history, clock>>

\* What the new process finds: the manifest is whole, since it is renamed into
\* place.
Load == saved.entries

\* initialize: the manifest is loaded, the index rebuilt from it and from the
\* directory, and what has expired is cleared.
Restart(c) ==
    LET loaded == Load
        old == SelectSeq(loaded, LAMBDA e : life[e.sum] # "fresh")
        index == [b \in Blob |->
                    IF saved.refs[b] = NoRef /\ b \in bin THEN Found
                    ELSE saved.refs[b]]
    IN
    /\ state = "down"
    /\ state' = "starting"
    /\ entries' = loaded
    /\ cas' = saved.refs
    /\ refs' = index
    /\ StartPurge(c, "initialize", old, KeysOf(old), {})
    /\ UNCHANGED <<file, life, verified, armed, writes, saved, bin, holders,
                   guardVars, calls, crashes, scenario, history, clock>>

-----------------------------------------------------------------------------
Start(c) ==
    \/ \E k \in Key : \/ Get(c, k) \/ GetRaw(c, k) \/ Set(c, k) \/ SetRaw(c, k)
                       \/ Invalidate(c, k) \/ InvalidateResource(c, k)
                       \/ GetOrSet(c, k)
    \/ InvalidateLayer(c) \/ ClearExpired(c) \/ ClearAll(c) \/ Cleanup(c)
    \/ Flush(c)
    \/ \E b \in Blob : Store(c, b) \/ Release(c, b)

Continue(c) ==
    \/ Read(c) \/ Drop(c) \/ Touch(c) \/ Hit(c) \/ Miss(c)
    \/ Unlink(c) \/ WriteFile(c) \/ Index(c) \/ Save(c)
    \/ EvictFile(c) \/ EvictEntry(c) \/ SaveLast(c) \/ Return(c)
    \/ InvalidateFile(c) \/ InvalidateEntry(c)
    \/ PurgeFile(c) \/ PurgeEntries(c)
    \/ WipeFiles(c) \/ WipeBins(c) \/ Reset(c)
    \/ Known(c) \/ Orphans(c) \/ OrphanBins(c)
    \/ CreateLock(c) \/ MeetLock(c) \/ FillLock(c) \/ SeizeLock(c) \/ PollEnds(c)
    \/ LookAgain(c) \/ Factory(c) \/ Unlock(c) \/ Put(c)
    \/ StoreFile(c) \/ StoreRef(c) \/ ReleaseFile(c)

Next ==
    \/ \E c \in Caller : Start(c) \/ Continue(c) \/ Restart(c)
    \/ TimerFires \/ TimerSaves \/ LockAges \/ Crash
    \/ \E v \in DOMAIN life : Ages(v)
    \/ \E k \in Key : Forget(k)

Spec == Init /\ [][Next]_vars

-----------------------------------------------------------------------------
\* A hit is not older than what the caller could know: it is not of a set that
\* a later set, invalidation or clearAll had replaced and returned from before
\* the get began, across restarts too (set, invalidate, invalidateLayer,
\* invalidateResource, clearAll, evictions, and get, which puts entries back).
HitsAreRecent ==
    \A c \in Caller : call[c].pc = "touch" => call[c].data \notin call[c].shun

\* Unless a lock was taken over, one caller at a time is inside the guard as a
\* leader (withStampedeGuard).
OneLeader == ~seized => Cardinality({c \in Caller : call[c].leader}) <= 1

\* When every content that was stored has been released, none is left, although
\* storing calls overwrite each other's counts unless a clearAll or
\* a crash intervenes (storeContentAddressable, releaseContentAddressable).
NothingLeaks ==
    /\ crashes = 0 /\ "clearAll" \notin scenario.ops
    /\ \A c \in Caller : call[c].pc = "idle"
    /\ \A b \in Blob : holders[b] = 0
    => bin = {} /\ \A b \in Blob : refs[b] = NoRef

\* No call is stuck, also one that meets the lock of a process that died, even
\* if that lock was left empty (withStampedeGuard).
CallsGoOn ==
    \A c \in Caller : call[c].pc # "idle" => ENABLED Continue(c)
=============================================================================
