------------------------- MODULE CacheManagerProofs -------------------------
(***************************************************************************)
(* Theorems about CacheManager, for any callers, keys, contents and        *)
(* scenarios.  Three arguments share one invariant: which versions a file  *)
(* may have while calls replace it (Versions, Versioned and Removed), who  *)
(* has the lock (Guarded, LockInv), and which contents still have a claim  *)
(* on their file (BlobInv).                                                *)
(***************************************************************************)
EXTENDS CacheManager, FiniteSetTheorems, TLAPS

-----------------------------------------------------------------------------
(* The inductive invariant. *)

Fields == {"pc", "op", "stage", "key", "ver", "data", "entry", "idx", "todo", "keys",
           "files", "snap", "leader", "blob", "prior", "shun"}

\* What calls and their results are made of matters in what follows; the
\* entries of the manifest do not.
IsCall(c) == c = [f \in Fields |-> c[f]]

\* Where a call has a key at hand.
Keyed == {"read", "drop", "touch", "hit", "miss", "lock", "fill", "seize", "poll", "recheck",
          "factory", "unlock", "after", "put", "unlink", "write", "inv", "slice"}

Guarding == {"read", "drop", "touch", "hit", "miss"}
Stages == {"get", "raw", "fast", "recheck", "after"}

Some(done) == UNION {done[k] : k \in Key}

\* The version of a call is its own until it returns, and what the call
\* replaces has returned.
Versioned(c, now, files, done, over) ==
    /\ c.ver \in Nat /\ c.ver <= now
    /\ c.ver # 0 => /\ c.ver >= 2 /\ c.key \in Key
                    /\ \A k \in Key : c.ver \notin done[k]
                    /\ \A k \in Key : files[k] = c.ver => k = c.key
    /\ c.pc \in Keyed => c.key \in Key
    /\ c.pc \in {"unlink", "write"} => c.ver # 0
    /\ c.pc \in {"idle", "blob", "ref", "unblob"} \cup (Keyed \ {"unlink", "write"}) => c.ver = 0
    /\ c.pc = "blob" => c.blob \subseteq Blob
    /\ c.prior \subseteq Some(done)
    /\ c.shun \subseteq over

\* Once a call has removed the files that it replaces, none of them is back.
Removed(c, files) ==
    /\ c.pc \in {"unlink", "write", "inv"} =>
          \A k \in Key : files[k] \in c.prior => k = c.key
    /\ c.pc \in {"unlink", "write"} /\ c.op = "setRaw" => c.prior = {}
    /\ c.pc = "purge" => \A k \in Key : files[k] \in c.prior => k \in c.files
    /\ c.pc \notin {"unlink", "write", "inv", "purge", "wipe"} =>
          \A k \in Key : files[k] \notin c.prior

Served(c) == c.pc = "touch" => c.data \notin c.shun

Guarded(c) ==
    /\ c.leader => /\ c.pc \in {"fill", "recheck", "factory", "unlock"} \cup Guarding
                   /\ c.pc \in Guarding => c.stage = "recheck"
    /\ c.pc \in {"fill", "unlock"} => c.leader
    /\ c.pc \in Guarding => c.stage \in Stages

Wipes(c, now) == c.pc \in {"wipe", "wipeBins", "reset"} => "clearAll" \in now.ops

Sound(c) == /\ IsCall(c) /\ Served(c) /\ Guarded(c) /\ Wipes(c, scenario)
            /\ Versioned(c, clock, file, returned, gone) /\ Removed(c, file)
SoundNext(c) == /\ IsCall(c) /\ Served(c) /\ Guarded(c) /\ Wipes(c, scenario')
                /\ Versioned(c, clock', file', returned', gone') /\ Removed(c, file')

CallsInv ==
    /\ call = [c \in Caller |-> call[c]]
    /\ \A c \in Caller : Sound(call[c])
    /\ \A c, d \in Caller : call[c].ver # 0 /\ call[c].ver = call[d].ver => c = d

Versions ==
    /\ clock \in Nat \ {0}
    /\ file \in [Key -> Nat]
    /\ returned \in [Key -> SUBSET Nat]
    /\ \A k \in Key : file[k] <= clock /\ file[k] \notin gone
    /\ \A k \in Key : \A v \in returned[k] : 2 <= v /\ v <= clock
    /\ \A j, k \in Key : /\ file[j] \in returned[k] => j = k
                         /\ \A v \in returned[j] : v \in returned[k] => j = k
    /\ gone \subseteq Some(returned)

LockInv ==
    ~seized => /\ \A c, d \in Caller : call[c].leader /\ call[d].leader => c = d
               /\ \A c \in Caller : call[c].leader => lock # "absent"

BlobInv ==
    /\ crashes \in Nat
    /\ state = "down" => crashes # 0
    /\ crashes = 0 /\ "clearAll" \notin scenario.ops =>
         /\ bin \subseteq Blob /\ refs \in [Blob -> Nat] /\ holders \in [Blob -> Nat]
         /\ \A b \in Blob :
              /\ refs[b] # NoRef => refs[b] >= Found + 1 /\ refs[b] <= holders[b] + Found
              /\ b \in bin => \/ refs[b] # NoRef
                              \/ \E c \in Caller : /\ call[c].pc \in {"ref", "unblob"}
                                                   /\ b \in call[c].blob

Inv == CallsInv /\ Versions /\ LockInv /\ BlobInv

-----------------------------------------------------------------------------
(* Steps of one call. *)

USE DEF Absent, Garbage, NoRef, Found

\* A step that writes no version, and in which no call returns, leaves what is
\* known of the other calls.
LEMMA OthersStay ==
    ASSUME Versions, clock' \in {clock, clock + 1}, UNCHANGED <<returned, gone, scenario>>,
           \A k \in Key : file'[k] \in {file[k], 0}
    PROVE  \A c : Sound(c) => SoundNext(c)
<1> SUFFICES ASSUME NEW c, Sound(c)
             PROVE  SoundNext(c)
  OBVIOUS
<1>1. \A k \in Key : \A v \in returned[k] : v # 0
  BY DEF Versions
<1>2. \A v \in c.prior : v # 0
  BY <1>1 DEF Sound, Versioned, Some
<1>3. Versioned(c, clock', file', returned', gone')
  BY DEF Versions, Sound, Versioned
<1>4. Removed(c, file')
  BY <1>2 DEF Sound, Removed
<1> QED
  BY <1>3, <1>4 DEF Sound, SoundNext

\* The call of c becomes r, which has the version that it had, or a new one.
LEMMA OneCall ==
    ASSUME CallsInv, Versions, NEW c \in Caller, NEW r,
           call' = [call EXCEPT ![c] = r],
           \A d : Sound(d) => SoundNext(d),
           SoundNext(r),
           r.ver \in {0, call[c].ver, clock + 1}
    PROVE  CallsInv'
<1>1. \A d \in Caller : call'[d] = IF d = c THEN r ELSE call[d]
  BY DEF CallsInv
<1>2. call' = [d \in Caller |-> call'[d]]
  BY DEF CallsInv
<1>3. \A d \in Caller : SoundNext(call'[d])
  BY <1>1 DEF CallsInv
<1>4. \A d \in Caller : call[d].ver \in Nat /\ call[d].ver <= clock /\ clock \in Nat
  BY DEF CallsInv, Sound, Versioned, Versions
<1>5. \A d, e \in Caller : call'[d].ver # 0 /\ call'[d].ver = call'[e].ver => d = e
  BY <1>1, <1>4 DEF CallsInv
<1> QED
  BY <1>2, <1>3, <1>5 DEF CallsInv, Sound, SoundNext

\* A step that writes no version, in which no call returns, no lock is given
\* back, and no content is stored or released.
Calm == /\ clock' \in {clock, clock + 1}
        /\ file' \in [Key -> Nat] /\ \A k \in Key : file'[k] \in {file[k], 0}
        /\ lock = "absent" \/ lock' # "absent"
        /\ UNCHANGED <<returned, gone, scenario, seized, crashes>>
        /\ \/ UNCHANGED <<refs, holders>> /\ bin' \subseteq bin
           \/ "clearAll" \in scenario.ops \/ crashes # 0
        /\ state' = "down" => state = "down"

LEMMA Step ==
    ASSUME Inv, NEW c \in Caller, NEW r, call' = [call EXCEPT ![c] = r],
           call[c].pc \notin {"ref", "unblob"},
           SoundNext(r), r.ver \in {0, call[c].ver, clock + 1},
           r.ver = clock + 1 => clock' = clock + 1,
           r.leader => call[c].leader,
           Calm
    PROVE  Inv'
<1> USE DEF Calm
<1>1. CallsInv'
  BY OthersStay, OneCall DEF Inv
<1>2. Versions'
  <2>1. \A k \in Key : \A v \in returned[k] : v # 0
    BY DEF Inv, Versions
  <2>2. 0 \notin gone /\ clock \in Nat
    BY <2>1 DEF Inv, Versions, Some
  <2>3. \A k \in Key : file'[k] <= clock' /\ file'[k] \notin gone
    BY <2>2 DEF Inv, Versions
  <2>4. \A k \in Key : \A v \in returned[k] : 2 <= v /\ v <= clock'
    BY <2>2 DEF Inv, Versions
  <2>5. \A j, k \in Key : file'[j] \in returned[k] => j = k
    BY <2>1 DEF Inv, Versions
  <2> QED
    BY <2>2, <2>3, <2>4, <2>5 DEF Inv, Versions
<1>3. \A d \in Caller : call'[d] = IF d = c THEN r ELSE call[d]
  BY DEF Inv, CallsInv
<1>4. LockInv'
  BY <1>3 DEF Inv, LockInv
<1>5. BlobInv'
  <2>1. ASSUME NEW d \in Caller, call[d].pc \in {"ref", "unblob"}
        PROVE  call'[d] = call[d]
    BY <1>3, <2>1
  <2> QED
    BY <2>1 DEF Inv, BlobInv
<1> QED
  BY <1>1, <1>2, <1>4, <1>5 DEF Inv

LEMMA CallFacts ==
    ASSUME Inv, NEW c \in Caller
    PROVE  /\ Sound(call[c]) /\ IsCall(call[c]) /\ Served(call[c]) /\ Guarded(call[c])
           /\ Wipes(call[c], scenario)
           /\ Versioned(call[c], clock, file, returned, gone)
           /\ Removed(call[c], file)
           /\ call = [d \in Caller |-> call[d]]
           /\ file \in [Key -> Nat] /\ clock \in Nat
  BY DEF Inv, CallsInv, Sound, Versions

USE DEF Go, cacheVars, casVars, guardVars, bounds, history, Begin

\* ... in which a call goes on with the key, the version and the claims it has.
LEMMA Goes ==
    ASSUME Inv, NEW c \in Caller, NEW r, call' = [call EXCEPT ![c] = r], IsCall(r),
           r.ver = call[c].ver, r.key = call[c].key, r.prior = call[c].prior,
           r.shun = call[c].shun, r.leader = call[c].leader,
           call[c].pc \notin {"ref", "unblob"}, r.pc \notin {"idle", "blob", "ref", "unblob"},
           r.pc \in {"unlink", "write"} => call[c].pc \in {"unlink", "write"},
           r.pc \in Keyed \ {"unlink", "write"} => call[c].pc \in Keyed \ {"unlink", "write"},
           r.pc \in {"wipe", "wipeBins", "reset"} =>
               call[c].pc \in {"wipe", "wipeBins", "reset"},
           Served(r), Guarded(r), Removed(r, file'),
           Calm
    PROVE  Inv'
<1>1. Versioned(r, clock, file, returned, gone)
  BY CallFacts DEF Versioned, Keyed
<1>2. Versioned(r, clock', file', returned', gone')
  BY <1>1, CallFacts DEF Calm, Versioned
<1>3. SoundNext(r)
  BY <1>2, CallFacts DEF SoundNext, Wipes, Calm
<1>4. r.ver # clock + 1 /\ r.ver \in {0, call[c].ver, clock + 1}
  BY CallFacts DEF Versioned
<1> QED
  BY <1>3, <1>4, Step

-----------------------------------------------------------------------------
(* get *)

\* What Lookup makes of a call: the versions that it must not be served are
\* those that are gone by now.
LEMMA LookupKeeps ==
    ASSUME Inv, NEW c \in Caller, NEW k \in Key, NEW stage \in Stages, NEW op,
           Lookup(c, k, stage, op), call[c].pc \in {"idle", "recheck", "after"},
           call[c].leader => stage = "recheck",
           UNCHANGED <<cacheVars, casVars, guardVars, crashes, state, scenario, history, clock>>
    PROVE  Inv'
<1> DEFINE usable == Has(k) /\ life[entries[Find(k)].sum] # "expired"
           pc == IF usable THEN "read" ELSE "miss"
           e == IF usable THEN entries[Find(k)] ELSE NoEntry
           r == [call[c] EXCEPT !.op = op, !.key = k, !.stage = stage, !.shun = gone,
                                !.pc = pc, !.entry = e]
<1>1. call' = [call EXCEPT ![c] = r] /\ pc \in {"read", "miss"}
  BY DEF Lookup
<1> HIDE DEF usable, pc, e
<1>2. /\ IsCall(r) /\ r.pc = pc /\ r.key = k /\ r.stage = stage /\ r.shun = gone
      /\ r.ver = 0 /\ r.leader = call[c].leader /\ r.prior = call[c].prior
  BY CallFacts DEF IsCall, Fields, Versioned, Keyed
<1> HIDE DEF r
<1>3. Served(r) /\ Guarded(r) /\ Wipes(r, scenario')
  BY <1>1, <1>2, CallFacts DEF Served, Guarded, Guarding, Wipes
<1>4. Versioned(r, clock', file', returned', gone')
  BY <1>1, <1>2, CallFacts DEF Versioned
<1>5. Removed(r, file')
  BY <1>1, <1>2, CallFacts DEF Removed
<1>6. SoundNext(r)
  BY <1>2, <1>3, <1>4, <1>5 DEF SoundNext
<1>7. Calm
  BY CallFacts DEF Calm
<1>8. /\ call[c].pc \notin {"ref", "unblob"} /\ clock \in Nat
      /\ r.ver \in {0, call[c].ver, clock + 1}
      /\ r.leader => call[c].leader
      /\ r.ver = clock + 1 => clock' = clock + 1
  BY <1>2, CallFacts
<1> QED
  BY <1>1, <1>6, <1>7, <1>8, Step

\* A call that is over leaves its caller idle.
LEMMA Ends ==
    ASSUME Inv, NEW c \in Caller, call' = [call EXCEPT ![c] = Idle],
           call[c].pc \notin {"ref", "unblob"}, Calm
    PROVE  Inv'
<1>1. /\ IsCall(Idle) /\ Idle.pc = "idle" /\ Idle.ver = 0 /\ ~Idle.leader
      /\ Idle.prior = {} /\ Idle.shun = {}
  BY DEF Idle, IsCall, Fields
<1>2. SoundNext(Idle)
  <2>1. Served(Idle) /\ Guarded(Idle) /\ Wipes(Idle, scenario') /\ Removed(Idle, file')
    BY <1>1 DEF Served, Guarded, Guarding, Wipes, Removed
  <2>2. Versioned(Idle, clock', file', returned', gone')
    BY <1>1, CallFacts DEF Versioned, Keyed, Calm
  <2> QED
    BY <1>1, <2>1, <2>2 DEF SoundNext
<1>3. Idle.ver # clock + 1
  BY <1>1, CallFacts
<1> QED
  BY <1>1, <1>2, <1>3, Step

LEMMA GetKeeps ==
    ASSUME Inv, NEW c \in Caller, NEW k \in Key, Get(c, k) \/ GetRaw(c, k) \/ GetOrSet(c, k)
    PROVE  Inv'
<1>1. /\ call[c].pc = "idle" /\ ~call[c].leader
      /\ UNCHANGED <<cacheVars, casVars, guardVars, crashes, state, scenario, history, clock>>
  BY CallFacts DEF Get, GetRaw, GetOrSet, Guarded, Guarding
<1>2. \E stage \in Stages, op \in Op : Lookup(c, k, stage, op)
  BY DEF Get, GetRaw, GetOrSet, Stages, Op
<1> QED
  BY <1>1, <1>2, LookupKeeps

LEMMA LookAgainKeeps ==
    ASSUME Inv, NEW c \in Caller, LookAgain(c)
    PROVE  Inv'
<1>1. /\ call[c].pc \in {"recheck", "after"} /\ call[c].key \in Key
      /\ call[c].leader => call[c].pc = "recheck"
      /\ Lookup(c, call[c].key, call[c].pc, "getOrSet") /\ call[c].pc \in Stages
      /\ UNCHANGED <<cacheVars, casVars, guardVars, crashes, state, scenario, history, clock>>
  BY CallFacts DEF LookAgain, Guarded, Guarding, Stages, Versioned, Keyed
<1> QED
  BY <1>1, LookupKeeps

\* What is read is in the file, and no file has a version that is gone.
LEMMA ReadKeeps ==
    ASSUME Inv, NEW c \in Caller, Read(c)
    PROVE  Inv'
<1> DEFINE d == file[call[c].key]
           trusted == call[c].stage = "raw"
                      \/ (d # Garbage /\ (call[c].key \in verified \/ d = call[c].entry.sum))
           pc == IF d = Absent THEN "miss" ELSE IF trusted THEN "touch" ELSE "drop"
           r == [call[c] EXCEPT !.data = d, !.pc = pc]
<1>1. /\ call[c].pc = "read" /\ call' = [call EXCEPT ![c] = r]
      /\ UNCHANGED <<cacheVars, casVars, guardVars, bounds, history, clock>>
  BY CallFacts DEF Read
<1>2. /\ IsCall(r) /\ r.ver = call[c].ver /\ r.key = call[c].key /\ r.prior = call[c].prior
      /\ r.shun = call[c].shun /\ r.leader = call[c].leader /\ r.stage = call[c].stage
      /\ r.data = d /\ r.pc = pc
  BY CallFacts DEF IsCall, Fields
<1>3. pc \in {"miss", "touch", "drop"}
  OBVIOUS
<1>5. call[c].key \in Key /\ d \notin call[c].shun
  BY <1>1, CallFacts DEF Versioned, Keyed, Inv, Versions
<1> HIDE DEF r, pc, d
<1>6. Served(r)
  BY <1>2, <1>5 DEF Served
<1>7. Guarded(r)
  BY <1>1, <1>2, <1>3, CallFacts DEF Guarded, Guarding
<1>8. Removed(r, file')
  BY <1>1, <1>2, <1>3, CallFacts DEF Removed
<1>9. Calm
  BY <1>1, CallFacts DEF Calm
<1> QED
  BY <1>1, <1>2, <1>3, <1>6, <1>7, <1>8, <1>9, Goes DEF Keyed

LEMMA DropKeeps ==
    ASSUME Inv, NEW c \in Caller, Drop(c)
    PROVE  Inv'
<1> DEFINE r == [call[c] EXCEPT !.pc = "miss"]
<1>1. call[c].pc = "drop" /\ call' = [call EXCEPT ![c] = r]
  BY CallFacts DEF Drop
<1>2. /\ IsCall(r) /\ r.ver = call[c].ver /\ r.key = call[c].key /\ r.prior = call[c].prior
      /\ r.shun = call[c].shun /\ r.leader = call[c].leader /\ r.stage = call[c].stage
      /\ r.pc = "miss"
  BY CallFacts DEF IsCall, Fields
<1>3. Calm
  BY CallFacts DEF Calm, Drop
<1>4. Removed(call[c], file')
  BY OthersStay, CallFacts, <1>3 DEF Calm, SoundNext, Inv
<1> HIDE DEF r
<1>5. Served(r) /\ Guarded(r) /\ Removed(r, file')
  BY <1>1, <1>2, <1>4, CallFacts DEF Served, Guarded, Guarding, Removed
<1> QED
  BY <1>1, <1>2, <1>3, <1>5, Goes DEF Keyed

LEMMA TouchKeeps ==
    ASSUME Inv, NEW c \in Caller, Touch(c)
    PROVE  Inv'
<1> DEFINE r == [call[c] EXCEPT !.pc = "hit"]
<1>1. call[c].pc = "touch" /\ call' = [call EXCEPT ![c] = r]
  BY CallFacts DEF Touch
<1>2. /\ IsCall(r) /\ r.ver = call[c].ver /\ r.key = call[c].key /\ r.prior = call[c].prior
      /\ r.shun = call[c].shun /\ r.leader = call[c].leader /\ r.stage = call[c].stage
      /\ r.pc = "hit"
  BY CallFacts DEF IsCall, Fields
<1>3. Calm /\ UNCHANGED file
  BY CallFacts DEF Calm, Touch
<1> HIDE DEF r
<1>4. Served(r) /\ Guarded(r) /\ Removed(r, file')
  BY <1>1, <1>2, <1>3, CallFacts DEF Served, Guarded, Guarding, Removed
<1> QED
  BY <1>1, <1>2, <1>3, <1>4, Goes DEF Keyed

LEMMA HitKeeps ==
    ASSUME Inv, NEW c \in Caller, Hit(c)
    PROVE  Inv'
<1> DEFINE pc == IF call[c].leader THEN "unlock" ELSE "after"
           r == [call[c] EXCEPT !.pc = pc]
<1>1. call[c].pc = "hit" /\ Calm /\ UNCHANGED file
  BY CallFacts DEF Calm, Hit
<1>2. CASE call' = [call EXCEPT ![c] = Idle]
  BY <1>1, <1>2, Ends
<1>3. CASE call' = [call EXCEPT ![c] = r]
  <2>1. /\ IsCall(r) /\ r.ver = call[c].ver /\ r.key = call[c].key /\ r.prior = call[c].prior
        /\ r.shun = call[c].shun /\ r.leader = call[c].leader /\ r.stage = call[c].stage
        /\ r.pc = pc /\ pc \in {"unlock", "after"} /\ (pc = "unlock" <=> call[c].leader)
    BY CallFacts DEF IsCall, Fields
  <2> HIDE DEF r, pc
  <2>2. Served(r) /\ Guarded(r) /\ Removed(r, file')
    BY <1>1, <2>1, CallFacts DEF Served, Guarded, Guarding, Removed
  <2> QED
    BY <1>1, <1>3, <2>1, <2>2, Goes DEF Keyed
<1> QED
  BY <1>2, <1>3, CallFacts DEF Hit

LEMMA MissKeeps ==
    ASSUME Inv, NEW c \in Caller, Miss(c)
    PROVE  Inv'
<1> DEFINE pc == CASE call[c].stage = "fast" -> "lock"
                   [] call[c].stage = "recheck" -> "factory"
                   [] call[c].stage = "after" -> "put"
           r == [call[c] EXCEPT !.pc = pc]
<1>1. call[c].pc = "miss" /\ Calm /\ UNCHANGED file
  BY CallFacts DEF Calm, Miss
<1>2. CASE call' = [call EXCEPT ![c] = Idle]
  BY <1>1, <1>2, Ends
<1>3. CASE call' = [call EXCEPT ![c] = r] /\ call[c].stage \in {"fast", "recheck", "after"}
  <2> HIDE DEF pc
  <2>1. /\ IsCall(r) /\ r.ver = call[c].ver /\ r.key = call[c].key /\ r.prior = call[c].prior
        /\ r.shun = call[c].shun /\ r.leader = call[c].leader /\ r.stage = call[c].stage
        /\ r.pc = pc
    BY CallFacts DEF IsCall, Fields
  <2>2. pc \in {"lock", "factory", "put"} /\ (call[c].stage = "recheck" => pc = "factory")
    BY <1>3 DEF pc
  <2> HIDE DEF r
  <2>3. Served(r) /\ Guarded(r) /\ Removed(r, file')
    BY <1>1, <2>1, <2>2, CallFacts DEF Served, Guarded, Guarding, Removed
  <2> QED
    BY <1>1, <1>3, <2>1, <2>2, <2>3, Goes DEF Keyed
<1>4. call[c].stage \in {"get", "raw"} \/ call[c].stage \in {"fast", "recheck", "after"}
  BY <1>1, CallFacts DEF Guarded, Guarding, Stages
<1> QED
  BY <1>2, <1>3, <1>4, CallFacts DEF Miss

-----------------------------------------------------------------------------
(* set *)

\* A set takes a new version, and replaces what has returned of its key.
LEMMA StartSetKeeps ==
    ASSUME Inv, NEW c \in Caller, NEW k \in Key, NEW op, StartSet(c, k, op),
           call[c].pc \in {"idle", "put"}, ~call[c].leader,
           UNCHANGED <<entries, file, verified, armed, writes, saved, casVars, guardVars,
                       crashes, state, scenario, history>>
    PROVE  Inv'
<1> DEFINE pc == IF Has(k) THEN "unlink" ELSE "write"
           prior == IF op = "setRaw" THEN {} ELSE returned[k]
           r == [call[c] EXCEPT !.op = op, !.key = k, !.ver = clock + 1,
                                !.prior = prior, !.pc = pc]
<1>1. call' = [call EXCEPT ![c] = r] /\ clock' = clock + 1 /\ clock \in Nat
  BY CallFacts DEF StartSet
<1>2. /\ pc \in {"unlink", "write"} /\ prior \in {{}, returned[k]}
      /\ op = "setRaw" => prior = {}
  OBVIOUS
<1> HIDE DEF pc, prior
<1>3. /\ IsCall(r) /\ r.op = op /\ r.ver = clock + 1 /\ r.key = k /\ r.prior = prior
      /\ r.shun = call[c].shun /\ r.leader = call[c].leader /\ r.pc = pc
  BY CallFacts DEF IsCall, Fields
<1> HIDE DEF r
<1>4. Versions
  BY DEF Inv
<1>5. Versioned(r, clock', file', returned', gone')
  <2>1. \A j \in Key : clock + 1 \notin returned[j] /\ file[j] # clock + 1
    BY <1>1, <1>4 DEF Versions
  <2>2. prior \subseteq Some(returned)
    BY <1>2 DEF Some
  <2>3. clock + 1 \in Nat /\ clock + 1 >= 2
    BY <1>4 DEF Versions
  <2> QED
    BY <1>1, <1>2, <1>3, <2>1, <2>2, <2>3, CallFacts DEF Versioned, Keyed
<1>6. Removed(r, file')
  BY <1>2, <1>3, <1>4 DEF Removed, Versions
<1>7. Served(r) /\ Guarded(r) /\ Wipes(r, scenario')
  BY <1>2, <1>3 DEF Served, Guarded, Guarding, Wipes
<1>8. SoundNext(r)
  BY <1>3, <1>5, <1>6, <1>7 DEF SoundNext
<1>9. Calm
  BY <1>1, CallFacts DEF Calm
<1> QED
  BY <1>1, <1>3, <1>8, <1>9, Step

LEMMA SetKeeps ==
    ASSUME Inv, NEW c \in Caller, NEW k \in Key, Set(c, k) \/ SetRaw(c, k)
    PROVE  Inv'
<1>1. call[c].pc = "idle" /\ ~call[c].leader
  BY CallFacts DEF Set, SetRaw, Guarded, Guarding
<1>2. /\ \E op \in Op : StartSet(c, k, op)
      /\ UNCHANGED <<entries, file, verified, armed, writes, saved, casVars, guardVars,
                     crashes, state, scenario, history>>
  BY DEF Set, SetRaw, Op
<1> QED
  BY <1>1, <1>2, StartSetKeeps

LEMMA PutKeeps ==
    ASSUME Inv, NEW c \in Caller, Put(c)
    PROVE  Inv'
<1>1. call[c].pc = "put" /\ ~call[c].leader /\ call[c].key \in Key
  BY CallFacts DEF Put, Guarded, Guarding, Versioned, Keyed
<1>2. /\ StartSet(c, call[c].key, "getOrSet")
      /\ UNCHANGED <<entries, file, verified, armed, writes, saved, casVars, guardVars,
                     crashes, state, scenario, history>>
  BY DEF Put
<1> QED
  BY <1>1, <1>2, StartSetKeeps

\* The old file goes; no other file has what the set replaces.
LEMMA UnlinkKeeps ==
    ASSUME Inv, NEW c \in Caller, Unlink(c)
    PROVE  Inv'
<1> DEFINE r == [call[c] EXCEPT !.pc = "write"]
<1>1. call[c].pc = "unlink" /\ call' = [call EXCEPT ![c] = r]
  BY CallFacts DEF Unlink
<1>2. /\ IsCall(r) /\ r.ver = call[c].ver /\ r.key = call[c].key /\ r.prior = call[c].prior
      /\ r.shun = call[c].shun /\ r.leader = call[c].leader /\ r.pc = "write"
      /\ r.op = call[c].op
  BY CallFacts DEF IsCall, Fields
<1>3. Calm
  BY CallFacts DEF Calm, Unlink
<1>4. Removed(call[c], file')
  BY OthersStay, CallFacts, <1>3 DEF Calm, SoundNext, Inv
<1> HIDE DEF r
<1>5. Served(r) /\ Guarded(r) /\ Removed(r, file')
  BY <1>1, <1>2, <1>4, CallFacts DEF Served, Guarded, Guarding, Removed
<1> QED
  BY <1>1, <1>2, <1>3, <1>5, Goes DEF Keyed

\* The file gets a version that has not returned, so that nobody replaces it.
LEMMA WriteFileKeeps ==
    ASSUME Inv, NEW c \in Caller, WriteFile(c)
    PROVE  Inv'
<1> DEFINE k == call[c].key
           v == call[c].ver
           r == [call[c] EXCEPT !.pc = "index"]
<1>1. /\ call[c].pc = "write" /\ call' = [call EXCEPT ![c] = r]
      /\ UNCHANGED <<entries, life, verified, armed, writes, saved, casVars, guardVars,
                     bounds, history, clock>>
  BY CallFacts DEF WriteFile
<1>2. /\ IsCall(r) /\ r.ver = v /\ r.key = k /\ r.prior = call[c].prior
      /\ r.shun = call[c].shun /\ r.leader = call[c].leader /\ r.pc = "index"
  BY CallFacts DEF IsCall, Fields
<1>3. /\ v \in Nat /\ v # 0 /\ v <= clock /\ k \in Key
      /\ \A j \in Key : v \notin returned[j] /\ (file[j] = v => j = k)
  BY <1>1, CallFacts DEF Versioned
<1> HIDE DEF r
<1>4. v \notin Some(returned)
  BY <1>3 DEF Some
<1>5. v \notin gone
  BY <1>4 DEF Inv, Versions
<1>6. /\ file' \in [Key -> Nat]
      /\ \A j \in Key : file'[j] = file[j] \/ (j = k /\ file'[j] = v)
      /\ call[c].op # "setRaw" => file'[k] = v
      /\ call[c].op = "setRaw" => file' = file
  BY <1>3, CallFacts DEF WriteFile
<1>7. Versions'
  BY <1>1, <1>3, <1>5, <1>6 DEF Inv, Versions
<1>8. ASSUME NEW d \in Caller, d # c
      PROVE  SoundNext(call[d])
  <2>1. call[d].prior \subseteq Some(returned) /\ call[d].ver \in Nat
    BY CallFacts DEF Versioned
  <2>2. call[d].ver = 0 \/ call[d].ver # v
    BY <1>3, <1>8 DEF Inv, CallsInv
  <2>3. Versioned(call[d], clock', file', returned', gone')
    BY <1>1, <1>3, <1>6, <2>2, CallFacts DEF Versioned
  <2>4. Removed(call[d], file')
    BY <1>4, <1>6, <2>1, CallFacts DEF Removed
  <2> QED
    BY <1>1, <2>3, <2>4, CallFacts DEF SoundNext
<1>9. SoundNext(r)
  <2>1. r.prior \subseteq Some(returned)
    BY <1>2, CallFacts DEF Versioned
  <2>2. Versioned(r, clock', file', returned', gone')
    BY <1>1, <1>2, <1>3, <1>6, CallFacts DEF Versioned, Keyed
  <2>3. \A j \in Key : file'[j] \notin r.prior
    <3> SUFFICES ASSUME NEW j \in Key, file'[j] \in r.prior
                 PROVE  FALSE
      OBVIOUS
    <3>1. file'[j] = file[j]
      BY <1>4, <1>6, <2>1
    <3>2. j = k
      BY <1>1, <1>2, <3>1, CallFacts DEF Removed
    <3>3. call[c].op = "setRaw"
      BY <1>4, <1>6, <2>1, <3>2
    <3> QED
      BY <1>1, <1>2, <3>3, CallFacts DEF Removed
  <2>4. Served(r) /\ Guarded(r) /\ Wipes(r, scenario') /\ Removed(r, file')
    BY <1>1, <1>2, <2>3, CallFacts DEF Served, Guarded, Guarding, Wipes, Removed
  <2> QED
    BY <1>2, <2>2, <2>4 DEF SoundNext
<1>10. \A d \in Caller : call'[d] = IF d = c THEN r ELSE call[d]
  BY <1>1, CallFacts
<1>11. CallsInv'
  <2>1. call' = [d \in Caller |-> call'[d]]
    BY <1>1, CallFacts
  <2>2. \A d \in Caller : SoundNext(call'[d])
    BY <1>8, <1>9, <1>10
  <2>3. \A d \in Caller : call'[d].ver = call[d].ver
    BY <1>2, <1>10
  <2> QED
    BY <2>1, <2>2, <2>3 DEF Inv, CallsInv, Sound, SoundNext
<1>12. LockInv'
  BY <1>1, <1>2, <1>10 DEF Inv, LockInv
<1>13. BlobInv'
  BY <1>1, <1>2, <1>10 DEF Inv, BlobInv
<1> QED
  BY <1>7, <1>11, <1>12, <1>13 DEF Inv

\* A call that has written or removed its files goes on.
Late == {"index", "save", "evict", "splice", "saveLast", "return", "wipeBins", "reset",
         "known", "orphans", "orphanBins"}

LEMMA LateGoes ==
    ASSUME Inv, NEW c \in Caller, NEW r, call' = [call EXCEPT ![c] = r], IsCall(r),
           r.ver = call[c].ver, r.key = call[c].key, r.prior = call[c].prior,
           r.shun = call[c].shun, r.leader = call[c].leader,
           call[c].pc \in Late \cup {"slice"}, r.pc \in Late,
           r.pc \in {"wipeBins", "reset"} => call[c].pc = "wipeBins",
           Calm
    PROVE  Inv'
<1>1. Removed(call[c], file')
  BY OthersStay, CallFacts DEF Calm, SoundNext, Inv
<1>2. Served(r) /\ Guarded(r) /\ Removed(r, file')
  BY <1>1, CallFacts DEF Served, Guarded, Guarding, Removed, Late
<1> QED
  BY <1>2, Goes DEF Keyed, Late

LEMMA IndexKeeps ==
    ASSUME Inv, NEW c \in Caller, Index(c)
    PROVE  Inv'
<1> DEFINE r == [call[c] EXCEPT !.pc = "save", !.snap = Manifest]
<1>1. call[c].pc = "index" /\ call' = [call EXCEPT ![c] = r] /\ Calm
  BY CallFacts DEF Index, Calm
<1>2. /\ IsCall(r) /\ r.ver = call[c].ver /\ r.key = call[c].key /\ r.prior = call[c].prior
      /\ r.shun = call[c].shun /\ r.leader = call[c].leader /\ r.pc = "save"
  BY CallFacts DEF IsCall, Fields
<1> QED
  BY <1>1, <1>2, LateGoes DEF Late

LEMMA SaveKeeps ==
    ASSUME Inv, NEW c \in Caller, Save(c)
    PROVE  Inv'
<1> DEFINE pc == IF Excess = <<>> THEN "return" ELSE "evict"
           r == [call[c] EXCEPT !.pc = pc, !.todo = Excess]
<1>1. call[c].pc = "save" /\ call' = [call EXCEPT ![c] = r] /\ Calm
  BY CallFacts DEF Save, Calm
<1>2. pc \in {"return", "evict"}
  OBVIOUS
<1> HIDE DEF pc
<1>3. /\ IsCall(r) /\ r.ver = call[c].ver /\ r.key = call[c].key /\ r.prior = call[c].prior
      /\ r.shun = call[c].shun /\ r.leader = call[c].leader /\ r.pc = pc
  BY CallFacts DEF IsCall, Fields
<1> QED
  BY <1>1, <1>2, <1>3, LateGoes DEF Late

LEMMA EvictFileKeeps ==
    ASSUME Inv, NEW c \in Caller, EvictFile(c)
    PROVE  Inv'
<1> DEFINE r == [call[c] EXCEPT !.pc = "splice"]
<1>1. call[c].pc = "evict" /\ call' = [call EXCEPT ![c] = r] /\ Calm
  BY CallFacts DEF EvictFile, Calm
<1>2. /\ IsCall(r) /\ r.ver = call[c].ver /\ r.key = call[c].key /\ r.prior = call[c].prior
      /\ r.shun = call[c].shun /\ r.leader = call[c].leader /\ r.pc = "splice"
  BY CallFacts DEF IsCall, Fields
<1> QED
  BY <1>1, <1>2, LateGoes DEF Late

LEMMA EvictEntryKeeps ==
    ASSUME Inv, NEW c \in Caller, EvictEntry(c)
    PROVE  Inv'
<1> DEFINE rest == Tail(call[c].todo)
           pc == IF rest = <<>> THEN "saveLast" ELSE "evict"
           r == [call[c] EXCEPT !.todo = rest, !.snap = Manifest, !.pc = pc]
<1>1. call[c].pc = "splice" /\ call' = [call EXCEPT ![c] = r] /\ Calm
  BY CallFacts DEF EvictEntry, Calm
<1>2. pc \in {"saveLast", "evict"}
  OBVIOUS
<1> HIDE DEF pc, rest
<1>3. /\ IsCall(r) /\ r.ver = call[c].ver /\ r.key = call[c].key /\ r.prior = call[c].prior
      /\ r.shun = call[c].shun /\ r.leader = call[c].leader /\ r.pc = pc
  BY CallFacts DEF IsCall, Fields
<1> QED
  BY <1>1, <1>2, <1>3, LateGoes DEF Late

LEMMA SaveLastKeeps ==
    ASSUME Inv, NEW c \in Caller, SaveLast(c)
    PROVE  Inv'
<1> DEFINE pc == AfterPurge(c)
           r == [call[c] EXCEPT !.pc = pc]
<1>1. call[c].pc = "saveLast" /\ call' = [call EXCEPT ![c] = r] /\ Calm
  BY CallFacts DEF SaveLast, Calm
<1>2. pc \in {"known", "return"}
  BY DEF AfterPurge
<1> HIDE DEF pc
<1>3. /\ IsCall(r) /\ r.ver = call[c].ver /\ r.key = call[c].key /\ r.prior = call[c].prior
      /\ r.shun = call[c].shun /\ r.leader = call[c].leader /\ r.pc = pc
  BY CallFacts DEF IsCall, Fields
<1> QED
  BY <1>1, <1>2, <1>3, LateGoes DEF Late

\* What a call replaced is gone when it returns, and no file has it; its own
\* version may from now on be replaced.
LEMMA ReturnKeeps ==
    ASSUME Inv, NEW c \in Caller, Return(c)
    PROVE  Inv'
<1> DEFINE k == call[c].key
           v == call[c].ver
           prior == call[c].prior
<1>1. /\ call[c].pc = "return" /\ call' = [call EXCEPT ![c] = Idle]
      /\ gone' = gone \cup prior
      /\ returned' = IF v = 0 THEN returned ELSE [returned EXCEPT ![k] = @ \cup {v}]
      /\ UNCHANGED <<cacheVars, casVars, guardVars, clock, crashes, scenario>>
      /\ state' = "down" => state = "down"
  BY DEF Return, Settle
<1>2. /\ v \in Nat /\ v <= clock /\ prior \subseteq Some(returned)
      /\ v # 0 => /\ v >= 2 /\ k \in Key
                  /\ \A j \in Key : v \notin returned[j] /\ (file[j] = v => j = k)
  BY CallFacts DEF Versioned
<1>3. \A j \in Key : file[j] \notin prior
  BY <1>1, CallFacts DEF Removed
<1>4. Versions
  BY DEF Inv
<1>5. /\ returned' \in [Key -> SUBSET Nat]
      /\ \A j \in Key : \A w \in returned'[j] : w \in returned[j] \/ (v # 0 /\ j = k /\ w = v)
      /\ \A j \in Key : returned[j] \subseteq returned'[j]
  BY <1>1, <1>2, <1>4 DEF Versions
<1>6. Some(returned) \subseteq Some(returned')
  BY <1>5 DEF Some
<1>7. Versions'
  <2>1. gone' \subseteq Some(returned')
    BY <1>1, <1>2, <1>4, <1>6 DEF Versions
  <2>2. \A j, i \in Key : /\ file'[j] \in returned'[i] => j = i
                          /\ \A w \in returned'[j] : w \in returned'[i] => j = i
    BY <1>1, <1>2, <1>4, <1>5 DEF Versions
  <2>3. \A j \in Key : \A w \in returned'[j] : 2 <= w /\ w <= clock'
    BY <1>1, <1>2, <1>4, <1>5 DEF Versions
  <2> QED
    BY <1>1, <1>3, <1>4, <1>5, <2>1, <2>2, <2>3 DEF Versions
<1>8. ASSUME NEW d \in Caller, d # c
      PROVE  SoundNext(call[d])
  <2>1. call[d].ver # 0 => call[d].ver # v
    BY <1>8 DEF Inv, CallsInv
  <2>2. Versioned(call[d], clock', file', returned', gone')
    BY <1>1, <1>5, <1>6, <2>1, CallFacts DEF Versioned
  <2> QED
    BY <1>1, <2>2, CallFacts DEF SoundNext
<1>9. /\ IsCall(Idle) /\ Idle.pc = "idle" /\ Idle.ver = 0 /\ ~Idle.leader
      /\ Idle.prior = {} /\ Idle.shun = {}
  BY DEF Idle, IsCall, Fields
<1>10. SoundNext(Idle)
  <2>1. Served(Idle) /\ Guarded(Idle) /\ Wipes(Idle, scenario') /\ Removed(Idle, file')
    BY <1>9 DEF Served, Guarded, Guarding, Wipes, Removed
  <2>2. Versioned(Idle, clock', file', returned', gone')
    BY <1>1, <1>9, CallFacts DEF Versioned, Keyed
  <2> QED
    BY <1>9, <2>1, <2>2 DEF SoundNext
<1>11. \A d \in Caller : call'[d] = IF d = c THEN Idle ELSE call[d]
  BY <1>1, CallFacts
<1>12. CallsInv'
  <2>1. call' = [d \in Caller |-> call'[d]]
    BY <1>1, CallFacts
  <2>2. \A d \in Caller : SoundNext(call'[d])
    BY <1>8, <1>10, <1>11
  <2>3. \A d, e \in Caller : call'[d].ver # 0 /\ call'[d].ver = call'[e].ver => d = e
    BY <1>9, <1>11 DEF Inv, CallsInv
  <2> QED
    BY <2>1, <2>2, <2>3 DEF CallsInv, Sound, SoundNext
<1>13. LockInv'
  BY <1>1, <1>9, <1>11 DEF Inv, LockInv
<1>14. BlobInv'
  <2>1. ASSUME NEW d \in Caller, call[d].pc \in {"ref", "unblob"}
        PROVE  call'[d] = call[d]
    BY <1>1, <1>11, <2>1
  <2> QED
    BY <1>1, <2>1 DEF Inv, BlobInv
<1> QED
  BY <1>7, <1>12, <1>13, <1>14 DEF Inv

-----------------------------------------------------------------------------
(* invalidate, invalidateLayer, invalidateResource, clearExpired, clearAll, *)
(* cleanup                                                                  *)

LEMMA InvalidateKeeps ==
    ASSUME Inv, NEW c \in Caller, NEW k \in Key, Invalidate(c, k)
    PROVE  Inv'
<1> DEFINE r == [call[c] EXCEPT !.op = "invalidate", !.key = k, !.idx = Find(k),
                                !.prior = returned[k], !.pc = "inv"]
<1>1. call[c].pc = "idle" /\ call' = [call EXCEPT ![c] = r] /\ Calm
      /\ UNCHANGED <<file, clock>>
  BY CallFacts DEF Invalidate, Calm
<1>2. /\ IsCall(r) /\ r.ver = 0 /\ r.key = k /\ r.prior = returned[k]
      /\ r.shun = call[c].shun /\ r.leader = call[c].leader /\ r.pc = "inv"
  BY <1>1, CallFacts DEF IsCall, Fields, Versioned
<1> HIDE DEF r
<1>3. Served(r) /\ Guarded(r) /\ Wipes(r, scenario')
  BY <1>1, <1>2, CallFacts DEF Served, Guarded, Guarding, Wipes
<1>4. Versioned(r, clock', file', returned', gone')
  BY <1>1, <1>2, CallFacts DEF Versioned, Keyed, Some, Calm
<1>5. Removed(r, file')
  BY <1>1, <1>2 DEF Removed, Inv, Versions
<1>6. SoundNext(r) /\ clock \in Nat /\ ~r.leader
  BY <1>1, <1>2, <1>3, <1>4, <1>5, CallFacts DEF SoundNext, Guarded, Guarding
<1>7. /\ call[c].pc \notin {"ref", "unblob"}
      /\ r.ver \in {0, call[c].ver, clock + 1}
      /\ r.ver = clock + 1 => clock' = clock + 1
      /\ r.leader => call[c].leader
  BY <1>1, <1>2, <1>6
<1> QED
  BY <1>1, <1>6, <1>7, Step

LEMMA InvalidateFileKeeps ==
    ASSUME Inv, NEW c \in Caller, InvalidateFile(c)
    PROVE  Inv'
<1> DEFINE r == [call[c] EXCEPT !.pc = "slice"]
<1>1. call[c].pc = "inv" /\ call' = [call EXCEPT ![c] = r] /\ Calm
  BY CallFacts DEF InvalidateFile, Calm
<1>2. /\ IsCall(r) /\ r.ver = call[c].ver /\ r.key = call[c].key /\ r.prior = call[c].prior
      /\ r.shun = call[c].shun /\ r.leader = call[c].leader /\ r.pc = "slice"
  BY CallFacts DEF IsCall, Fields
<1>3. call[c].key \in Key /\ file' = [file EXCEPT ![call[c].key] = 0]
  BY <1>1, CallFacts DEF InvalidateFile, Versioned, Keyed
<1>4. 0 \notin call[c].prior
  BY CallFacts DEF Versioned, Some, Inv, Versions
<1> HIDE DEF r
<1>5. \A k \in Key : file'[k] \notin r.prior
  BY <1>1, <1>2, <1>3, <1>4, CallFacts DEF Removed
<1>6. Served(r) /\ Guarded(r) /\ Removed(r, file')
  BY <1>1, <1>2, <1>5, CallFacts DEF Served, Guarded, Guarding, Removed
<1> QED
  BY <1>1, <1>2, <1>6, Goes DEF Keyed

LEMMA InvalidateEntryKeeps ==
    ASSUME Inv, NEW c \in Caller, InvalidateEntry(c)
    PROVE  Inv'
<1> DEFINE r == [call[c] EXCEPT !.pc = "saveLast", !.snap = Manifest]
<1>1. call[c].pc = "slice" /\ call' = [call EXCEPT ![c] = r] /\ Calm
  BY CallFacts DEF InvalidateEntry, Calm
<1>2. /\ IsCall(r) /\ r.ver = call[c].ver /\ r.key = call[c].key /\ r.prior = call[c].prior
      /\ r.shun = call[c].shun /\ r.leader = call[c].leader /\ r.pc = "saveLast"
  BY CallFacts DEF IsCall, Fields
<1> QED
  BY <1>1, <1>2, LateGoes DEF Late

\* What has returned of the keys of some entries is in the files of those keys
\* only.
LEMMA PriorIsOfKeys ==
    ASSUME Versions, NEW matched
    PROVE  LET prior == UNION {returned[k] : k \in KeysOf(matched)}
           IN  /\ prior \subseteq Some(returned)
               /\ \A k \in Key : file[k] \in prior => k \in KeysOf(matched)
<1>1. KeysOf(matched) \subseteq Key
  BY DEF KeysOf
<1> QED
  BY <1>1 DEF Some, Versions

LEMMA StartPurgeKeeps ==
    ASSUME Inv, NEW c \in Caller, NEW op, NEW matched, NEW keys, NEW prior,
           StartPurge(c, op, matched, keys, prior), call[c].pc = "idle",
           prior \subseteq Some(returned),
           \A k \in Key : file[k] \in prior => k \in KeysOf(matched),
           Calm, UNCHANGED <<file, clock>>
    PROVE  Inv'
<1> DEFINE files == KeysOf(matched)
           r == [call[c] EXCEPT !.op = op, !.files = files, !.keys = keys,
                                !.prior = prior, !.pc = "purge"]
<1>1. call' = [call EXCEPT ![c] = r]
  BY DEF StartPurge
<1> HIDE DEF files
<1>2. /\ IsCall(r) /\ r.ver = 0 /\ r.prior = prior /\ r.files = files
      /\ r.shun = call[c].shun /\ r.leader = call[c].leader /\ r.pc = "purge"
  BY CallFacts DEF IsCall, Fields, Versioned
<1> HIDE DEF r
<1>3. Served(r) /\ Guarded(r) /\ Wipes(r, scenario')
  BY <1>2, CallFacts DEF Served, Guarded, Guarding, Wipes
<1>4. Versioned(r, clock', file', returned', gone')
  BY <1>2, CallFacts DEF Versioned, Keyed, Calm
<1>5. Removed(r, file')
  BY <1>2 DEF Removed, files
<1>6. SoundNext(r) /\ clock \in Nat /\ ~r.leader
  BY <1>2, <1>3, <1>4, <1>5, CallFacts DEF SoundNext, Guarded, Guarding
<1>7. /\ call[c].pc \notin {"ref", "unblob"}
      /\ r.ver \in {0, call[c].ver, clock + 1}
      /\ r.ver = clock + 1 => clock' = clock + 1
      /\ r.leader => call[c].leader
  BY <1>2, <1>6
<1> QED
  BY <1>1, <1>6, <1>7, Step

LEMMA BeginPurgeKeeps ==
    ASSUME Inv, NEW c \in Caller,
           \/ InvalidateLayer(c) \/ ClearExpired(c) \/ Cleanup(c)
           \/ \E k \in Key : InvalidateResource(c, k)
    PROVE  Inv'
<1>1. call[c].pc = "idle" /\ Calm /\ UNCHANGED <<file, clock>>
  BY CallFacts DEF InvalidateLayer, ClearExpired, Cleanup, InvalidateResource, Calm
<1>2. \E op \in Op : \E matched, keys :
         \/ StartPurge(c, op, matched, keys, {})
         \/ StartPurge(c, op, matched, keys, UNION {returned[k] : k \in KeysOf(matched)})
  BY DEF InvalidateLayer, ClearExpired, Cleanup, InvalidateResource, Op
<1>3. PICK op \in Op : \E matched, keys :
         \/ StartPurge(c, op, matched, keys, {})
         \/ StartPurge(c, op, matched, keys, UNION {returned[k] : k \in KeysOf(matched)})
  BY <1>2
<1>4. PICK matched, keys :
         \/ StartPurge(c, op, matched, keys, {})
         \/ StartPurge(c, op, matched, keys, UNION {returned[k] : k \in KeysOf(matched)})
  BY <1>3
<1>5. CASE StartPurge(c, op, matched, keys, {})
  BY <1>1, <1>5, StartPurgeKeeps
<1>6. CASE StartPurge(c, op, matched, keys, UNION {returned[k] : k \in KeysOf(matched)})
  <2> DEFINE prior == UNION {returned[k] : k \in KeysOf(matched)}
  <2>1. /\ prior \subseteq Some(returned)
        /\ \A k \in Key : file[k] \in prior => k \in KeysOf(matched)
    BY PriorIsOfKeys DEF Inv
  <2> HIDE DEF prior
  <2>2. StartPurge(c, op, matched, keys, prior)
    BY <1>6 DEF prior
  <2> QED
    BY <1>1, <2>1, <2>2, StartPurgeKeeps
<1> QED
  BY <1>4, <1>5, <1>6

LEMMA PurgeFileKeeps ==
    ASSUME Inv, NEW c \in Caller, PurgeFile(c)
    PROVE  Inv'
<1>1. PICK k \in call[c].files :
         /\ file' = [file EXCEPT ![k] = 0]
         /\ call' = [call EXCEPT ![c].files = @ \ {k}]
  BY DEF PurgeFile
<1> DEFINE files == call[c].files \ {k}
           r == [call[c] EXCEPT !.files = files]
<1>2. call[c].pc = "purge" /\ call' = [call EXCEPT ![c] = r] /\ Calm
  BY <1>1, CallFacts DEF PurgeFile, Calm
<1> HIDE DEF files
<1>3. /\ IsCall(r) /\ r.ver = call[c].ver /\ r.key = call[c].key /\ r.prior = call[c].prior
      /\ r.shun = call[c].shun /\ r.leader = call[c].leader /\ r.pc = "purge"
      /\ r.files = files
  BY <1>2, CallFacts DEF IsCall, Fields
<1>4. 0 \notin call[c].prior
  BY CallFacts DEF Versioned, Some, Inv, Versions
<1> HIDE DEF r
<1>5. \A j \in Key : file'[j] \in r.prior => j \in files
  BY <1>1, <1>2, <1>3, <1>4, CallFacts DEF Removed, files
<1>6. Served(r) /\ Guarded(r) /\ Removed(r, file')
  BY <1>2, <1>3, <1>5, CallFacts DEF Served, Guarded, Guarding, Removed
<1> QED
  BY <1>2, <1>3, <1>6, Goes DEF Keyed

LEMMA PurgeEntriesKeeps ==
    ASSUME Inv, NEW c \in Caller, PurgeEntries(c)
    PROVE  Inv'
<1> DEFINE pc == IF call[c].op \in {"clearExpired", "cleanup", "initialize"}
                    /\ call[c].keys = {}
                 THEN AfterPurge(c) ELSE "saveLast"
           r == [call[c] EXCEPT !.snap = Manifest, !.pc = pc]
<1>1. /\ call[c].pc = "purge" /\ call[c].files = {} /\ call' = [call EXCEPT ![c] = r] /\ Calm
      /\ UNCHANGED file
  BY CallFacts DEF PurgeEntries, Calm
<1>2. pc \in {"known", "return", "saveLast"}
  BY DEF AfterPurge
<1> HIDE DEF pc
<1>3. /\ IsCall(r) /\ r.ver = call[c].ver /\ r.key = call[c].key /\ r.prior = call[c].prior
      /\ r.shun = call[c].shun /\ r.leader = call[c].leader /\ r.pc = pc
  BY CallFacts DEF IsCall, Fields
<1> HIDE DEF r
<1>4. Served(r) /\ Guarded(r) /\ Removed(r, file')
  BY <1>1, <1>2, <1>3, CallFacts DEF Served, Guarded, Guarding, Removed
<1> QED
  BY <1>1, <1>2, <1>3, <1>4, Goes DEF Keyed

\* A call that has begun with what it replaces, and has a place of its own for
\* everything else.
LEMMA BeginKeeps ==
    ASSUME Inv, NEW c \in Caller, NEW r, call' = [call EXCEPT ![c] = r], IsCall(r),
           call[c].pc = "idle", r.ver = call[c].ver, r.shun = call[c].shun,
           r.leader = call[c].leader,
           r.prior \subseteq Some(returned), Removed(r, file),
           r.pc \in {"wipe", "saveLast"},
           r.pc = "wipe" => "clearAll" \in scenario.ops,
           Calm, UNCHANGED file
    PROVE  Inv'
<1>1. r.ver = 0 /\ ~r.leader
  BY CallFacts DEF Versioned, Guarded, Guarding
<1>2. Served(r) /\ Guarded(r) /\ Wipes(r, scenario')
  BY <1>1, CallFacts DEF Served, Guarded, Guarding, Wipes, Calm
<1>3. Versioned(r, clock', file', returned', gone')
  BY <1>1, CallFacts DEF Versioned, Keyed, Calm
<1>4. SoundNext(r)
  BY <1>2, <1>3 DEF SoundNext
<1>5. /\ call[c].pc \notin {"ref", "unblob"}
      /\ r.ver \in {0, call[c].ver, clock + 1}
      /\ r.ver = clock + 1 => clock' = clock + 1
      /\ r.leader => call[c].leader
  BY <1>1, CallFacts
<1> QED
  BY <1>4, <1>5, Step

LEMMA ClearAllKeeps ==
    ASSUME Inv, NEW c \in Caller, ClearAll(c)
    PROVE  Inv'
<1> DEFINE prior == UNION {returned[k] : k \in Key}
           r == [call[c] EXCEPT !.op = "clearAll", !.pc = "wipe", !.prior = prior]
<1>1. /\ call[c].pc = "idle" /\ call' = [call EXCEPT ![c] = r] /\ Calm /\ UNCHANGED file
      /\ "clearAll" \in scenario.ops
  BY CallFacts DEF ClearAll, Calm
<1>2. prior = Some(returned)
  BY DEF Some
<1> HIDE DEF prior
<1>3. /\ IsCall(r) /\ r.ver = call[c].ver /\ r.prior = prior
      /\ r.shun = call[c].shun /\ r.leader = call[c].leader /\ r.pc = "wipe"
  BY <1>1, CallFacts DEF IsCall, Fields
<1> HIDE DEF r
<1>4. Removed(r, file)
  BY <1>3 DEF Removed
<1> QED
  BY <1>1, <1>2, <1>3, <1>4, BeginKeeps

LEMMA FlushKeeps ==
    ASSUME Inv, NEW c \in Caller, Flush(c)
    PROVE  Inv'
<1> DEFINE r == [call[c] EXCEPT !.op = "flush", !.pc = "saveLast",
                                !.snap = [entries |-> entries, refs |-> cas]]
<1>1. call[c].pc = "idle" /\ call' = [call EXCEPT ![c] = r] /\ Calm /\ UNCHANGED file
  BY CallFacts DEF Flush, Calm
<1>2. /\ IsCall(r) /\ r.ver = call[c].ver /\ r.prior = call[c].prior
      /\ r.shun = call[c].shun /\ r.leader = call[c].leader /\ r.pc = "saveLast"
  BY <1>1, CallFacts DEF IsCall, Fields
<1> HIDE DEF r
<1>3. Removed(r, file) /\ r.prior \subseteq Some(returned)
  BY <1>1, <1>2, CallFacts DEF Removed, Versioned
<1> QED
  BY <1>1, <1>2, <1>3, BeginKeeps

LEMMA WipeKeeps ==
    ASSUME Inv, NEW c \in Caller, WipeFiles(c) \/ WipeBins(c)
    PROVE  Inv'
<1> DEFINE pc == IF call[c].pc = "wipe" THEN "wipeBins" ELSE "reset"
           r == [call[c] EXCEPT !.pc = pc]
<1>1. /\ call[c].pc \in {"wipe", "wipeBins"} /\ call' = [call EXCEPT ![c] = r] /\ Calm
      /\ call[c].pc = "wipe" => file' = [k \in Key |-> 0]
  BY CallFacts DEF WipeFiles, WipeBins, Calm
<1>2. pc \in {"wipeBins", "reset"}
  OBVIOUS
<1> HIDE DEF pc
<1>3. /\ IsCall(r) /\ r.ver = call[c].ver /\ r.key = call[c].key /\ r.prior = call[c].prior
      /\ r.shun = call[c].shun /\ r.leader = call[c].leader /\ r.pc = pc
  BY CallFacts DEF IsCall, Fields
<1> HIDE DEF r
<1>4. 0 \notin call[c].prior
  BY CallFacts DEF Versioned, Some, Inv, Versions
<1>5. Removed(call[c], file')
  BY OthersStay, CallFacts, <1>1 DEF Calm, SoundNext, Inv
<1>6. Served(r) /\ Guarded(r) /\ Removed(r, file')
  BY <1>1, <1>2, <1>3, <1>4, <1>5, CallFacts DEF Served, Guarded, Guarding, Removed
<1> QED
  BY <1>1, <1>2, <1>3, <1>6, Goes DEF Keyed

LEMMA ResetKeeps ==
    ASSUME Inv, NEW c \in Caller, Reset(c)
    PROVE  Inv'
<1> DEFINE r == [call[c] EXCEPT !.pc = "saveLast", !.snap = [entries |-> <<>>, refs |-> refs']]
<1>1. call[c].pc = "reset" /\ call' = [call EXCEPT ![c] = r]
  BY CallFacts DEF Reset
<1>2. "clearAll" \in scenario.ops
  BY <1>1, CallFacts DEF Wipes
<1>3. Calm
  BY <1>2, CallFacts DEF Reset, Calm
<1>4. /\ IsCall(r) /\ r.ver = call[c].ver /\ r.key = call[c].key /\ r.prior = call[c].prior
      /\ r.shun = call[c].shun /\ r.leader = call[c].leader /\ r.pc = "saveLast"
  BY CallFacts DEF IsCall, Fields
<1> QED
  BY <1>1, <1>3, <1>4, LateGoes DEF Late

\* What cleanup removes is known to no entry; its own entries it looked up
\* before.
LEMMA CleanupKeeps ==
    ASSUME Inv, NEW c \in Caller, Known(c) \/ Orphans(c) \/ OrphanBins(c)
    PROVE  Inv'
<1>1. CASE Known(c)
  <2> DEFINE keys == KeysOf(entries)
             blob == {b \in Blob : refs[b] # NoRef}
             r == [call[c] EXCEPT !.pc = "orphans", !.keys = keys, !.blob = blob]
  <2>1. call[c].pc = "known" /\ call' = [call EXCEPT ![c] = r] /\ Calm
    BY <1>1, CallFacts DEF Known, Calm
  <2> HIDE DEF keys, blob
  <2>2. /\ IsCall(r) /\ r.ver = call[c].ver /\ r.key = call[c].key /\ r.prior = call[c].prior
        /\ r.shun = call[c].shun /\ r.leader = call[c].leader /\ r.pc = "orphans"
    BY CallFacts DEF IsCall, Fields
  <2> QED
    BY <2>1, <2>2, LateGoes DEF Late
<1>2. CASE Orphans(c) \/ OrphanBins(c)
  <2> DEFINE pc == IF call[c].pc = "orphans" THEN "orphanBins" ELSE "return"
             r == [call[c] EXCEPT !.pc = pc]
  <2>1. /\ call[c].pc \in {"orphans", "orphanBins"} /\ call' = [call EXCEPT ![c] = r] /\ Calm
    BY <1>2, CallFacts DEF Orphans, OrphanBins, Calm
  <2>2. pc \in {"orphanBins", "return"}
    OBVIOUS
  <2> HIDE DEF pc
  <2>3. /\ IsCall(r) /\ r.ver = call[c].ver /\ r.key = call[c].key /\ r.prior = call[c].prior
        /\ r.shun = call[c].shun /\ r.leader = call[c].leader /\ r.pc = pc
    BY CallFacts DEF IsCall, Fields
  <2> QED
    BY <2>1, <2>2, <2>3, LateGoes DEF Late
<1> QED
  BY <1>1, <1>2

-----------------------------------------------------------------------------
(* The guard of getOrSet *)

\* A step that changes who has the lock and nothing but a call with it.
LEMMA GuardStep ==
    ASSUME Inv, NEW c \in Caller, NEW r, call' = [call EXCEPT ![c] = r], IsCall(r),
           r.ver = call[c].ver, r.key = call[c].key, r.prior = call[c].prior,
           r.shun = call[c].shun,
           call[c].pc \in {"lock", "fill", "seize", "poll", "factory", "unlock"},
           r.pc \in {"fill", "seize", "poll", "recheck", "factory", "unlock", "after", "return"},
           Guarded(r), LockInv',
           UNCHANGED <<cacheVars, casVars, bounds, history, clock>>
    PROVE  Inv'
<1>1. r.ver = 0 /\ call[c].key \in Key
  BY CallFacts DEF Versioned, Keyed
<1>2. SoundNext(r)
  <2>1. Served(r) /\ Wipes(r, scenario') /\ Removed(r, file')
    BY CallFacts DEF Served, Wipes, Removed
  <2>2. Versioned(r, clock', file', returned', gone')
    BY <1>1, CallFacts DEF Versioned, Keyed
  <2> QED
    BY <2>1, <2>2 DEF SoundNext
<1>3. \A d : Sound(d) => SoundNext(d)
  BY DEF Sound, SoundNext
<1>4. CallsInv'
  BY <1>1, <1>2, <1>3, OneCall DEF Inv
<1>5. \A d \in Caller : call'[d] = IF d = c THEN r ELSE call[d]
  BY CallFacts
<1>6. BlobInv'
  <2>1. ASSUME NEW d \in Caller, call[d].pc \in {"ref", "unblob"}
        PROVE  call'[d] = call[d]
    BY <1>5, <2>1
  <2> QED
    BY <2>1 DEF Inv, BlobInv
<1>7. Versions'
  BY DEF Inv, Versions
<1> QED
  BY <1>4, <1>6, <1>7 DEF Inv

\* The lock is made by a caller that finds none: no one else is inside.
LEMMA CreateLockKeeps ==
    ASSUME Inv, NEW c \in Caller, CreateLock(c)
    PROVE  Inv'
<1> DEFINE r == [call[c] EXCEPT !.leader = TRUE, !.pc = "fill"]
<1>1. /\ call[c].pc = "lock" /\ call' = [call EXCEPT ![c] = r]
      /\ lock = "absent" /\ lock' = "empty"
      /\ UNCHANGED <<cacheVars, casVars, seized, bounds, history, clock>>
  BY CallFacts DEF CreateLock, Lead
<1>2. /\ IsCall(r) /\ r.ver = call[c].ver /\ r.key = call[c].key /\ r.prior = call[c].prior
      /\ r.shun = call[c].shun /\ r.leader /\ r.pc = "fill"
  BY CallFacts DEF IsCall, Fields
<1> HIDE DEF r
<1>3. \A d \in Caller : call'[d] = IF d = c THEN r ELSE call[d]
  BY <1>1, CallFacts
<1>4. LockInv'
  BY <1>1, <1>2, <1>3 DEF Inv, LockInv
<1>5. Guarded(r)
  BY <1>2 DEF Guarded, Guarding
<1> QED
  BY <1>1, <1>2, <1>4, <1>5, GuardStep

\* A caller inside the guard goes on, or one outside meets the lock.
LEMMA AtTheGuardKeeps ==
    ASSUME Inv, NEW c \in Caller,
           MeetLock(c) \/ FillLock(c) \/ PollEnds(c)
    PROVE  Inv'
<1> DEFINE pc == IF call[c].pc = "lock" THEN IF lock = "old" THEN "seize" ELSE "poll"
                 ELSE "recheck"
           r == [call[c] EXCEPT !.pc = pc]
<1>1. /\ call[c].pc \in {"lock", "fill", "poll"} /\ call' = [call EXCEPT ![c] = r]
      /\ UNCHANGED <<cacheVars, casVars, seized, bounds, history, clock>>
      /\ lock' = lock \/ lock' = "held"
  BY CallFacts DEF MeetLock, FillLock, PollEnds
<1>2. pc \in {"seize", "poll", "recheck"} /\ (call[c].pc \in {"fill", "poll"} => pc = "recheck")
  OBVIOUS
<1> HIDE DEF pc
<1>3. /\ IsCall(r) /\ r.ver = call[c].ver /\ r.key = call[c].key /\ r.prior = call[c].prior
      /\ r.shun = call[c].shun /\ r.leader = call[c].leader /\ r.pc = pc
  BY CallFacts DEF IsCall, Fields
<1> HIDE DEF r
<1>4. \A d \in Caller : call'[d].leader = call[d].leader
  BY <1>1, <1>3, CallFacts
<1>5. LockInv'
  BY <1>1, <1>4 DEF Inv, LockInv
<1>6. Guarded(r)
  BY <1>1, <1>2, <1>3, CallFacts DEF Guarded, Guarding
<1> QED
  BY <1>1, <1>2, <1>3, <1>5, <1>6, GuardStep

LEMMA SeizeLockKeeps ==
    ASSUME Inv, NEW c \in Caller, SeizeLock(c)
    PROVE  Inv'
<1> DEFINE r == [call[c] EXCEPT !.leader = TRUE, !.pc = "recheck"]
<1>1. /\ call[c].pc = "seize" /\ call' = [call EXCEPT ![c] = r] /\ seized' = TRUE
      /\ UNCHANGED <<cacheVars, casVars, bounds, history, clock>>
  BY CallFacts DEF SeizeLock
<1>2. /\ IsCall(r) /\ r.ver = call[c].ver /\ r.key = call[c].key /\ r.prior = call[c].prior
      /\ r.shun = call[c].shun /\ r.leader /\ r.pc = "recheck"
  BY CallFacts DEF IsCall, Fields
<1> HIDE DEF r
<1>3. LockInv' /\ Guarded(r)
  BY <1>1, <1>2 DEF LockInv, Guarded, Guarding
<1> QED
  BY <1>1, <1>2, <1>3, GuardStep

LEMMA FactoryKeeps ==
    ASSUME Inv, NEW c \in Caller, Factory(c)
    PROVE  Inv'
<1>1. PICK next \in {"after", "return"} :
         call' = [call EXCEPT ![c].stage = next,
                              ![c].pc = IF call[c].leader THEN "unlock" ELSE next]
  BY DEF Factory
<1> DEFINE pc == IF call[c].leader THEN "unlock" ELSE next
           r == [call[c] EXCEPT !.stage = next, !.pc = pc]
<1>2. /\ call[c].pc = "factory" /\ call' = [call EXCEPT ![c] = r]
      /\ UNCHANGED <<cacheVars, casVars, guardVars, bounds, history, clock>>
  BY <1>1, CallFacts DEF Factory
<1>3. pc \in {"unlock", "after", "return"} /\ (pc = "unlock" <=> call[c].leader)
  OBVIOUS
<1> HIDE DEF pc
<1>4. /\ IsCall(r) /\ r.ver = call[c].ver /\ r.key = call[c].key /\ r.prior = call[c].prior
      /\ r.shun = call[c].shun /\ r.leader = call[c].leader /\ r.pc = pc
  BY CallFacts DEF IsCall, Fields
<1> HIDE DEF r
<1>5. \A d \in Caller : call'[d].leader = call[d].leader
  BY <1>2, <1>4, CallFacts
<1>6. LockInv'
  BY <1>2, <1>5 DEF Inv, LockInv
<1>7. Guarded(r)
  BY <1>2, <1>3, <1>4 DEF Guarded, Guarding
<1> QED
  BY <1>2, <1>3, <1>4, <1>6, <1>7, GuardStep

\* The one who gives the lock back is the only one who was inside.
LEMMA UnlockKeeps ==
    ASSUME Inv, NEW c \in Caller, Unlock(c)
    PROVE  Inv'
<1> DEFINE pc == IF call[c].stage = "return" THEN "return" ELSE "after"
           r == [call[c] EXCEPT !.leader = FALSE, !.pc = pc]
<1>1. /\ call[c].pc = "unlock" /\ call' = [call EXCEPT ![c] = r]
      /\ UNCHANGED <<cacheVars, casVars, seized, bounds, history, clock>>
  BY CallFacts DEF Unlock
<1>2. pc \in {"return", "after"}
  OBVIOUS
<1> HIDE DEF pc
<1>3. /\ IsCall(r) /\ r.ver = call[c].ver /\ r.key = call[c].key /\ r.prior = call[c].prior
      /\ r.shun = call[c].shun /\ r.leader = FALSE /\ r.pc = pc
  BY CallFacts DEF IsCall, Fields
<1> HIDE DEF r
<1>4. \A d \in Caller : call'[d] = IF d = c THEN r ELSE call[d]
  BY <1>1, CallFacts
<1>5. call[c].leader
  BY <1>1, CallFacts DEF Guarded
<1>6. LockInv'
  BY <1>1, <1>3, <1>4, <1>5 DEF Inv, LockInv
<1>7. Guarded(r)
  BY <1>2, <1>3 DEF Guarded, Guarding
<1> QED
  BY <1>1, <1>2, <1>3, <1>6, <1>7, GuardStep

\* What the calls do not take part in, and changes nothing that the invariant
\* is about.
LEMMA AsideKeeps ==
    ASSUME Inv, UNCHANGED <<call, file, refs, holders, bin, crashes, state, scenario,
                            history, clock, seized>>,
           lock = "absent" \/ lock' # "absent"
    PROVE  Inv'
<1>1. \A d : Sound(d) => SoundNext(d)
  BY DEF Sound, SoundNext
<1>2. CallsInv'
  BY <1>1 DEF Inv, CallsInv, Sound, SoundNext
<1>3. Versions' /\ LockInv' /\ BlobInv'
  BY DEF Inv, Versions, LockInv, BlobInv
<1> QED
  BY <1>2, <1>3 DEF Inv

LEMMA TimeKeeps ==
    ASSUME Inv, \/ TimerFires \/ TimerSaves \/ LockAges
                \/ \E v \in DOMAIN life : Ages(v)
                \/ \E k \in Key : Forget(k)
    PROVE  Inv'
<1>1. /\ UNCHANGED <<call, file, refs, holders, bin, crashes, state, scenario,
                     history, clock, seized>>
      /\ lock = "absent" \/ lock' # "absent"
  BY DEF TimerFires, TimerSaves, LockAges, Ages, Forget
<1> QED
  BY <1>1, AsideKeeps

-----------------------------------------------------------------------------
(* The content-addressable store *)

\* A step that changes the contents and nothing but a call with them.
LEMMA BlobStep ==
    ASSUME Inv, NEW c \in Caller, NEW r, call' = [call EXCEPT ![c] = r], IsCall(r),
           r.ver = call[c].ver, r.ver = 0, r.prior = call[c].prior, r.shun = call[c].shun,
           r.leader = call[c].leader, Guarded(r),
           call[c].pc \in {"idle", "blob", "ref", "unblob"},
           r.pc \in {"idle", "blob", "ref", "unblob"},
           r.pc = "blob" => r.blob \subseteq Blob,
           UNCHANGED <<file, clock, history, guardVars, scenario>>, BlobInv'
    PROVE  Inv'
<1>1. SoundNext(r)
  <2>1. Served(r) /\ Wipes(r, scenario') /\ Removed(r, file')
    BY CallFacts DEF Served, Wipes, Removed
  <2>2. Versioned(r, clock', file', returned', gone')
    BY CallFacts DEF Versioned, Keyed
  <2> QED
    BY <2>1, <2>2 DEF SoundNext
<1>2. \A d : Sound(d) => SoundNext(d)
  BY DEF Sound, SoundNext
<1>3. CallsInv'
  BY <1>1, <1>2, OneCall DEF Inv
<1>4. \A d \in Caller : call'[d] = IF d = c THEN r ELSE call[d]
  BY CallFacts
<1>5. LockInv' /\ Versions'
  BY <1>4 DEF Inv, LockInv, Versions
<1> QED
  BY <1>3, <1>5 DEF Inv

\* ... that ends with it.
LEMMA Returns ==
    ASSUME Inv, NEW c \in Caller, call' = [call EXCEPT ![c] = Idle],
           UNCHANGED <<file, clock, history, guardVars, scenario>>, BlobInv'
    PROVE  Inv'
<1>1. /\ IsCall(Idle) /\ Idle.pc = "idle" /\ Idle.ver = 0 /\ Idle.leader = FALSE
      /\ Idle.prior = {} /\ Idle.shun = {}
  BY DEF Idle, IsCall, Fields
<1>2. SoundNext(Idle)
  <2>1. Served(Idle) /\ Guarded(Idle) /\ Wipes(Idle, scenario') /\ Removed(Idle, file')
    BY <1>1 DEF Served, Guarded, Guarding, Wipes, Removed
  <2>2. Versioned(Idle, clock', file', returned', gone')
    BY <1>1, CallFacts DEF Versioned, Keyed
  <2> QED
    BY <1>1, <2>1, <2>2 DEF SoundNext
<1>3. \A d : Sound(d) => SoundNext(d)
  BY DEF Sound, SoundNext
<1>4. CallsInv'
  BY <1>1, <1>2, <1>3, OneCall DEF Inv
<1>5. \A d \in Caller : call'[d] = IF d = c THEN Idle ELSE call[d]
  BY CallFacts
<1>6. LockInv' /\ Versions'
  BY <1>1, <1>5 DEF Inv, LockInv, Versions
<1> QED
  BY <1>4, <1>6 DEF Inv

\* ... in which no call takes part.
LEMMA CountStep ==
    ASSUME Inv, UNCHANGED <<call, file, clock, history, guardVars, scenario>>, BlobInv'
    PROVE  Inv'
<1>1. \A d : Sound(d) => SoundNext(d)
  BY DEF Sound, SoundNext
<1>2. CallsInv'
  BY <1>1 DEF Inv, CallsInv, Sound, SoundNext
<1>3. LockInv' /\ Versions'
  BY DEF Inv, LockInv, Versions
<1> QED
  BY <1>2, <1>3 DEF Inv

LEMMA StoreKeeps ==
    ASSUME Inv, NEW c \in Caller, NEW b \in Blob, Store(c, b)
    PROVE  Inv'
<1>1. /\ call[c].pc = "idle"
      /\ UNCHANGED <<file, clock, history, guardVars, scenario, crashes, state, bin>>
  BY DEF Store
<1>2. CASE refs[b] # NoRef
  <2>1. /\ UNCHANGED call
        /\ refs' = [refs EXCEPT ![b] = @ + 1]
        /\ holders' = [holders EXCEPT ![b] = @ + 1]
    BY <1>2 DEF Store
  <2>2. BlobInv'
    BY <1>1, <1>2, <2>1 DEF Inv, BlobInv
  <2> QED
    BY <1>1, <2>1, <2>2, CountStep
<1>3. CASE refs[b] = NoRef
  <2> DEFINE r == [call[c] EXCEPT !.op = "store", !.pc = "blob", !.blob = {b}]
  <2>1. call' = [call EXCEPT ![c] = r] /\ UNCHANGED <<refs, holders>>
    BY <1>3, CallFacts DEF Store
  <2>2. /\ IsCall(r) /\ r.ver = call[c].ver /\ r.prior = call[c].prior
        /\ r.shun = call[c].shun /\ r.leader = call[c].leader /\ r.pc = "blob"
        /\ r.blob = {b}
    BY CallFacts DEF IsCall, Fields
  <2> HIDE DEF r
  <2>3. \A d \in Caller : d # c => call'[d] = call[d]
    BY <2>1, CallFacts
  <2>4. BlobInv'
    BY <1>1, <2>1, <2>3 DEF Inv, BlobInv
  <2>5. r.ver = 0 /\ Guarded(r)
    BY <1>1, <2>2, CallFacts DEF Versioned, Guarded, Guarding
  <2> QED
    BY <1>1, <2>1, <2>2, <2>4, <2>5, BlobStep
<1> QED
  BY <1>2, <1>3

LEMMA ReleaseKeeps ==
    ASSUME Inv, NEW c \in Caller, NEW b \in Blob, Release(c, b)
    PROVE  Inv'
<1>1. /\ call[c].pc = "idle" /\ holders[b] > 0
      /\ holders' = [holders EXCEPT ![b] = @ - 1]
      /\ UNCHANGED <<file, clock, history, guardVars, scenario, crashes, state, bin>>
  BY DEF Release
<1>2. CASE refs[b] = NoRef
  <2>1. UNCHANGED <<call, refs>>
    BY <1>2 DEF Release
  <2>2. BlobInv'
    BY <1>1, <1>2, <2>1 DEF Inv, BlobInv
  <2> QED
    BY <1>1, <2>1, <2>2, CountStep
<1>3. CASE refs[b] # NoRef /\ refs[b] <= Found + 1
  <2> DEFINE r == [call[c] EXCEPT !.op = "release", !.pc = "unblob", !.blob = {b}]
  <2>1. call' = [call EXCEPT ![c] = r] /\ refs' = [refs EXCEPT ![b] = NoRef]
    BY <1>3, CallFacts DEF Release
  <2>2. /\ IsCall(r) /\ r.ver = call[c].ver /\ r.prior = call[c].prior
        /\ r.shun = call[c].shun /\ r.leader = call[c].leader /\ r.pc = "unblob"
        /\ r.blob = {b}
    BY CallFacts DEF IsCall, Fields
  <2> HIDE DEF r
  <2>3. \A d \in Caller : call'[d] = IF d = c THEN r ELSE call[d]
    BY <2>1, CallFacts
  <2>4. BlobInv'
    BY <1>1, <2>1, <2>2, <2>3 DEF Inv, BlobInv
  <2>5. r.ver = 0 /\ Guarded(r)
    BY <1>1, <2>2, CallFacts DEF Versioned, Guarded, Guarding
  <2> QED
    BY <1>1, <2>1, <2>2, <2>4, <2>5, BlobStep
<1>4. CASE refs[b] # NoRef /\ ~(refs[b] <= Found + 1)
  <2>1. UNCHANGED call /\ refs' = [refs EXCEPT ![b] = @ - 1]
    BY <1>4 DEF Release
  <2>2. BlobInv'
    BY <1>1, <1>4, <2>1 DEF Inv, BlobInv
  <2> QED
    BY <1>1, <2>1, <2>2, CountStep
<1> QED
  BY <1>2, <1>3, <1>4

\* A call that stores or releases a file has a claim on it until the index is
\* as the file is.
LEMMA BlobFileKeeps ==
    ASSUME Inv, NEW c \in Caller, StoreFile(c) \/ StoreRef(c) \/ ReleaseFile(c)
    PROVE  Inv'
<1>1. /\ call[c].pc \in {"blob", "ref", "unblob"}
      /\ UNCHANGED <<file, clock, history, guardVars, scenario, crashes, state>>
  BY DEF StoreFile, StoreRef, ReleaseFile
<1>2. CASE StoreFile(c)
  <2> DEFINE r == [call[c] EXCEPT !.pc = "ref"]
  <2>1. /\ call[c].pc = "blob" /\ call' = [call EXCEPT ![c] = r]
        /\ UNCHANGED <<refs, holders>> /\ bin' = bin \cup call[c].blob
    BY <1>2, CallFacts DEF StoreFile
  <2>2. /\ IsCall(r) /\ r.ver = call[c].ver /\ r.prior = call[c].prior
        /\ r.shun = call[c].shun /\ r.leader = call[c].leader /\ r.pc = "ref"
        /\ r.blob = call[c].blob
    BY CallFacts DEF IsCall, Fields
  <2> HIDE DEF r
  <2>3. \A d \in Caller : call'[d] = IF d = c THEN r ELSE call[d]
    BY <2>1, CallFacts
  <2>4. BlobInv'
    <3>1. call[c].blob \subseteq Blob
      BY <2>1, CallFacts DEF Versioned
    <3> QED
      BY <1>1, <2>1, <2>2, <2>3, <3>1 DEF Inv, BlobInv
  <2>5. r.ver = 0 /\ Guarded(r)
    BY <1>1, <2>1, <2>2, CallFacts DEF Versioned, Guarded, Guarding
  <2> QED
    BY <1>1, <2>1, <2>2, <2>4, <2>5, BlobStep
<1>3. CASE StoreRef(c) \/ ReleaseFile(c)
  <2>1. call' = [call EXCEPT ![c] = Idle] /\ call[c].pc \in {"ref", "unblob"}
    BY <1>3 DEF StoreRef, ReleaseFile
  <2>2. /\ IsCall(Idle) /\ Idle.pc = "idle" /\ Idle.ver = 0 /\ ~Idle.leader
        /\ Idle.prior = {} /\ Idle.shun = {}
    BY DEF Idle, IsCall, Fields
  <2>3. \A d \in Caller : call'[d] = IF d = c THEN Idle ELSE call[d]
    BY <2>1, CallFacts
  <2>4. BlobInv'
    <3>1. CASE StoreRef(c)
      BY <1>1, <2>1, <2>2, <2>3, <3>1 DEF StoreRef, Inv, BlobInv
    <3>2. CASE ReleaseFile(c)
      BY <1>1, <2>1, <2>2, <2>3, <3>2 DEF ReleaseFile, Inv, BlobInv
    <3> QED
      BY <1>3, <3>1, <3>2
  <2> QED
    BY <1>1, <2>1, <2>2, <2>4, Returns
<1> QED
  BY <1>2, <1>3

-----------------------------------------------------------------------------
(* Crashes and restarts *)

\* A crash ends every call, and leaves in a file what no set has written.
LEMMA CrashKeeps ==
    ASSUME Inv, Crash
    PROVE  Inv'
<1>1. /\ call' = [d \in Caller |-> Idle] /\ crashes' = crashes + 1
      /\ UNCHANGED <<history, clock, scenario>>
  BY DEF Crash
<1>2. file' \in [Key -> Nat] /\ \A k \in Key : file'[k] \in {file[k], 1}
  <2>1. PICK lost : file' = [k \in Key |-> IF k \in lost THEN 1 ELSE file[k]]
    BY DEF Crash
  <2> QED
    BY <2>1 DEF Inv, Versions
<1>3. /\ IsCall(Idle) /\ Idle.pc = "idle" /\ Idle.ver = 0 /\ Idle.leader = FALSE
      /\ Idle.prior = {} /\ Idle.shun = {}
  BY DEF Idle, IsCall, Fields
<1>4. CallsInv'
  <2>1. Served(Idle) /\ Guarded(Idle) /\ Wipes(Idle, scenario') /\ Removed(Idle, file')
    BY <1>3 DEF Served, Guarded, Guarding, Wipes, Removed
  <2>2. Versioned(Idle, clock', file', returned', gone')
    BY <1>1, <1>3 DEF Versioned, Keyed, Inv, Versions
  <2> QED
    BY <1>1, <1>3, <2>1, <2>2 DEF CallsInv, Sound
<1>5. Versions'
  <2>1. 1 \notin gone
    BY DEF Inv, Versions, Some
  <2> QED
    BY <1>1, <1>2, <2>1 DEF Inv, Versions
<1>6. LockInv'
  BY <1>1, <1>3 DEF LockInv
<1>7. BlobInv'
  BY <1>1 DEF Inv, BlobInv
<1> QED
  BY <1>4, <1>5, <1>6, <1>7 DEF Inv

\* While the process is down, nobody calls.
Down == state = "down" => \A c \in Caller : call[c].pc = "idle"

LEMMA RestartKeeps ==
    ASSUME Inv, Down, NEW c \in Caller, Restart(c)
    PROVE  Inv'
<1>1. call[c].pc = "idle" /\ UNCHANGED <<file, clock>>
  BY DEF Restart, Down
<1>2. Calm
  <2>1. crashes # 0
    BY DEF Restart, Inv, BlobInv
  <2> QED
    BY <2>1, CallFacts DEF Restart, Calm
<1>3. \E old : StartPurge(c, "initialize", old, KeysOf(old), {})
  BY DEF Restart
<1> QED
  BY <1>1, <1>2, <1>3, StartPurgeKeeps

LEMMA DownKeeps ==
    ASSUME Down, Next
    PROVE  Down'
<1>1. ASSUME NEW c \in Caller, Start(c)
      PROVE  state' # "down"
  BY <1>1 DEF Start, Get, GetRaw, Set, SetRaw, Invalidate, InvalidateResource, GetOrSet,
              InvalidateLayer, ClearExpired, ClearAll, Cleanup, Flush, Store, Release
<1>2. ASSUME NEW c \in Caller, Continue(c)
      PROVE  call[c].pc # "idle" /\ state' \in {state, "up"}
  BY <1>2 DEF Continue, Read, Drop, Touch, Hit, Miss, Unlink, WriteFile, Index, Save,
              EvictFile, EvictEntry, SaveLast, Return, Settle, InvalidateFile,
              InvalidateEntry, PurgeFile, PurgeEntries, WipeFiles, WipeBins, Reset, Known,
              Orphans, OrphanBins, CreateLock, MeetLock, FillLock, SeizeLock, PollEnds,
              LookAgain, Factory, Unlock, Put, StoreFile, StoreRef, ReleaseFile
<1>3. ASSUME NEW c \in Caller, Restart(c)
      PROVE  state' # "down"
  BY <1>3 DEF Restart
<1>4. CASE Crash
  BY <1>4 DEF Crash, Down, Idle
<1>5. CASE TimerFires \/ TimerSaves \/ LockAges \/ (\E v \in DOMAIN life : Ages(v))
           \/ \E k \in Key : Forget(k)
  BY <1>5 DEF TimerFires, TimerSaves, LockAges, Ages, Forget, Down
<1> QED
  BY <1>1, <1>2, <1>3, <1>4, <1>5 DEF Next, Down

-----------------------------------------------------------------------------
(* The invariant *)

\* A set of positions has a least one.  (Intervals of numbers are finite sets,
\* whose inclusion is well-founded.)
LEMMA MinIsMember ==
    ASSUME NEW n \in Nat, NEW I \in SUBSET (1 .. n), I # {}
    PROVE  Min(I) \in I
<1> DEFINE T == {1 .. x : x \in I}
<1>1. T \subseteq FiniteSubsetsOf(Nat) /\ T # {}
  <2>1. ASSUME NEW x \in I
        PROVE  1 .. x \in SUBSET Nat /\ IsFiniteSet(1 .. x)
    BY FS_Interval
  <2>2. T \subseteq {S \in SUBSET Nat : IsFiniteSet(S)}
    BY <2>1
  <2> QED
    BY <2>2 DEF FiniteSubsetsOf
<1> HIDE DEF T
<1>2. \E X \in T : \A Y \in T : <<Y, X>> \notin StrictSubsetOrdering(Nat)
  BY <1>1, WFMin, FS_StrictSubsetOrderingWellFounded
<1>3. PICK x \in I : \A y \in I : <<1 .. y, 1 .. x>> \notin StrictSubsetOrdering(Nat)
  BY <1>2 DEF T
<1>4. ASSUME NEW y \in I, y < x
      PROVE  FALSE
  <2>1. 1 .. y \subseteq 1 .. x /\ x \in 1 .. x /\ x \notin 1 .. y
    BY <1>4
  <2>2. 1 .. y \in SUBSET Nat /\ 1 .. x \in SUBSET Nat /\ 1 .. y # 1 .. x
    BY <2>1
  <2>3. <<1 .. y, 1 .. x>> \in StrictSubsetOrdering(Nat)
    BY <2>1, <2>2, Zenon DEF StrictSubsetOrdering
  <2> QED
    BY <1>3, <2>3
<1>5. \A y \in I : x <= y
  BY <1>4
<1> QED
  BY <1>5 DEF Min

\* What the first process finds: every key with a version of its own.
LEMMA Starts == Init => Inv /\ Down
<1> SUFFICES ASSUME Init
             PROVE  Inv /\ Down
  OBVIOUS
<1>1. PICK before \in {<<>>, SetToSeq(Key)} :
         LET old == [i \in DOMAIN before |->
                       [key |-> before[i], sum |-> i + 1, accessed |-> i + 1]]
         IN  /\ file = [k \in Key |-> IF before = <<>> THEN Absent
                                      ELSE SelectInSeq(old, LAMBDA e : e.key = k) + 1]
             /\ clock = Len(old) + 1
             /\ returned = [k \in Key |->
                              {e.sum : e \in {x \in ToSet(old) : x.key = k}}]
  BY DEF Init
<1> DEFINE old == [i \in DOMAIN before |->
                     [key |-> before[i], sum |-> i + 1, accessed |-> i + 1]]
<1>2. PICK n \in Nat : DOMAIN before = 1 .. n
  <2>1. CASE before = <<>>
    BY <2>1
  <2>2. CASE before = SetToSeq(Key)
    <3>1. Cardinality(Key) \in Nat /\ ExistsBijection(1 .. Cardinality(Key), Key)
      BY CacheAssumption, FS_CardinalityType
    <3>2. \E f \in [1 .. Cardinality(Key) -> Key] : IsInjective(f)
      BY <3>1 DEF ExistsBijection, Bijection, Injection
    <3>3. before \in [1 .. Cardinality(Key) -> Key]
      BY <2>2, <3>2 DEF SetToSeq
    <3> QED
      BY <3>1, <3>3
  <2> QED
    BY <2>1, <2>2
<1>3. DOMAIN old = 1 .. n /\ Len(old) = n
  BY <1>2
<1>4. clock = n + 1
  BY <1>1, <1>3
<1>5. \A k \in Key : \A v : v \in returned[k] <=> \E i \in 1 .. n : v = i + 1 /\ before[i] = k
  <2>1. ToSet(old) = {old[i] : i \in 1 .. n}
    BY <1>3 DEF ToSet
  <2>2. \A i \in 1 .. n : old[i].key = before[i] /\ old[i].sum = i + 1
    BY <1>2
  <2>3. \A k \in Key : returned[k] = {e.sum : e \in {x \in ToSet(old) : x.key = k}}
    BY <1>1
  <2> HIDE DEF old
  <2> QED
    BY <2>1, <2>2, <2>3
<1>6. returned \in [Key -> SUBSET Nat]
  <2>1. returned = [k \in Key |-> returned[k]]
    BY <1>1
  <2> QED
    BY <1>5, <2>1
<1>7. \A k \in Key : \/ file[k] \in {0, 1}
                     \/ \E i \in 1 .. n : file[k] = i + 1 /\ before[i] = k
  <2> SUFFICES ASSUME NEW k \in Key, before # <<>>
               PROVE  \/ file[k] \in {0, 1}
                      \/ \E i \in 1 .. n : file[k] = i + 1 /\ before[i] = k
    BY <1>1
  <2> DEFINE I == {i \in 1 .. n : old[i].key = k}
  <2>1. file[k] = (IF I # {} THEN Min(I) ELSE 0) + 1
    BY <1>1, <1>3 DEF SelectInSeq
  <2>2. ASSUME I # {}
        PROVE  Min(I) \in I
    <3> HIDE DEF old
    <3>1. I \in SUBSET (1 .. n)
      OBVIOUS
    <3> QED
      BY <2>2, <3>1, MinIsMember
  <2>3. \A i \in 1 .. n : old[i].key = before[i]
    BY <1>2
  <2>4. CASE I = {}
    <3> HIDE DEF I
    <3> QED
      BY <2>1, <2>4
  <2>5. CASE I # {}
    <3>1. file[k] = Min(I) + 1
      BY <2>1, <2>5
    <3>2. Min(I) \in 1 .. n /\ old[Min(I)].key = k
      BY <2>2, <2>5
    <3> HIDE DEF old, I
    <3> QED
      BY <2>3, <3>1, <3>2
  <2> HIDE DEF old
  <2> QED
    BY <2>4, <2>5
<1>8. file \in [Key -> Nat]
  <2>1. file = [k \in Key |-> file[k]]
    BY <1>1
  <2> QED
    BY <1>7, <2>1
<1>9. /\ call = [c \in Caller |-> Idle] /\ gone = {} /\ seized = FALSE
      /\ state = "up" /\ crashes = 0 /\ bin = {}
      /\ refs = [b \in Blob |-> NoRef] /\ holders = [b \in Blob |-> 0]
  BY DEF Init
<1> HIDE DEF old
<1>10. Versions
  <2>1. \A k \in Key : file[k] <= clock
    BY <1>4, <1>7
  <2>2. \A k \in Key : \A v \in returned[k] : 2 <= v /\ v <= clock
    BY <1>4, <1>5
  <2>3. \A j, k \in Key : file[j] \in returned[k] => j = k
    BY <1>5, <1>7
  <2>4. \A j, k \in Key : \A v \in returned[j] : v \in returned[k] => j = k
    BY <1>5
  <2> QED
    BY <1>4, <1>6, <1>8, <1>9, <2>1, <2>2, <2>3, <2>4 DEF Versions
<1>11. /\ IsCall(Idle) /\ Idle.pc = "idle" /\ Idle.ver = 0 /\ Idle.leader = FALSE
       /\ Idle.prior = {} /\ Idle.shun = {}
  BY DEF Idle, IsCall, Fields
<1>12. CallsInv
  <2>1. Served(Idle) /\ Guarded(Idle) /\ Wipes(Idle, scenario) /\ Removed(Idle, file)
    BY <1>11 DEF Served, Guarded, Guarding, Wipes, Removed
  <2>2. Versioned(Idle, clock, file, returned, gone)
    BY <1>10, <1>11 DEF Versioned, Versions, Keyed
  <2> QED
    BY <1>9, <1>11, <2>1, <2>2 DEF CallsInv, Sound
<1>13. LockInv /\ BlobInv /\ Down
  BY <1>9, <1>11 DEF LockInv, BlobInv, Down
<1> QED
  BY <1>10, <1>12, <1>13 DEF Inv

LEMMA NextKeeps == Inv /\ Down /\ Next => Inv' /\ Down'
<1> SUFFICES ASSUME Inv, Down, Next
             PROVE  Inv'
  BY DownKeeps
<1>1. ASSUME NEW c \in Caller, Start(c)
      PROVE  Inv'
  BY <1>1, GetKeeps, SetKeeps, InvalidateKeeps, BeginPurgeKeeps, ClearAllKeeps, FlushKeeps,
     StoreKeeps, ReleaseKeeps DEF Start
<1>2. ASSUME NEW c \in Caller, Continue(c)
      PROVE  Inv'
  <2>1. CASE Read(c) \/ Drop(c) \/ Touch(c) \/ Hit(c) \/ Miss(c) \/ LookAgain(c)
    BY <2>1, ReadKeeps, DropKeeps, TouchKeeps, HitKeeps, MissKeeps, LookAgainKeeps
  <2>2. CASE \/ Unlink(c) \/ WriteFile(c) \/ Index(c) \/ Save(c) \/ Put(c)
             \/ EvictFile(c) \/ EvictEntry(c) \/ SaveLast(c) \/ Return(c)
    BY <2>2, UnlinkKeeps, WriteFileKeeps, IndexKeeps, SaveKeeps, PutKeeps, EvictFileKeeps,
       EvictEntryKeeps, SaveLastKeeps, ReturnKeeps
  <2>3. CASE \/ InvalidateFile(c) \/ InvalidateEntry(c) \/ PurgeFile(c) \/ PurgeEntries(c)
             \/ WipeFiles(c) \/ WipeBins(c) \/ Reset(c)
             \/ Known(c) \/ Orphans(c) \/ OrphanBins(c)
    BY <2>3, InvalidateFileKeeps, InvalidateEntryKeeps, PurgeFileKeeps, PurgeEntriesKeeps,
       WipeKeeps, ResetKeeps, CleanupKeeps
  <2>4. CASE \/ CreateLock(c) \/ MeetLock(c) \/ FillLock(c) \/ SeizeLock(c) \/ PollEnds(c)
             \/ Factory(c) \/ Unlock(c)
    BY <2>4, CreateLockKeeps, AtTheGuardKeeps, SeizeLockKeeps, FactoryKeeps, UnlockKeeps
  <2>5. CASE StoreFile(c) \/ StoreRef(c) \/ ReleaseFile(c)
    BY <2>5, BlobFileKeeps
  <2> QED
    BY <1>2, <2>1, <2>2, <2>3, <2>4, <2>5 DEF Continue
<1>3. ASSUME NEW c \in Caller, Restart(c)
      PROVE  Inv'
  BY <1>3, RestartKeeps
<1>4. CASE Crash
  BY <1>4, CrashKeeps
<1> QED
  BY <1>1, <1>2, <1>3, <1>4, TimeKeeps DEF Next

LEMMA Invariance == Spec => [](Inv /\ Down)
<1>1. UNCHANGED vars /\ Inv /\ Down => Inv' /\ Down'
  <2> SUFFICES ASSUME UNCHANGED vars, Inv, Down
               PROVE  Inv' /\ Down'
    OBVIOUS
  <2>1. Down'
    BY DEF vars, Down
  <2> QED
    BY <2>1, AsideKeeps DEF vars
<1> QED
  BY Starts, NextKeeps, <1>1, PTL DEF Spec

-----------------------------------------------------------------------------
(* The theorems *)

\* A hit is never of a version that had been replaced, by a call that had
\* returned, before the get began: what a call replaces is in no file when it
\* returns, and a file gets no version twice (set, invalidate, clearAll, get,
\* crashes and restarts of CacheManager).
THEOREM HitsAreNeverStale == Spec => []HitsAreRecent
<1>1. Inv => HitsAreRecent
  BY CallFacts DEF HitsAreRecent, Served
<1> QED
  BY Invariance, <1>1, PTL

\* Until a lock is taken over, at most one caller is inside the guard as the
\* leader (withStampedeGuard: the lock is created exclusively, and removed by
\* who created it).
THEOREM OneLeaderAtATime == Spec => []OneLeader
<1>1. ASSUME Inv, ~seized
      PROVE  Cardinality({c \in Caller : call[c].leader}) <= 1
  <2> DEFINE L == {c \in Caller : call[c].leader}
  <2>1. \A c, d \in L : c = d
    BY <1>1 DEF Inv, LockInv
  <2>2. L = {} \/ \E c : L = {c}
    BY <2>1
  <2> HIDE DEF L
  <2>3. Cardinality(L) <= 1
    <3>1. CASE L = {}
      BY <3>1, FS_EmptySet
    <3>2. CASE \E c : L = {c}
      <4>1. PICK c : L = {c}
        BY <3>2
      <4>2. Cardinality({c}) = 1
        BY FS_Singleton, Zenon
      <4> QED
        BY <4>1, <4>2
    <3> QED
      BY <2>2, <3>1, <3>2
  <2> QED
    BY <2>3 DEF L
<1> QED
  BY Invariance, <1>1, PTL DEF OneLeader

\* Without clearAll and without a crash, a content that all callers have
\* released has neither a count nor a file, although a store that overtakes
\* another sets its count back (storeContentAddressable,
\* releaseContentAddressable).
THEOREM ReleasedContentsGo == Spec => []NothingLeaks
<1>1. Inv => NothingLeaks
  <2> SUFFICES ASSUME Inv, crashes = 0, "clearAll" \notin scenario.ops,
                      \A c \in Caller : call[c].pc = "idle",
                      \A b \in Blob : holders[b] = 0
               PROVE  bin = {} /\ \A b \in Blob : refs[b] = NoRef
    BY DEF NothingLeaks
  <2>1. \A b \in Blob : refs[b] = NoRef
    BY DEF Inv, BlobInv
  <2>2. \A b \in Blob : b \notin bin
    BY <2>1 DEF Inv, BlobInv
  <2>3. bin \subseteq Blob
    BY DEF Inv, BlobInv
  <2> QED
    BY <2>1, <2>2, <2>3
<1> QED
  BY Invariance, <1>1, PTL
=============================================================================
