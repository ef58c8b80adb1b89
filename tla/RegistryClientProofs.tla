------------------------ MODULE RegistryClientProofs ------------------------
(***************************************************************************)
(* Theorems about RegistryClient, for any callers, tasks, flights and      *)
(* scenarios.  The argument follows one call through its steps: what it    *)
(* has at hand at each of them (Path), how old the flight that it shares   *)
(* may be (Floors), and what it found when an index had been saved (Finds).*)
(***************************************************************************)
EXTENDS RegistryClient, TLAPS

-----------------------------------------------------------------------------
(* The inductive invariant. *)

LocalPcs == {"index", "read", "parse", "indexed", "detect"}
FetchedPcs == {"landed", "revise", "save", "remember", "put", "putting", "remove",
               "list", "listing", "emit", "return"}
Pcs == {"idle", "unlink", "cache", "cached", "wait", "failed", "clearing"}
       \cup LocalPcs \cup FetchedPcs

Index == [ver : Nat, rev : Nat]
Call == [pc : Pcs, op : {"none", "load", "lookup", "manifest", "prefetch", "revalidate"},
         force : BOOLEAN, refresh : BOOLEAN, policy : Policy, local : BOOLEAN,
         age : Age, index : Index, flight : Flight \cup {NoFlight}, value : Nat,
         late : BOOLEAN, stale : BOOLEAN, fell : BOOLEAN,
         entries : [CacheKey -> Age], floor : Nat, sure : BOOLEAN]

KeyOfCall(c) == IF c.op \in {"load", "lookup", "revalidate"} THEN "registry"
                ELSE "manifest"

\* What a call has at hand where it is.
Path(c) ==
    /\ c.pc = "detect" => ~c.local /\ ~c.fell
    /\ c.pc = "unlink" => ~c.local
    /\ c.pc = "revise" => c.value # None
    /\ c.pc \in {"save", "remember"} => c.index.ver # None
    /\ KeyOfCall(c) = "manifest" => c.floor = 0
    /\ c.pc = "failed" => KeyOfCall(c) = "registry"

\* A forced load that is online, until discovery fails.
Fetches(c) ==
    c.op = "load" /\ c.force /\ ~c.fell /\ ~c.local =>
        /\ ~c.late /\ c.pc \notin LocalPcs
        /\ c.pc \in FetchedPcs => c.value = None \/ c.value >= c.floor

\* The flight that a call may join, and the one that it shares.
Floors(c, ver, inAir, flights) ==
    /\ c.floor <= ver
    /\ inAir["registry"] # NoFlight => c.floor <= flights[inAir["registry"]].since
    /\ c.pc = "wait" =>
          /\ c.flight \in Flight
          /\ flights[c.flight] # Grounded
          /\ flights[c.flight].key = KeyOfCall(c)
          /\ c.floor <= flights[c.flight].since

\* A call that was made when an index had been saved.
Finds(c, wasForced, wasIndexed) ==
    /\ c.pc = "unlink" => wasForced
    /\ c.sure => wasIndexed
    /\ c.sure /\ ~wasForced =>
          /\ c.pc \in {"parse", "indexed"} => c.index # NoIndex
          /\ c.pc \in {"cache", "cached"} /\ KeyOfCall(c) = "registry" =>
                ~c.local /\ ~c.fell
          /\ c.pc # "failed"

Sound(c) == /\ Path(c) /\ Fetches(c)
            /\ Floors(c, remote.ver, inflight, flight)
            /\ Finds(c, forced, indexed)
SoundNext(c) == /\ Path(c) /\ Fetches(c)
                /\ Floors(c, remote'.ver, inflight', flight')
                /\ Finds(c, forced', indexed')

StoreTypes ==
    /\ registry \in Nat /\ snapshot \in Nat /\ resources \in Nat
    /\ memory \in Index /\ disk \in Index
    /\ remote \in [ver : 1 .. MaxVersion, up : BOOLEAN]
    /\ offline \in BOOLEAN /\ forced \in BOOLEAN /\ indexed \in BOOLEAN
    /\ scenario \in Scenarios /\ calls \in Nat
    /\ CacheTypeOK

Types == call \in [Process -> Call] /\ StoreTypes /\ FlightTypeOK

FlightInv ==
    /\ \A f \in Flight :
          /\ flight[f].phase = "none" <=> flight[f] = Grounded
          /\ flight[f] # Grounded => /\ flight[f].key \in FlightKey
                                     /\ flight[f].since <= remote.ver
          /\ flight[f].phase = "read" => flight[f].value >= flight[f].since
          /\ flight[f].phase # "read" => flight[f].value = 0
    /\ \A k \in FlightKey : inflight[k] # NoFlight =>
          /\ flight[inflight[k]] # Grounded
          /\ flight[inflight[k]].key = k
    /\ ~cleared => \A f \in Flight :
          flight[f] # Grounded => inflight[flight[f].key] = f

IndexInv == indexed /\ ~forced => disk # NoIndex

CallsInv == \A p \in Process : Sound(call[p])

Inv == Types /\ FlightInv /\ IndexInv /\ CallsInv

-----------------------------------------------------------------------------
(* Steps of one call. *)

\* A step that leaves the flights and the repository alone disturbs no call.
LEMMA SoundStays ==
    ASSUME UNCHANGED <<remote, inflight, flight>>,
           forced => forced', indexed => indexed'
    PROVE  \A c \in Call : Sound(c) => SoundNext(c)
  BY DEF Sound, SoundNext, Finds

\* The call of p becomes r.
LEMMA OneCall ==
    ASSUME Types, CallsInv, NEW p \in Process, NEW r \in Call,
           call' = [call EXCEPT ![p] = r],
           \A c \in Call : Sound(c) => SoundNext(c),
           SoundNext(r)
    PROVE  call' \in [Process -> Call] /\ CallsInv'
<1>1. call \in [Process -> Call]
  BY DEF Types
<1>2. \A q \in Process : call'[q] = IF q = p THEN r ELSE call[q]
  BY <1>1
<1>3. \A q \in Process : SoundNext(call'[q])
  BY <1>1, <1>2 DEF CallsInv
<1> QED
  BY <1>1, <1>2, <1>3 DEF CallsInv, Sound, SoundNext

\* The call of p becomes r, and t begins the call b.
LEMMA TwoCalls ==
    ASSUME Types, CallsInv, NEW p \in Process, NEW r \in Call,
           NEW t \in Process, NEW b \in Call,
           call' = [[call EXCEPT ![p] = r] EXCEPT ![t] = b],
           \A c \in Call : Sound(c) => SoundNext(c),
           SoundNext(r), SoundNext(b)
    PROVE  call' \in [Process -> Call] /\ CallsInv'
<1>1. call \in [Process -> Call]
  BY DEF Types
<1>2. \A q \in Process : call'[q] = IF q = t THEN b ELSE IF q = p THEN r ELSE call[q]
  BY <1>1
<1>3. \A q \in Process : SoundNext(call'[q])
  BY <1>1, <1>2 DEF CallsInv
<1> QED
  BY <1>1, <1>2, <1>3 DEF CallsInv, Sound, SoundNext

LEMMA NoIndexIsIndex == NoIndex \in Index /\ NoIndex.ver = None
  BY DEF NoIndex, IndexOf, Index, None

USE DEF At, Go, SameClient, SameIndex, SameStores, Remaining,
        clientVars, indexVars, setting, cacheVars, flightVars

\* A step of p alone that leaves the flights and the repository alone.
LEMMA LocalStep ==
    ASSUME Inv, NEW p \in Process, NEW r \in Call, call' = [call EXCEPT ![p] = r],
           UNCHANGED <<remote, inflight, flight, cleared>>,
           forced => forced', indexed => indexed',
           StoreTypes', IndexInv', SoundNext(r)
    PROVE  Inv'
<1>1. call' \in [Process -> Call] /\ CallsInv'
  BY OneCall, SoundStays DEF Inv
<1> QED
  BY <1>1 DEF Inv, Types, FlightTypeOK, FlightInv

\* ... and one that leaves everything else alone too.
LEMMA CallStep ==
    ASSUME Inv, NEW p \in Process, NEW r \in Call, call' = [call EXCEPT ![p] = r],
           UNCHANGED <<clientVars, indexVars, remote, offline, scenario, forced,
                       cacheVars, flightVars>>,
           calls' \in Nat,
           SoundNext(r)
    PROVE  Inv'
<1>1. StoreTypes' /\ IndexInv'
  BY DEF Inv, Types, StoreTypes, IndexInv, CacheTypeOK
<1> QED
  BY <1>1, LocalStep

\* What is known of the call of a process.
LEMMA CallFacts ==
    ASSUME Inv, NEW p \in Process
    PROVE  /\ call[p] \in Call /\ Path(call[p]) /\ Fetches(call[p])
           /\ Floors(call[p], remote.ver, inflight, flight)
           /\ Finds(call[p], forced, indexed)
           /\ KeyOf(p) = KeyOfCall(call[p])
           /\ memory \in Index /\ disk \in Index /\ calls \in Nat
           /\ registry \in Nat /\ snapshot \in Nat /\ resources \in Nat
  BY DEF Inv, Types, StoreTypes, CallsInv, Sound, KeyOf, KeyOfCall

-----------------------------------------------------------------------------
(* The local index. *)

LEMMA AskIndexKeeps ==
    ASSUME Inv, NEW p \in Process, AskIndex(p)
    PROVE  Inv'
<1> DEFINE c == call[p]
           r == [c EXCEPT !.index = memory,
                          !.pc = IF memory # NoIndex THEN "indexed" ELSE "read"]
<1>1. c \in Call /\ c.pc = "index" /\ call' = [call EXCEPT ![p] = r]
  BY CallFacts DEF AskIndex
<1>2. r \in Call
  BY <1>1, CallFacts DEF Call, Pcs, LocalPcs
<1>3. SoundNext(r)
  BY <1>1, CallFacts DEF AskIndex, SoundNext, Path, Fetches, Floors, Finds, KeyOfCall,
                         Call, LocalPcs
<1> QED
  BY <1>1, <1>2, <1>3, CallFacts, CallStep DEF AskIndex

LEMMA ReadIndexKeeps ==
    ASSUME Inv, NEW p \in Process, ReadIndex(p)
    PROVE  Inv'
<1> DEFINE c == call[p]
           r == [c EXCEPT !.index = disk, !.pc = "parse"]
<1>1. c \in Call /\ c.pc = "read" /\ call' = [call EXCEPT ![p] = r]
  BY CallFacts DEF ReadIndex
<1>2. r \in Call
  BY <1>1, CallFacts DEF Call, Pcs, LocalPcs
<1>3. indexed /\ ~forced => disk # NoIndex
  BY DEF Inv, IndexInv
<1>4. SoundNext(r)
  BY <1>1, <1>3, CallFacts DEF ReadIndex, SoundNext, Path, Fetches, Floors, Finds, KeyOfCall,
                               Call, LocalPcs
<1> QED
  BY <1>1, <1>2, <1>4, CallFacts, CallStep DEF ReadIndex

LEMMA ParseIndexKeeps ==
    ASSUME Inv, NEW p \in Process, ParseIndex(p)
    PROVE  Inv'
<1> DEFINE c == call[p]
           r == [c EXCEPT !.pc = "indexed"]
<1>1. c \in Call /\ c.pc = "parse" /\ call' = [call EXCEPT ![p] = r]
  BY CallFacts DEF ParseIndex
<1>2. r \in Call /\ c.index \in Index
  BY <1>1 DEF Call, Pcs, LocalPcs
<1>3. SoundNext(r)
  BY <1>1, CallFacts DEF ParseIndex, SoundNext, Path, Fetches, Floors, Finds, KeyOfCall,
                         Call, LocalPcs
<1>4. StoreTypes' /\ IndexInv'
  BY <1>2 DEF ParseIndex, Inv, Types, StoreTypes, IndexInv, CacheTypeOK
<1> QED
  BY <1>1, <1>2, <1>3, <1>4, LocalStep DEF ParseIndex

\* The client takes over a registry of a local source.
LEMMA AdoptKeeps ==
    ASSUME Inv, NEW p \in Process, NEW v \in Nat, NEW late \in BOOLEAN, NEW stale \in BOOLEAN,
           Adopt(p, v, late, stale),
           call[p].op = "load" => ~call[p].force \/ call[p].fell \/ call[p].local,
           SameStores, Remaining, UNCHANGED calls
    PROVE  Inv'
<1> DEFINE c == call[p]
           r == [c EXCEPT !.pc = "emit", !.value = v, !.index = NoIndex,
                          !.age = "none", !.late = late, !.stale = stale]
<1>1. c \in Call /\ call' = [call EXCEPT ![p] = r]
  BY CallFacts DEF Adopt
<1>2. r \in Call
  BY <1>1, NoIndexIsIndex DEF Call, Pcs, FetchedPcs, Age
<1>3. SoundNext(r)
  BY <1>1, CallFacts DEF SoundNext, Path, Fetches, Floors, Finds, KeyOfCall, Call, LocalPcs
<1>4. StoreTypes' /\ IndexInv'
  BY DEF Adopt, Inv, Types, StoreTypes, IndexInv, CacheTypeOK
<1> QED
  BY <1>1, <1>2, <1>3, <1>4, LocalStep

LEMMA UseIndexKeeps ==
    ASSUME Inv, NEW p \in Process, UseIndex(p)
    PROVE  Inv'
<1> DEFINE c == call[p]
           q == [c EXCEPT !.pc = "cache"]
           r == [c EXCEPT !.pc = "detect"]
<1>1. c \in Call /\ c.pc = "indexed" /\ c.index.ver \in Nat
  BY CallFacts DEF UseIndex, Call, Index
<1>2. q \in Call /\ r \in Call
  BY <1>1 DEF Call, Pcs, LocalPcs
<1>3. c.op = "load" => ~c.force \/ c.fell \/ c.local
  BY <1>1, CallFacts DEF Fetches, LocalPcs, Call
<1>4. CASE c.index = NoIndex /\ Go(p, "cache") /\ SameClient
  <2>1. SoundNext(q)
    BY <1>1, <1>3, <1>4, CallFacts DEF UseIndex, SoundNext, Path, Fetches, Floors, Finds, KeyOfCall,
                                 Call
  <2> QED
    BY <1>2, <1>4, <2>1, CallFacts, CallStep DEF UseIndex
<1>5. CASE Adopt(p, c.index.ver, FALSE, FALSE)
  BY <1>1, <1>3, <1>5, AdoptKeeps DEF UseIndex
<1>6. CASE /\ ~(c.local \/ c.fell \/ c.refresh)
           /\ Go(p, "detect") /\ SameClient
  <2>1. SoundNext(r)
    BY <1>1, <1>3, <1>6, CallFacts DEF UseIndex, SoundNext, Path, Fetches, Floors, Finds, KeyOfCall,
                                 Call, LocalPcs
  <2> QED
    BY <1>2, <1>6, <2>1, CallFacts, CallStep DEF UseIndex
<1> QED
  BY <1>4, <1>5, <1>6 DEF UseIndex

LEMMA CheckIndexKeeps ==
    ASSUME Inv, NEW p \in Process, CheckIndex(p)
    PROVE  Inv'
<1> DEFINE c == call[p]
           r == [c EXCEPT !.index = NoIndex, !.pc = "cache"]
<1>1. c \in Call /\ c.pc = "detect" /\ c.index.ver \in Nat
  BY CallFacts DEF CheckIndex, Call, Index
<1>2. c.op = "load" => ~c.force \/ c.fell \/ c.local
  BY <1>1, CallFacts DEF Fetches, LocalPcs, Call
<1>3. CASE Adopt(p, c.index.ver, FALSE, FALSE)
  BY <1>1, <1>2, <1>3, AdoptKeeps DEF CheckIndex
<1>4. CASE call' = [call EXCEPT ![p] = r] /\ SameClient
  <2>1. r \in Call
    BY <1>1, NoIndexIsIndex DEF Call, Pcs
  <2>2. SoundNext(r)
    BY <1>1, <1>2, <1>4, CallFacts DEF CheckIndex, SoundNext, Path, Fetches, Floors, Finds,
                                 KeyOfCall, Call
  <2> QED
    BY <1>4, <2>1, <2>2, CallFacts, CallStep DEF CheckIndex
<1>5. \/ Adopt(p, c.index.ver, FALSE, FALSE)
      \/ /\ call' = [call EXCEPT ![p].index = NoIndex, ![p].pc = "cache"]
         /\ SameClient
  BY DEF CheckIndex
<1> QED
  BY <1>1, <1>3, <1>4, <1>5

\* A forced load removes the file; no load counts on it any more.
LEMMA UnlinkKeeps ==
    ASSUME Inv, NEW p \in Process, Unlink(p)
    PROVE  Inv'
<1> DEFINE c == call[p]
           r == [c EXCEPT !.local = offline, !.pc = IF offline THEN "index" ELSE "cache"]
<1>1. c \in Call /\ c.pc = "unlink" /\ call' = [call EXCEPT ![p] = r]
  BY CallFacts DEF Unlink
<1>2. offline \in BOOLEAN
  BY DEF Inv, Types, StoreTypes
<1>3. r \in Call
  BY <1>1, <1>2 DEF Call, Pcs, LocalPcs
<1>4. forced
  BY <1>1, CallFacts DEF Finds
<1>5. SoundNext(r)
  BY <1>1, <1>2, <1>4, CallFacts DEF Unlink, SoundNext, Path, Fetches, Floors, Finds,
                                     KeyOfCall, Call, LocalPcs, FetchedPcs
<1>6. StoreTypes' /\ IndexInv'
  BY <1>4, NoIndexIsIndex DEF Unlink, Inv, Types, StoreTypes, IndexInv, CacheTypeOK
<1> QED
  BY <1>1, <1>3, <1>5, <1>6, LocalStep DEF Unlink

-----------------------------------------------------------------------------
(* After discovery. *)

LEMMA LandKeeps ==
    ASSUME Inv, NEW p \in Process, Land(p)
    PROVE  Inv'
<1> DEFINE c == call[p]
           q == [c EXCEPT !.pc = "revise"]
           r == [c EXCEPT !.fell = TRUE, !.pc = "index"]
<1>1. c \in Call /\ c.pc = "landed" /\ c.value \in Nat
  BY CallFacts DEF Land, Call
<1>2. q \in Call /\ r \in Call
  BY <1>1 DEF Call, Pcs, LocalPcs, FetchedPcs
<1>3. CASE c.value # None
  <2>1. call' = [call EXCEPT ![p] = q] /\ registry' = c.value
    BY <1>3, CallFacts DEF Land
  <2>2. SoundNext(q)
    BY <1>1, <1>3, CallFacts DEF Land, SoundNext, Path, Fetches, Floors, Finds, KeyOfCall,
                                 Call, LocalPcs, FetchedPcs
  <2>3. StoreTypes' /\ IndexInv'
    BY <1>1, <2>1 DEF Land, Inv, Types, StoreTypes, IndexInv, CacheTypeOK
  <2> QED
    BY <1>2, <2>1, <2>2, <2>3, LocalStep DEF Land
<1>4. CASE c.value = None
  <2>1. call' = [call EXCEPT ![p] = r] /\ UNCHANGED registry
    BY <1>4, CallFacts DEF Land, LoadStale
  <2>2. SoundNext(r)
    BY <1>1, <1>4, CallFacts DEF Land, SoundNext, Path, Fetches, Floors, Finds, KeyOfCall,
                                 Call, LocalPcs, FetchedPcs
  <2> QED
    BY <1>2, <2>1, <2>2, CallFacts, CallStep DEF Land
<1> QED
  BY <1>3, <1>4

\* The numbers that the calls are compared with.
LEMMA FlightFacts ==
    ASSUME Inv
    PROVE  /\ remote.ver \in Nat /\ remote.ver # 0 /\ remote.up \in BOOLEAN
           /\ {"registry", "manifest"} \subseteq CacheKey
           /\ {"registry", "manifest"} \subseteq FlightKey
           /\ \A k \in FlightKey : inflight[k] \in Flight \cup {NoFlight}
           /\ \A f \in Flight : /\ flight[f].since \in Nat /\ flight[f].value \in Nat
                                /\ flight[f] # Grounded => flight[f].since <= remote.ver
           /\ \A k \in FlightKey : inflight[k] # NoFlight =>
                 /\ inflight[k] \in Flight
                 /\ flight[inflight[k]] # Grounded
                 /\ flight[inflight[k]].key = k
<1>1. flight \in [Flight -> [key : FlightKey \cup {"none"},
                             phase : {"none", "running", "read", "failed"},
                             value : Nat, since : Nat]]
  BY DEF Inv, Types, FlightTypeOK
<1>2. remote \in [ver : 1 .. MaxVersion, up : BOOLEAN] /\ MaxVersion \in Nat
  BY RegistryAssumption DEF Inv, Types, StoreTypes
<1> QED
  BY <1>1, <1>2, RegistryAssumption DEF Inv, FlightInv, Types, FlightTypeOK

LEMMA IdleIsSound ==
    /\ Idle \in Call /\ Path(Idle) /\ Fetches(Idle)
    /\ \A wasForced, wasIndexed \in BOOLEAN : Finds(Idle, wasForced, wasIndexed)
    /\ Idle.floor = 0 /\ Idle.pc = "idle"
<1>1. Idle \in Call
  BY NoIndexIsIndex DEF Idle, Call, Pcs, Policy, Age, NoEntries, None
<1> QED
  BY <1>1 DEF Idle, Path, Fetches, Finds, KeyOfCall, None

\* A call that ends leaves a process idle.
LEMMA EndKeeps ==
    ASSUME Inv, NEW p \in Process, call' = [call EXCEPT ![p] = Idle],
           UNCHANGED <<remote, inflight, flight, cleared, forced, indexed>>,
           StoreTypes', IndexInv'
    PROVE  Inv'
<1>1. forced \in BOOLEAN /\ indexed \in BOOLEAN
  BY DEF Inv, Types, StoreTypes
<1>2. SoundNext(Idle)
  <2>1. Floors(Idle, remote.ver, inflight, flight)
    BY FlightFacts, IdleIsSound DEF Floors
  <2> QED
    BY <1>1, <2>1, IdleIsSound DEF SoundNext
<1> QED
  BY <1>2, IdleIsSound, LocalStep

LEMMA StoresStay ==
    ASSUME Inv, SameClient, SameIndex, Remaining, UNCHANGED cacheVars, calls' \in Nat
    PROVE  StoreTypes' /\ IndexInv'
  BY DEF Inv, Types, StoreTypes, IndexInv, CacheTypeOK

LEMMA ReturnKeeps ==
    ASSUME Inv, NEW p \in Process, Return(p)
    PROVE  Inv'
  BY EndKeeps, StoresStay, CallFacts DEF Return

LEMMA LandManifestKeeps ==
    ASSUME Inv, NEW p \in Process, LandManifest(p)
    PROVE  Inv'
<1> DEFINE c == call[p]
           q == [c EXCEPT !.pc = "return"]
           r == [c EXCEPT !.pc = "put"]
<1>1. /\ c \in Call /\ c.pc = "landed" /\ KeyOfCall(c) = "manifest"
      /\ UNCHANGED <<clientVars, indexVars, remote, offline, scenario, forced, cacheVars,
                     flightVars, calls>>
  BY CallFacts DEF LandManifest
<1>2. q \in Call /\ r \in Call
  BY <1>1 DEF Call, Pcs, FetchedPcs
<1>3. SoundNext(q) /\ SoundNext(r)
  BY <1>1, CallFacts DEF SoundNext, Path, Fetches, Floors, Finds, KeyOfCall, Call, LocalPcs,
                         FetchedPcs
<1>4. CASE call' = [call EXCEPT ![p] = Idle]
  BY <1>1, <1>4, EndKeeps, StoresStay, CallFacts
<1>5. CASE call' = [call EXCEPT ![p] = q]
  BY <1>1, <1>2, <1>3, <1>5, CallFacts, CallStep
<1>6. CASE call' = [call EXCEPT ![p] = r]
  BY <1>1, <1>2, <1>3, <1>6, CallFacts, CallStep
<1> QED
  BY <1>4, <1>5, <1>6 DEF LandManifest

-----------------------------------------------------------------------------
(* A new call, of a caller or in the background. *)

\* What Asked makes is sound: its floor is the version that the flight under
\* way began with, or the one that the repository has.
LEMMA AskedIsSound ==
    ASSUME Inv, NEW op \in {"load", "lookup", "manifest", "prefetch", "revalidate"},
           NEW force \in BOOLEAN, NEW refresh \in BOOLEAN, NEW policy \in Policy,
           op \in {"manifest", "prefetch"} => ~force /\ ~refresh
    PROVE  LET c == Asked(op, force, refresh, policy)
           IN  /\ c \in Call
               /\ c.op = op /\ c.force = force /\ c.refresh = refresh
               /\ ~c.local /\ ~c.fell /\ ~c.late /\ c.sure = indexed
               /\ KeyOfCall(c) = "manifest" => c.floor = 0
               /\ c.floor <= remote.ver
               /\ inflight["registry"] # NoFlight =>
                     c.floor <= flight[inflight["registry"]].since
<1> DEFINE floor == IF force \/ refresh THEN Floor ELSE 0
<1>1. /\ Floor \in Nat /\ Floor <= remote.ver
      /\ inflight["registry"] # NoFlight => Floor <= flight[inflight["registry"]].since
  BY FlightFacts DEF Floor
<1>2. /\ floor \in Nat /\ floor <= remote.ver
      /\ inflight["registry"] # NoFlight => floor <= flight[inflight["registry"]].since
  BY <1>1, FlightFacts
<1>3. indexed \in BOOLEAN
  BY DEF Inv, Types, StoreTypes
<1> HIDE DEF floor
<1>4. Asked(op, force, refresh, policy) =
         [Idle EXCEPT !.op = op, !.force = force, !.refresh = refresh,
                      !.policy = policy, !.sure = indexed, !.floor = floor]
  BY DEF Asked, floor
<1>5. [Idle EXCEPT !.op = op, !.force = force, !.refresh = refresh,
                   !.policy = policy, !.sure = indexed, !.floor = floor] \in Call
  BY <1>2, <1>3, IdleIsSound DEF Call
<1>6. op \in {"manifest", "prefetch"} => floor = 0
  BY DEF floor
<1> QED
  BY <1>2, <1>4, <1>5, <1>6 DEF Idle, KeyOfCall

\* p goes on as r, and a task begins the call b, if there is one.
LEMMA BackgroundKeeps ==
    ASSUME Inv, NEW p \in Process, NEW r \in Call, NEW b \in Call,
           InBackground([call EXCEPT ![p] = r], b),
           UNCHANGED <<indexVars, remote, offline, scenario, forced, cacheVars, flightVars>>,
           StoreTypes', IndexInv', SoundNext(r), SoundNext(b)
    PROVE  Inv'
<1>1. PICK t \in Task : call' = [[call EXCEPT ![p] = r] EXCEPT ![t] = b]
  BY DEF InBackground
<1>2. t \in Process
  BY DEF Process
<1>3. call' \in [Process -> Call] /\ CallsInv'
  BY <1>1, <1>2, TwoCalls, SoundStays DEF Inv
<1> QED
  BY <1>3 DEF Inv, Types, FlightTypeOK, FlightInv

LEMMA ReviseKeeps ==
    ASSUME Inv, NEW p \in Process, Revise(p)
    PROVE  Inv'
<1> DEFINE c == call[p]
           r(rev) == [c EXCEPT !.index = IndexOf(c.value, rev), !.pc = "save"]
<1>1. /\ c \in Call /\ c.pc = "revise" /\ c.value \in Nat /\ c.value # None
      /\ KeyOf(p) = KeyOfCall(c)
  BY CallFacts DEF Revise, Call, Path
<1>2. /\ snapshot' = c.value /\ resources' = c.value
      /\ UNCHANGED <<registry, indexVars, remote, offline, scenario, forced, cacheVars,
                     flightVars, calls>>
  BY DEF Revise
<1>3. StoreTypes' /\ IndexInv'
  BY <1>1, <1>2 DEF Inv, Types, StoreTypes, IndexInv, CacheTypeOK
<1>4. PICK rev \in Detected :
         IF ~offline /\ "prefetch" \in scenario.ops
         THEN InBackground([call EXCEPT ![p].index = IndexOf(call[p].value, rev),
                                        ![p].pc = "save"], Prefetch)
         ELSE call' = [call EXCEPT ![p].index = IndexOf(call[p].value, rev),
                                   ![p].pc = "save"]
  BY DEF Revise
<1>5. rev \in Nat
  BY FlightFacts DEF Detected, None
<1>6. r(rev) \in Call /\ r(rev).index.ver # None
  BY <1>1, <1>5 DEF Call, Pcs, FetchedPcs, IndexOf, Index
<1>7. SoundNext(r(rev))
  BY <1>1, <1>2, <1>6, CallFacts DEF SoundNext, Path, Fetches, Floors, Finds, KeyOfCall, Call,
                                     LocalPcs, FetchedPcs
<1>8. [call EXCEPT ![p].index = IndexOf(call[p].value, rev), ![p].pc = "save"]
      = [call EXCEPT ![p] = r(rev)]
  BY DEF Inv, Types
<1>9. CASE call' = [call EXCEPT ![p] = r(rev)]
  BY <1>2, <1>3, <1>6, <1>7, <1>9, LocalStep
<1>10. CASE InBackground([call EXCEPT ![p] = r(rev)], Prefetch)
  <2>1. Prefetch \in Call /\ SoundNext(Prefetch)
    <3> DEFINE a == Asked("prefetch", FALSE, FALSE, "normal")
    <3>1. /\ a \in Call /\ a.op = "prefetch" /\ ~a.force /\ a.floor = 0 /\ a.sure = indexed
          /\ a.floor <= remote.ver
          /\ inflight["registry"] # NoFlight => a.floor <= flight[inflight["registry"]].since
      BY AskedIsSound DEF Policy, KeyOfCall
    <3> HIDE DEF a
    <3>2. Prefetch = [a EXCEPT !.pc = "cache"]
      BY DEF Prefetch, a
    <3>3. Prefetch \in Call
      BY <3>1, <3>2 DEF Call, Pcs
    <3> QED
      BY <1>2, <3>1, <3>2, <3>3 DEF SoundNext, Path, Fetches, Floors, Finds, KeyOfCall, Call,
                                    LocalPcs
  <2> QED
    BY <1>2, <1>3, <1>6, <1>7, <1>10, <2>1, BackgroundKeeps
<1> QED
  BY <1>4, <1>8, <1>9, <1>10

LEMMA EmittedKeeps ==
    ASSUME Inv, NEW p \in Process, Emitted(p)
    PROVE  Inv'
<1> DEFINE c == call[p]
           answer == IF c.late THEN registry ELSE c.value
           r == [c EXCEPT !.value = answer, !.pc = "return"]
<1>1. c \in Call /\ c.pc = "emit" /\ c.value \in Nat /\ answer \in Nat
  BY CallFacts DEF Emitted, Call
<1>2. UNCHANGED <<clientVars, indexVars, remote, offline, scenario, forced, cacheVars,
                  flightVars, calls>>
  BY DEF Emitted
<1>3. StoreTypes' /\ IndexInv'
  BY <1>2, StoresStay, CallFacts
<1>4. r \in Call
  BY <1>1 DEF Call, Pcs, FetchedPcs
<1>5. SoundNext(r)
  BY <1>1, <1>2, CallFacts DEF SoundNext, Path, Fetches, Floors, Finds, KeyOfCall, Call,
                               LocalPcs, FetchedPcs
<1>6. [call EXCEPT ![p].value = answer, ![p].pc = "return"] = [call EXCEPT ![p] = r]
  BY DEF Inv, Types
<1>7. CASE call' = [call EXCEPT ![p] = r]
  BY <1>2, <1>4, <1>5, <1>7, CallFacts, CallStep
<1>8. CASE InBackground([call EXCEPT ![p] = r], Revalidate)
  <2>1. Revalidate \in Call /\ SoundNext(Revalidate)
    <3> DEFINE a == Asked("revalidate", FALSE, TRUE, "normal")
    <3>1. /\ a \in Call /\ a.op = "revalidate" /\ ~a.fell /\ a.sure = indexed
          /\ a.floor <= remote.ver
          /\ inflight["registry"] # NoFlight => a.floor <= flight[inflight["registry"]].since
      BY AskedIsSound DEF Policy
    <3>2. offline \in BOOLEAN
      BY DEF Inv, Types, StoreTypes
    <3> HIDE DEF a
    <3>3. Revalidate = [a EXCEPT !.pc = "index", !.local = offline]
      BY DEF Revalidate, a
    <3>4. Revalidate \in Call
      BY <3>1, <3>2, <3>3 DEF Call, Pcs, LocalPcs
    <3> QED
      BY <1>2, <3>1, <3>2, <3>3, <3>4 DEF SoundNext, Path, Fetches, Floors, Finds, KeyOfCall,
                                          Call, LocalPcs
  <2> QED
    BY <1>2, <1>3, <1>4, <1>5, <1>8, <2>1, BackgroundKeeps
<1>9. IF c.stale THEN InBackground([call EXCEPT ![p].value = answer, ![p].pc = "return"],
                                   Revalidate)
      ELSE call' = [call EXCEPT ![p].value = answer, ![p].pc = "return"]
  BY DEF Emitted
<1> QED
  BY <1>6, <1>7, <1>8, <1>9

-----------------------------------------------------------------------------
(* The index is saved, and the registry or the manifest is cached. *)

LEMMA SaveIndexKeeps ==
    ASSUME Inv, NEW p \in Process, SaveIndex(p)
    PROVE  Inv'
<1> DEFINE c == call[p]
           r == [c EXCEPT !.pc = "remember"]
<1>1. c \in Call /\ c.pc = "save" /\ c.index \in Index /\ c.index.ver # None
  BY CallFacts DEF SaveIndex, Call, Path
<1>2. r \in Call /\ call' = [call EXCEPT ![p] = r]
  BY <1>1 DEF SaveIndex, Call, Pcs, FetchedPcs
<1>3. SoundNext(r)
  BY <1>1, CallFacts DEF SaveIndex, SoundNext, Path, Fetches, Floors, Finds, KeyOfCall, Call,
                         LocalPcs, FetchedPcs
<1>4. StoreTypes' /\ IndexInv'
  BY <1>1, NoIndexIsIndex DEF SaveIndex, Inv, Types, StoreTypes, IndexInv, CacheTypeOK
<1> QED
  BY <1>2, <1>3, <1>4, LocalStep DEF SaveIndex

LEMMA SaveIndexFailsKeeps ==
    ASSUME Inv, NEW p \in Process, SaveIndexFails(p)
    PROVE  Inv'
<1> DEFINE c == call[p]
           r == [c EXCEPT !.pc = "put"]
<1>1. c \in Call /\ c.pc = "save"
  BY CallFacts DEF SaveIndexFails
<1>2. r \in Call /\ call' = [call EXCEPT ![p] = r]
  BY <1>1 DEF SaveIndexFails, Call, Pcs, FetchedPcs
<1>3. SoundNext(r)
  BY <1>1, CallFacts DEF SaveIndexFails, SoundNext, Path, Fetches, Floors, Finds, KeyOfCall,
                         Call, LocalPcs, FetchedPcs
<1> QED
  BY <1>2, <1>3, CallFacts, CallStep DEF SaveIndexFails

LEMMA RememberIndexKeeps ==
    ASSUME Inv, NEW p \in Process, RememberIndex(p)
    PROVE  Inv'
<1> DEFINE c == call[p]
           r == [c EXCEPT !.index = NoIndex, !.pc = "put"]
<1>1. c \in Call /\ c.pc = "remember" /\ c.index \in Index
  BY CallFacts DEF RememberIndex, Call
<1>2. r \in Call /\ call' = [call EXCEPT ![p] = r]
  BY <1>1, NoIndexIsIndex DEF RememberIndex, Call, Pcs, FetchedPcs
<1>3. SoundNext(r)
  BY <1>1, CallFacts DEF RememberIndex, SoundNext, Path, Fetches, Floors, Finds, KeyOfCall,
                         Call, LocalPcs, FetchedPcs
<1>4. StoreTypes' /\ IndexInv'
  BY <1>1 DEF RememberIndex, Inv, Types, StoreTypes, IndexInv, CacheTypeOK
<1> QED
  BY <1>2, <1>3, <1>4, LocalStep DEF RememberIndex

LEMMA PutFailsKeeps ==
    ASSUME Inv, NEW p \in Process, PutFails(p)
    PROVE  Inv'
<1> DEFINE c == call[p]
           r == [c EXCEPT !.pc = AfterPut(p)]
<1>1. c \in Call /\ c.pc = "put" /\ AfterPut(p) \in {"emit", "return"}
  BY CallFacts DEF PutFails, AfterPut
<1>2. r \in Call /\ call' = [call EXCEPT ![p] = r]
  BY <1>1 DEF PutFails, Call, Pcs, FetchedPcs
<1>3. SoundNext(r)
  BY <1>1, CallFacts DEF PutFails, SoundNext, Path, Fetches, Floors, Finds, KeyOfCall,
                         Call, LocalPcs, FetchedPcs
<1> QED
  BY <1>2, <1>3, CallFacts, CallStep DEF PutFails

\* Between two steps of a put, the call only goes on, with the entries at hand.
LEMMA PutStep ==
    ASSUME Inv, NEW p \in Process, call[p].pc \in FetchedPcs \ {"save", "remember", "revise"},
           NEW pc \in FetchedPcs \ {"save", "remember", "revise"},
           NEW entries \in [CacheKey -> Age],
           call' = [call EXCEPT ![p] = [call[p] EXCEPT !.entries = entries, !.pc = pc]],
           SameClient, SameIndex, Remaining, UNCHANGED <<calls, flightVars>>,
           CacheTypeOK'
    PROVE  Inv'
<1> DEFINE c == call[p]
           r == [c EXCEPT !.entries = entries, !.pc = pc]
<1>1. c \in Call
  BY CallFacts
<1>2. r \in Call
  BY <1>1 DEF Call, Pcs
<1>3. SoundNext(r)
  BY <1>1, CallFacts DEF SoundNext, Path, Fetches, Floors, Finds, KeyOfCall, Call, LocalPcs,
                         FetchedPcs
<1>4. StoreTypes' /\ IndexInv'
  BY DEF Inv, Types, StoreTypes, IndexInv
<1> QED
  BY <1>2, <1>3, <1>4, LocalStep

LEMMA PutInCacheKeeps ==
    ASSUME Inv, NEW p \in Process, PutInCache(p)
    PROVE  Inv'
<1> DEFINE c == call[p]
           k == KeyOf(p)
           Onward == FetchedPcs \ {"save", "remember", "revise"}
<1>1. /\ c \in Call /\ c.value \in Nat /\ c.entries \in [CacheKey -> Age]
      /\ call \in [Process -> Call]
  BY CallFacts DEF Call, Inv, Types
<1>2. k \in CacheKey /\ CacheTypeOK
  BY FlightFacts DEF KeyOf, Inv, Types, StoreTypes
<1>3. AfterPut(p) \in Onward /\ {"putting", "remove", "list", "listing"} \subseteq Onward
  BY DEF AfterPut, FetchedPcs
<1>4. UNCHANGED <<clientVars, indexVars, remote, offline, scenario, forced, calls, flightVars>>
  BY DEF PutInCache
<1>5. CASE At(p, "put") /\ WriteBegins(k) /\ Go(p, "putting")
  <2>1. call' = [call EXCEPT ![p] = [c EXCEPT !.entries = c.entries, !.pc = "putting"]]
    BY <1>1, <1>5 DEF Call
  <2>2. CacheTypeOK'
    BY <1>2, <1>5 DEF CacheTypeOK, WriteBegins
  <2> QED
    BY <1>1, <1>3, <1>4, <1>5, <2>1, <2>2, PutStep DEF FetchedPcs
<1>6. CASE /\ At(p, "putting")
           /\ WriteEnds(k, c.value)
           /\ call' = [call EXCEPT ![p].entries = entry',
                 ![p].pc = IF entry[k] = "none" THEN "list" ELSE "remove"]
  <2>1. CacheTypeOK' /\ entry' \in [CacheKey -> Age]
    BY <1>1, <1>2, <1>6 DEF CacheTypeOK, WriteEnds, Age, Missing
  <2>2. call' = [call EXCEPT ![p] = [c EXCEPT !.entries = entry',
                    !.pc = IF entry[k] = "none" THEN "list" ELSE "remove"]]
    BY <1>1, <1>6
  <2> QED
    BY <1>1, <1>3, <1>4, <1>6, <2>1, <2>2, PutStep DEF FetchedPcs
<1>7. CASE /\ At(p, "remove")
           /\ RemoveOld(k)
           /\ call' = [call EXCEPT ![p].entries = entry', ![p].pc = "list"]
  <2>1. CacheTypeOK' /\ entry' \in [CacheKey -> Age]
    BY <1>2, <1>7 DEF CacheTypeOK, RemoveOld, Age, Missing
  <2>2. call' = [call EXCEPT ![p] = [c EXCEPT !.entries = entry', !.pc = "list"]]
    BY <1>1, <1>7
  <2> QED
    BY <1>1, <1>3, <1>4, <1>7, <2>1, <2>2, PutStep DEF FetchedPcs
<1>8. CASE At(p, "list") /\ SaveBegins /\ Go(p, "listing")
  <2>1. call' = [call EXCEPT ![p] = [c EXCEPT !.entries = c.entries, !.pc = "listing"]]
    BY <1>1, <1>8 DEF Call
  <2>2. CacheTypeOK'
    BY <1>2, <1>8 DEF CacheTypeOK, SaveBegins
  <2> QED
    BY <1>1, <1>3, <1>4, <1>8, <2>1, <2>2, PutStep DEF FetchedPcs
<1>9. CASE /\ At(p, "listing")
           /\ SaveEnds(c.entries)
           /\ call' = [call EXCEPT ![p].entries = NoEntries, ![p].pc = AfterPut(p)]
  <2>1. CacheTypeOK' /\ NoEntries \in [CacheKey -> Age]
    BY <1>1, <1>2, <1>9 DEF CacheTypeOK, SaveEnds, NoEntries, Age
  <2>2. call' = [call EXCEPT ![p] = [c EXCEPT !.entries = NoEntries, !.pc = AfterPut(p)]]
    BY <1>1, <1>9
  <2> QED
    BY <1>1, <1>3, <1>4, <1>9, <2>1, <2>2, PutStep DEF FetchedPcs
<1> QED
  BY <1>5, <1>6, <1>7, <1>8, <1>9 DEF PutInCache, Put

-----------------------------------------------------------------------------
(* Flights. *)

\* A flight that starts has the version that the repository has by then.
LEMMA LaunchKeeps ==
    ASSUME Inv, NEW k \in FlightKey, NEW f \in Flight, Launch(k, f, remote.ver),
           UNCHANGED remote
    PROVE  /\ FlightTypeOK' /\ FlightInv'
           /\ \A c \in Call :
                 Floors(c, remote.ver, inflight, flight)
                 => Floors(c, remote'.ver, inflight', flight')
           /\ inflight'[k] = f
           /\ flight'[f] = [key |-> k, phase |-> "running", value |-> 0, since |-> remote.ver]
<1> DEFINE new == [key |-> k, phase |-> "running", value |-> 0, since |-> remote.ver]
<1>1. /\ inflight[k] = NoFlight /\ flight[f] = Grounded
      /\ inflight' = [inflight EXCEPT ![k] = f]
      /\ flight' = [flight EXCEPT ![f] = new]
      /\ UNCHANGED cleared
  BY DEF Launch, Flying
<1>2. /\ FlightTypeOK /\ remote.ver \in Nat
      /\ inflight \in [FlightKey -> Flight \cup {NoFlight}]
  BY FlightFacts DEF Inv, Types, FlightTypeOK
<1>3. new.phase = "running" /\ new.key = k /\ new.since = remote.ver /\ new.value = 0
      /\ new # Grounded
  BY DEF Grounded
<1>4. /\ \A g \in Flight : flight'[g] = IF g = f THEN new ELSE flight[g]
      /\ \A j \in FlightKey : inflight'[j] = IF j = k THEN f ELSE inflight[j]
  BY <1>1, <1>2 DEF FlightTypeOK
<1>5. FlightTypeOK'
  BY <1>1, <1>2 DEF FlightTypeOK
<1> HIDE DEF new
<1>6. \A g \in Flight :
         /\ flight'[g].phase = "none" <=> flight'[g] = Grounded
         /\ flight'[g] # Grounded => /\ flight'[g].key \in FlightKey
                                     /\ flight'[g].since <= remote'.ver
         /\ flight'[g].phase = "read" => flight'[g].value >= flight'[g].since
         /\ flight'[g].phase # "read" => flight'[g].value = 0
  BY <1>2, <1>3, <1>4 DEF Inv, FlightInv
<1>7. \A j \in FlightKey : inflight'[j] # NoFlight =>
         flight'[inflight'[j]] # Grounded /\ flight'[inflight'[j]].key = j
  <2> TAKE j \in FlightKey
  <2>1. CASE j = k
    BY <1>3, <1>4, <2>1
  <2>2. CASE j # k
    <3>1. inflight'[j] = inflight[j]
      BY <1>4, <2>2
    <3> QED
      BY <1>1, <1>4, <3>1, FlightFacts
  <2> QED
    BY <2>1, <2>2
<1>8. ~cleared' => \A g \in Flight : flight'[g] # Grounded => inflight'[flight'[g].key] = g
  <2>1. SUFFICES ASSUME ~cleared, NEW g \in Flight, flight'[g] # Grounded
                 PROVE  inflight'[flight'[g].key] = g
    BY <1>1
  <2>2. CASE g = f
    BY <1>3, <1>4, <2>2
  <2>3. CASE g # f
    <3>1. flight'[g] = flight[g] /\ flight[g].key \in FlightKey
          /\ inflight[flight[g].key] = g
      BY <1>4, <2>1, <2>3 DEF Inv, FlightInv
    <3>2. flight[g].key # k
      BY <1>1, <3>1, FlightAssumption
    <3> QED
      BY <1>4, <3>1, <3>2
  <2> QED
    BY <2>2, <2>3
<1>9. \A c \in Call : Floors(c, remote.ver, inflight, flight)
                      => Floors(c, remote'.ver, inflight', flight')
  <2>1. SUFFICES ASSUME NEW c \in Call, Floors(c, remote.ver, inflight, flight)
                 PROVE  Floors(c, remote'.ver, inflight', flight')
    OBVIOUS
  <2>2. inflight'["registry"] # NoFlight =>
           c.floor <= flight'[inflight'["registry"]].since
    <3>1. CASE k = "registry"
      BY <1>3, <1>4, <2>1, <3>1 DEF Floors
    <3>2. CASE k # "registry"
      <4>1. inflight'["registry"] = inflight["registry"]
        BY <1>4, <3>2, FlightFacts
      <4> QED
        BY <1>1, <1>4, <2>1, <4>1, FlightFacts DEF Floors
    <3> QED
      BY <3>1, <3>2
  <2>3. c.pc = "wait" => /\ c.flight \in Flight
                         /\ flight'[c.flight] # Grounded
                         /\ flight'[c.flight].key = KeyOfCall(c)
                         /\ c.floor <= flight'[c.flight].since
    BY <1>1, <1>4, <2>1 DEF Floors
  <2> QED
    BY <2>1, <2>2, <2>3 DEF Floors
<1>10. FlightInv'
  BY <1>6, <1>7, <1>8 DEF FlightInv
<1> QED
  BY <1>3, <1>4, <1>5, <1>9, <1>10 DEF new

\* A call that found nothing of use locally gives up or shares a flight.
LEMMA MissedKeeps ==
    ASSUME Inv, NEW p \in Process, Missed(p), call[p].pc \in {"cache", "cached"},
           SameClient, SameIndex, Remaining, UNCHANGED <<calls, cacheVars>>
    PROVE  Inv'
<1> DEFINE c == call[p]
           k == KeyOf(p)
           q == [c EXCEPT !.pc = IF k = "manifest" THEN "return" ELSE "failed"]
           r(f) == [c EXCEPT !.flight = f, !.age = "none", !.pc = "wait"]
<1>1. c \in Call /\ c.pc \in {"cache", "cached"} /\ k = KeyOfCall(c) /\ k \in FlightKey
  BY CallFacts, FlightFacts DEF KeyOf
<1>2. StoreTypes' /\ IndexInv'
  BY StoresStay, CallFacts
<1>3. CASE GivesUp(p) /\ GiveUp(p)
  <2>1. q \in Call
    BY <1>1 DEF Call, Pcs, FetchedPcs
  <2>2. call' = [call EXCEPT ![p] = q] /\ UNCHANGED flightVars
    BY <1>3 DEF GiveUp
  <2>3. SoundNext(q)
    BY <1>1, <1>3, <2>2, CallFacts DEF GivesUp, SoundNext, Path, Fetches, Floors, Finds,
                                       KeyOfCall, Call, LocalPcs, FetchedPcs
  <2> QED
    BY <2>1, <2>2, <2>3, <1>2, LocalStep
<1>4. CASE ~GivesUp(p) /\ Share(p)
  <2>1. PICK f \in Flight :
           /\ Do(k, f, remote.ver)
           /\ call' = [call EXCEPT ![p].flight = f, ![p].age = "none", ![p].pc = "wait"]
    BY <1>4 DEF Share
  <2>2. r(f) \in Call /\ call' = [call EXCEPT ![p] = r(f)]
    BY <1>1, <2>1 DEF Call, Pcs, Age
  <2>3. ASSUME Floors(c, remote'.ver, inflight', flight'),
               flight'[f] # Grounded, flight'[f].key = k,
               c.floor <= flight'[f].since
        PROVE  SoundNext(r(f))
    <3>1. Floors(r(f), remote'.ver, inflight', flight')
      BY <1>1, <2>3 DEF Floors, KeyOfCall, Call
    <3> QED
      BY <1>1, <3>1, CallFacts DEF SoundNext, Path, Fetches, Finds, KeyOfCall, Call,
                                   LocalPcs, FetchedPcs
  <2>4. CASE Join(k, f)
    <3>1. inflight[k] = f /\ f # NoFlight /\ UNCHANGED flightVars
      BY <2>4 DEF Join
    <3>2. flight[f] # Grounded /\ flight[f].key = k /\ flight[f].since \in Nat
      BY <1>1, <3>1, FlightFacts
    <3>3. c.floor <= flight[f].since
      BY <1>1, <3>1, <3>2, CallFacts DEF Floors, Path, KeyOfCall
    <3>4. SoundNext(r(f))
      BY <2>3, <3>1, <3>2, <3>3, CallFacts
    <3> QED
      BY <1>2, <2>2, <3>1, <3>4, LocalStep
  <2>5. CASE Launch(k, f, remote.ver)
    <3>1. /\ FlightTypeOK' /\ FlightInv'
          /\ \A d \in Call : Floors(d, remote.ver, inflight, flight)
                             => Floors(d, remote'.ver, inflight', flight')
          /\ flight'[f] = [key |-> k, phase |-> "running", value |-> 0,
                           since |-> remote.ver]
      BY <1>1, <2>5, LaunchKeeps
    <3>2. c.floor <= remote.ver /\ Floors(c, remote'.ver, inflight', flight')
      BY <1>1, <3>1, CallFacts DEF Floors
    <3>3. SoundNext(r(f))
      BY <2>3, <3>1, <3>2 DEF Grounded
    <3>4. \A d \in Call : Sound(d) => SoundNext(d)
      BY <3>1 DEF Sound, SoundNext
    <3>5. call' \in [Process -> Call] /\ CallsInv'
      BY <2>2, <3>3, <3>4, OneCall DEF Inv
    <3> QED
      BY <1>2, <3>1, <3>5 DEF Inv, Types
  <2> QED
    BY <2>1, <2>4, <2>5 DEF Do
<1> QED
  BY <1>3, <1>4 DEF Missed

LEMMA AskCacheKeeps ==
    ASSUME Inv, NEW p \in Process, AskCache(p)
    PROVE  Inv'
<1> DEFINE c == call[p]
           r == [c EXCEPT !.age = entry[KeyOf(p)], !.pc = "cached"]
<1>1. c \in Call /\ c.pc = "cache" /\ entry[KeyOf(p)] \in Age
  BY CallFacts, FlightFacts DEF AskCache, KeyOf, Inv, Types, StoreTypes, CacheTypeOK
<1>2. r \in Call
  BY <1>1 DEF Call, Pcs
<1>3. SoundNext(r) \/ flightVars' # flightVars
  BY <1>1, CallFacts DEF AskCache, SoundNext, Path, Fetches, Floors, Finds, KeyOfCall, Call,
                         LocalPcs, FetchedPcs
<1>4. CASE call' = [call EXCEPT ![p] = r] /\ UNCHANGED flightVars
  BY <1>2, <1>3, <1>4, CallFacts, CallStep DEF AskCache
<1>5. CASE Missed(p)
  BY <1>1, <1>5, MissedKeeps DEF AskCache
<1> QED
  BY <1>4, <1>5 DEF AskCache

LEMMA UseCacheKeeps ==
    ASSUME Inv, NEW p \in Process, UseCache(p)
    PROVE  Inv'
<1> DEFINE c == call[p]
           k == KeyOf(p)
           stale == /\ NeedsRevalidation(c.age, c.policy)
                    /\ ~(c.fell \/ c.local \/ c.refresh)
           r == [c EXCEPT !.value = file[k], !.pc = "return"]
<1>1. /\ c \in Call /\ c.pc = "cached" /\ k = KeyOfCall(c)
      /\ file[k] \in Nat \cup {Torn}
  BY CallFacts, FlightFacts DEF UseCache, KeyOf, Inv, Types, StoreTypes, CacheTypeOK
<1>2. SameIndex /\ Remaining /\ UNCHANGED <<calls, cacheVars>>
  BY DEF UseCache
<1>3. ASSUME Readable(k)
      PROVE  file[k] \in Nat
  BY <1>1, <1>3 DEF Readable
<1>4. CASE /\ Readable(k) /\ Accepted(p) /\ k = "registry"
           /\ Adopt(p, file[k], ~c.fell, stale)
           /\ UNCHANGED flightVars
  <2>1. (~c.fell) \in BOOLEAN /\ stale \in BOOLEAN
    <3>1. stale \in BOOLEAN
      BY Zenon
    <3>2. (~c.fell) \in BOOLEAN
      BY <1>1 DEF Call
    <3> HIDE DEF stale
    <3> QED
      BY <3>1, <3>2
  <2>2. c.op = "load" => ~c.force \/ c.fell \/ c.local
    BY <1>4 DEF Accepted
  <2> HIDE DEF stale
  <2> QED
    BY <1>2, <1>3, <1>4, <2>1, <2>2, AdoptKeeps
<1>5. CASE /\ Readable(k) /\ k = "manifest"
           /\ call' = [call EXCEPT ![p].value = file[k], ![p].pc = "return"]
           /\ SameClient /\ UNCHANGED flightVars
  <2>1. r \in Call /\ call' = [call EXCEPT ![p] = r]
    BY <1>1, <1>3, <1>5 DEF Call, Pcs, FetchedPcs
  <2>2. SoundNext(r)
    BY <1>1, <1>2, <1>5, CallFacts DEF SoundNext, Path, Fetches, Floors, Finds, KeyOfCall,
                                       Call, LocalPcs, FetchedPcs
  <2> QED
    BY <1>2, <1>5, <2>1, <2>2, CallFacts, CallStep
<1>6. CASE ~(Readable(k) /\ Accepted(p)) /\ Missed(p) /\ SameClient
  BY <1>1, <1>2, <1>6, MissedKeeps
<1> QED
  BY <1>4, <1>5, <1>6 DEF UseCache

\* The request reads the repository: what it reads is no older than the flight.
LEMMA RequestKeeps ==
    ASSUME Inv, NEW f \in Flight, Request(f)
    PROVE  Inv'
<1> DEFINE v == IF remote.up THEN remote.ver ELSE None
<1>1. /\ flight[f].phase = "running"
      /\ flight' = [flight EXCEPT ![f].value = v,
                                  ![f].phase = IF v = 0 THEN "failed" ELSE "read"]
      /\ UNCHANGED <<call, clientVars, indexVars, remote, offline, scenario, forced, calls,
                     cacheVars, inflight, cleared>>
  BY DEF Request, Arrive
<1>2. /\ v \in Nat
      /\ v # 0 => v = remote.ver
      /\ FlightTypeOK /\ flight[f].since \in Nat
  BY FlightFacts DEF None, Inv, Types
<1>3. flight[f] # Grounded
  BY <1>1 DEF Grounded
<1> HIDE DEF v
<1>4. /\ \A g \in Flight \ {f} : flight'[g] = flight[g]
      /\ flight'[f].key = flight[f].key /\ flight'[f].since = flight[f].since
      /\ flight'[f].value = v
      /\ flight'[f].phase = IF v = 0 THEN "failed" ELSE "read"
  BY <1>1, <1>2 DEF FlightTypeOK
<1>5. FlightTypeOK'
  BY <1>1, <1>2 DEF FlightTypeOK
<1>6. flight'[f] # Grounded
  BY <1>4 DEF Grounded
<1>7. FlightInv'
  <2>1. \A g \in Flight :
           /\ flight'[g].phase = "none" <=> flight'[g] = Grounded
           /\ flight'[g] # Grounded => /\ flight'[g].key \in FlightKey
                                       /\ flight'[g].since <= remote'.ver
           /\ flight'[g].phase = "read" => flight'[g].value >= flight'[g].since
           /\ flight'[g].phase # "read" => flight'[g].value = 0
    <3> TAKE g \in Flight
    <3>1. CASE g = f
      <4>1. flight[f].key \in FlightKey /\ flight[f].since <= remote.ver
        BY <1>3 DEF Inv, FlightInv
      <4>2. flight'[f].phase # "none"
        BY <1>4
      <4>3. v # 0 => v >= flight[f].since
        BY <1>2, <4>1, FlightFacts
      <4> QED
        BY <1>1, <1>4, <1>6, <3>1, <4>1, <4>2, <4>3
    <3>2. CASE g # f
      BY <1>1, <1>4, <3>2 DEF Inv, FlightInv
    <3> QED
      BY <3>1, <3>2
  <2>2. \A k \in FlightKey : inflight'[k] # NoFlight =>
           flight'[inflight'[k]] # Grounded /\ flight'[inflight'[k]].key = k
    <3> TAKE k \in FlightKey
    <3> HAVE inflight'[k] # NoFlight
    <3>1. /\ inflight'[k] \in Flight /\ flight[inflight'[k]] # Grounded
          /\ flight[inflight'[k]].key = k
      BY <1>1, FlightFacts
    <3>2. CASE inflight'[k] = f
      BY <1>4, <1>6, <3>1, <3>2
    <3>3. CASE inflight'[k] # f
      BY <1>4, <3>1, <3>3
    <3> QED
      BY <3>2, <3>3
  <2>3. ~cleared' => \A g \in Flight :
           flight'[g] # Grounded => inflight'[flight'[g].key] = g
    <3> HAVE ~cleared'
    <3> TAKE g \in Flight
    <3> HAVE flight'[g] # Grounded
    <3>1. flight[g] # Grounded /\ flight'[g].key = flight[g].key
      BY <1>3, <1>4
    <3> QED
      BY <1>1, <3>1 DEF Inv, FlightInv
  <2> QED
    BY <2>1, <2>2, <2>3 DEF FlightInv
<1>8. StoreTypes' /\ IndexInv'
  BY <1>1, StoresStay DEF Inv, Types, StoreTypes
<1>9. CallsInv'
  <2>1. SUFFICES ASSUME NEW p \in Process PROVE SoundNext(call[p])
    BY <1>1 DEF CallsInv, Sound, SoundNext
  <2>2. Floors(call[p], remote'.ver, inflight', flight')
    BY <1>1, <1>4, <1>6, CallFacts, FlightFacts DEF Floors
  <2> QED
    BY <1>1, <2>2, CallFacts DEF SoundNext
<1> QED
  BY <1>1, <1>5, <1>7, <1>8, <1>9 DEF Inv, Types

\* A flight is over: who shares it has what it read, and nobody can join it.
LEMMA AnswerKeeps ==
    ASSUME Inv, NEW f \in Flight, Answer(f)
    PROVE  Inv'
<1> DEFINE r(p) == [call[p] EXCEPT !.flight = NoFlight, !.value = flight[f].value,
                                   !.pc = "landed"]
<1>1. /\ flight[f].phase \in {"read", "failed"}
      /\ inflight' = [inflight EXCEPT ![flight[f].key] = NoFlight]
      /\ flight' = [flight EXCEPT ![f] = Grounded]
      /\ UNCHANGED <<clientVars, indexVars, remote, offline, scenario, forced, calls,
                     cacheVars, cleared>>
  BY DEF Answer, Settle
<1>2. /\ FlightTypeOK /\ flight[f].since \in Nat /\ flight[f].value \in Nat
      /\ inflight \in [FlightKey -> Flight \cup {NoFlight}]
      /\ call \in [Process -> Call]
  BY FlightFacts DEF Inv, Types, FlightTypeOK
<1>3. flight[f] # Grounded /\ flight[f].key \in FlightKey
  BY <1>1 DEF Grounded, Inv, FlightInv
<1>4. /\ \A g \in Flight \ {f} : flight'[g] = flight[g]
      /\ flight'[f] = Grounded
      /\ \A k \in FlightKey : inflight'[k] = IF k = flight[f].key THEN NoFlight
                                             ELSE inflight[k]
  BY <1>1, <1>2 DEF FlightTypeOK
<1>5. FlightTypeOK'
  BY <1>1, <1>2 DEF FlightTypeOK, Grounded
<1>6. \A k \in FlightKey : inflight'[k] # NoFlight =>
         /\ inflight'[k] = inflight[k] /\ inflight[k] \in Flight \ {f}
  BY <1>4, FlightFacts
<1>7. FlightInv'
  <2>1. \A g \in Flight :
           /\ flight'[g].phase = "none" <=> flight'[g] = Grounded
           /\ flight'[g] # Grounded => /\ flight'[g].key \in FlightKey
                                       /\ flight'[g].since <= remote'.ver
           /\ flight'[g].phase = "read" => flight'[g].value >= flight'[g].since
           /\ flight'[g].phase # "read" => flight'[g].value = 0
    <3>1. Grounded.phase = "none" /\ Grounded.value = 0
      BY DEF Grounded
    <3> QED
      BY <1>1, <1>4, <3>1 DEF Inv, FlightInv
  <2>2. \A k \in FlightKey : inflight'[k] # NoFlight =>
           flight'[inflight'[k]] # Grounded /\ flight'[inflight'[k]].key = k
    BY <1>4, <1>6, FlightFacts
  <2>3. ~cleared' => \A g \in Flight :
           flight'[g] # Grounded => inflight'[flight'[g].key] = g
    <3>1. SUFFICES ASSUME ~cleared, NEW g \in Flight, flight'[g] # Grounded
                   PROVE  inflight'[flight'[g].key] = g
      BY <1>1
    <3>2. g # f /\ flight'[g] = flight[g] /\ flight[g].key \in FlightKey
          /\ inflight[flight[g].key] = g /\ inflight[flight[f].key] = f
      BY <1>3, <1>4, <3>1 DEF Inv, FlightInv
    <3> QED
      BY <1>4, <3>2
  <2> QED
    BY <2>1, <2>2, <2>3 DEF FlightInv
<1>8. StoreTypes' /\ IndexInv'
  BY <1>1, StoresStay DEF Inv, Types, StoreTypes
<1>9. ASSUME NEW p \in Process
      PROVE  call'[p] \in Call /\ SoundNext(call'[p])
  <2>1. call[p] \in Call
    BY CallFacts
  <2>2. CASE At(p, "wait") /\ call[p].flight = f
    <3>1. call'[p] = r(p)
      BY <2>2 DEF Answer
    <3>2. r(p) \in Call
      BY <1>2, <2>1 DEF Call, Pcs, FetchedPcs
    <3>3. flight[f].value = 0 \/ flight[f].value >= call[p].floor
      <4>1. call[p].floor <= flight[f].since /\ call[p].floor \in Nat
        BY <2>1, <2>2, CallFacts DEF Floors, Call
      <4>2. flight[f].value = 0 \/ flight[f].value >= flight[f].since
        BY DEF Inv, FlightInv
      <4> QED
        BY <1>2, <4>1, <4>2
    <3>4. Floors(r(p), remote'.ver, inflight', flight')
      BY <1>1, <1>4, <1>6, <2>1, <2>2, CallFacts, FlightFacts DEF Floors, Call
    <3>5. Path(r(p)) /\ Finds(r(p), forced', indexed')
      BY <1>1, <2>1, <2>2, CallFacts DEF Path, Finds, KeyOfCall, Call
    <3>6. Fetches(r(p))
      BY <2>1, <2>2, <3>3, CallFacts DEF Fetches, Call, LocalPcs, FetchedPcs, None
    <3> QED
      BY <3>1, <3>2, <3>4, <3>5, <3>6 DEF SoundNext
  <2>3. CASE ~(At(p, "wait") /\ call[p].flight = f)
    <3>1. call'[p] = call[p]
      BY <2>3 DEF Answer
    <3>2. Floors(call[p], remote'.ver, inflight', flight')
      BY <1>1, <1>4, <1>6, <2>3, CallFacts, FlightFacts DEF Floors
    <3> QED
      BY <1>1, <2>1, <3>1, <3>2, CallFacts DEF SoundNext
  <2> QED
    BY <2>2, <2>3
<1>10. call' \in [Process -> Call] /\ CallsInv'
  <2>1. DOMAIN call' = Process /\ call' = [p \in Process |-> call'[p]]
    BY DEF Answer
  <2> QED
    BY <1>9, <2>1 DEF CallsInv, Sound, SoundNext
<1> QED
  BY <1>5, <1>7, <1>8, <1>10 DEF Inv, Types

-----------------------------------------------------------------------------
(* The callers, and what happens around the client. *)

\* load from its first line.
LEMMA LoadKeeps ==
    ASSUME Inv, NEW p \in Process, NEW op \in {"load", "lookup"}, NEW force \in BOOLEAN,
           NEW refresh \in BOOLEAN, NEW policy \in Policy,
           op = "lookup" => ~force,
           Load(p, Asked(op, force, refresh, policy)),
           UNCHANGED <<remote, offline, scenario, cacheVars, flightVars>>, calls' \in Nat
    PROVE  Inv'
<1> DEFINE a == Asked(op, force, refresh, policy)
           q == [a EXCEPT !.pc = "unlink"]
           r == [a EXCEPT !.pc = "return", !.value = registry]
           s == [a EXCEPT !.pc = "index", !.local = offline]
<1>1. /\ a \in Call /\ a.op = op /\ a.force = force /\ a.refresh = refresh
      /\ ~a.local /\ ~a.fell /\ ~a.late /\ a.sure = indexed
      /\ a.floor <= remote.ver
      /\ inflight["registry"] # NoFlight => a.floor <= flight[inflight["registry"]].since
  BY AskedIsSound
<1>2. offline \in BOOLEAN /\ registry \in Nat
  BY DEF Inv, Types, StoreTypes
<1>3. IF a.force
      THEN /\ registry' = None /\ snapshot' = None /\ resources' = None
           /\ memory' = NoIndex /\ forced' = TRUE
           /\ call' = [call EXCEPT ![p] = q]
           /\ UNCHANGED <<disk, indexed>>
      ELSE /\ SameClient /\ SameIndex /\ UNCHANGED forced
           /\ (call' = [call EXCEPT ![p] = r] \/ call' = [call EXCEPT ![p] = s])
  BY DEF Load
<1> HIDE DEF a
<1>4. q \in Call /\ r \in Call /\ s \in Call
  BY <1>1, <1>2 DEF Call, Pcs, LocalPcs, FetchedPcs
<1>5. CASE a.force
  <2>1. SoundNext(q)
    BY <1>1, <1>3, <1>5 DEF SoundNext, Path, Fetches, Floors, Finds, KeyOfCall, Call, LocalPcs,
                            FetchedPcs
  <2>2. StoreTypes' /\ IndexInv'
    BY <1>3, <1>5, NoIndexIsIndex DEF Inv, Types, StoreTypes, IndexInv, CacheTypeOK, None
  <2> QED
    BY <1>3, <1>4, <1>5, <2>1, <2>2, LocalStep
<1>6. CASE ~a.force
  <2>1. SoundNext(r) /\ SoundNext(s)
    BY <1>1, <1>2, <1>3, <1>6 DEF SoundNext, Path, Fetches, Floors, Finds, KeyOfCall, Call,
                                  LocalPcs, FetchedPcs
  <2>2. CASE call' = [call EXCEPT ![p] = r]
    BY <1>3, <1>4, <1>6, <2>1, <2>2, CallStep
  <2>3. CASE call' = [call EXCEPT ![p] = s]
    BY <1>3, <1>4, <1>6, <2>1, <2>3, CallStep
  <2> QED
    BY <1>3, <1>6, <2>2, <2>3
<1> QED
  BY <1>5, <1>6

LEMMA CallsCount ==
    ASSUME Inv, NEW p \in Process, MayCall(p)
    PROVE  /\ calls' \in Nat
           /\ UNCHANGED <<remote, offline, scenario, cacheVars, flightVars>>
  BY DEF MayCall, Inv, Types, StoreTypes

LEMMA CallLoadKeeps ==
    ASSUME Inv, NEW p \in Process, CallLoad(p)
    PROVE  Inv'
<1>1. scenario.loads \subseteq [force : BOOLEAN, refresh : BOOLEAN, policy : Policy]
  BY RegistryAssumption DEF Inv, Types, StoreTypes
<1>2. PICK ask \in scenario.loads :
         /\ MayCall(p)
         /\ Load(p, Asked("load", ask.force, ask.refresh, ask.policy))
  BY DEF CallLoad
<1>3. ask.force \in BOOLEAN /\ ask.refresh \in BOOLEAN /\ ask.policy \in Policy
  BY <1>1
<1> QED
  BY <1>2, <1>3, CallsCount, LoadKeeps

LEMMA CallLookupKeeps ==
    ASSUME Inv, NEW p \in Process, CallLookup(p)
    PROVE  Inv'
<1> DEFINE a == Asked("lookup", FALSE, FALSE, "normal")
           r == [a EXCEPT !.pc = "return", !.value = resources]
<1>1. MayCall(p) /\ "normal" \in Policy
  BY DEF CallLookup, Policy
<1>2. CASE call' = [call EXCEPT ![p] = r] /\ SameClient /\ SameIndex /\ UNCHANGED forced
  <2>1. /\ a \in Call /\ a.op = "lookup" /\ ~a.local /\ ~a.fell /\ a.sure = indexed
        /\ a.floor <= remote.ver
        /\ inflight["registry"] # NoFlight => a.floor <= flight[inflight["registry"]].since
    BY <1>1, AskedIsSound
  <2>2. resources \in Nat
    BY DEF Inv, Types, StoreTypes
  <2> HIDE DEF a
  <2>3. r \in Call
    BY <2>1, <2>2 DEF Call, Pcs, FetchedPcs
  <2>4. SoundNext(r)
    BY <1>1, <1>2, <2>1, <2>3, CallsCount
       DEF SoundNext, Path, Fetches, Floors, Finds, KeyOfCall, Call, LocalPcs, FetchedPcs
  <2> QED
    BY <1>1, <1>2, <2>3, <2>4, CallsCount, CallStep
<1>3. CASE Load(p, a)
  BY <1>1, <1>3, CallsCount, LoadKeeps
<1> QED
  BY <1>2, <1>3 DEF CallLookup

LEMMA CallManifestKeeps ==
    ASSUME Inv, NEW p \in Process, CallManifest(p)
    PROVE  Inv'
<1> DEFINE a == Asked("manifest", FALSE, FALSE, "normal")
           r == [a EXCEPT !.pc = "cache"]
<1>1. /\ MayCall(p) /\ "normal" \in Policy
      /\ call' = [call EXCEPT ![p] = r]
      /\ SameClient /\ SameIndex /\ UNCHANGED forced
  BY DEF CallManifest, Policy
<1>2. /\ a \in Call /\ a.op = "manifest" /\ ~a.local /\ ~a.fell /\ a.sure = indexed
      /\ a.floor = 0 /\ a.floor <= remote.ver
      /\ inflight["registry"] # NoFlight => a.floor <= flight[inflight["registry"]].since
  BY <1>1, AskedIsSound DEF KeyOfCall
<1> HIDE DEF a
<1>3. r \in Call
  BY <1>2 DEF Call, Pcs
<1>4. SoundNext(r)
  BY <1>1, <1>2, <1>3, CallsCount
     DEF SoundNext, Path, Fetches, Floors, Finds, KeyOfCall, Call, LocalPcs, FetchedPcs
<1> QED
  BY <1>1, <1>3, <1>4, CallsCount, CallStep

LEMMA ClearCacheKeeps ==
    ASSUME Inv, NEW p \in Process, ClearCache(p)
    PROVE  Inv'
<1> DEFINE r == [Idle EXCEPT !.pc = "clearing"]
<1>1. SameClient /\ SameIndex /\ Remaining /\ UNCHANGED flightVars
      /\ CacheTypeOK /\ calls \in Nat /\ forced \in BOOLEAN /\ indexed \in BOOLEAN
  BY DEF ClearCache, Inv, Types, StoreTypes
<1>2. CASE /\ calls' = calls + 1 /\ ClearFiles
           /\ call' = [call EXCEPT ![p] = r]
  <2>1. r \in Call
    BY IdleIsSound DEF Call, Pcs
  <2>2. SoundNext(r)
    <3>1. Floors(r, remote'.ver, inflight', flight')
      BY <1>1, FlightFacts, IdleIsSound DEF Floors, Call
    <3> QED
      BY <1>1, <2>1, <3>1 DEF SoundNext, Path, Fetches, Finds, KeyOfCall, Idle, None
  <2>3. CacheTypeOK'
    BY <1>1, <1>2 DEF ClearFiles, CacheTypeOK, NoEntries, Age, Missing
  <2>4. StoreTypes' /\ IndexInv'
    BY <1>1, <1>2, <2>3 DEF Inv, Types, StoreTypes, IndexInv
  <2> QED
    BY <1>1, <1>2, <2>1, <2>2, <2>4, LocalStep
<1>3. CASE /\ ClearEntries /\ UNCHANGED calls
           /\ call' = [call EXCEPT ![p] = Idle]
  <2>1. CacheTypeOK'
    BY <1>1, <1>3 DEF ClearEntries, CacheTypeOK, NoEntries, Age
  <2>2. StoreTypes' /\ IndexInv'
    BY <1>1, <1>3, <2>1 DEF Inv, Types, StoreTypes, IndexInv
  <2> QED
    BY <1>1, <1>3, <2>2, EndKeeps
<1> QED
  BY <1>2, <1>3 DEF ClearCache

\* The registry is invalidated: nobody joins a flight that is under way.
LEMMA InvalidateKeeps ==
    ASSUME Inv, Invalidate
    PROVE  Inv'
<1>1. /\ UNCHANGED <<call, indexVars, remote, offline, scenario, forced, cacheVars, flight>>
      /\ registry' = None /\ snapshot' = None /\ resources' = None
      /\ inflight' = [k \in FlightKey |-> NoFlight] /\ cleared' = TRUE
      /\ calls' = calls + 1
  BY DEF Invalidate, Clear
<1>2. StoreTypes' /\ IndexInv'
  BY <1>1 DEF Inv, Types, StoreTypes, IndexInv, CacheTypeOK, None
<1>3. FlightTypeOK' /\ FlightInv'
  BY <1>1 DEF Inv, Types, FlightTypeOK, FlightInv
<1>4. inflight'["registry"] = NoFlight
  BY <1>1, FlightFacts
<1>5. CallsInv'
  BY <1>1, <1>4, CallFacts DEF CallsInv, Sound, Floors
<1> QED
  BY <1>1, <1>2, <1>3, <1>5 DEF Inv, Types

LEMMA SetOfflineKeeps ==
    ASSUME Inv, SetOffline
    PROVE  Inv'
<1>1. /\ UNCHANGED <<call, clientVars, indexVars, remote, scenario, forced, calls, cacheVars,
                     flightVars>>
      /\ offline' = ~offline
  BY DEF SetOffline
<1>2. StoreTypes' /\ IndexInv'
  BY <1>1 DEF Inv, Types, StoreTypes, IndexInv, CacheTypeOK
<1> QED
  BY <1>1, <1>2 DEF Inv, Types, FlightTypeOK, FlightInv, CallsInv, Sound

\* The repository only gets newer.
LEMMA RemoteChangesKeeps ==
    ASSUME Inv, RemoteChanges
    PROVE  Inv'
<1>1. UNCHANGED <<call, clientVars, indexVars, offline, scenario, forced, calls, cacheVars,
                  flightVars>>
  BY DEF RemoteChanges
<1>2. /\ remote \in [ver : 1 .. MaxVersion, up : BOOLEAN] /\ MaxVersion \in Nat
      /\ forced \in BOOLEAN
  BY RegistryAssumption DEF Inv, Types, StoreTypes
<1>3. remote' \in [ver : 1 .. MaxVersion, up : BOOLEAN] /\ remote.ver <= remote'.ver
  <2>1. CASE remote.ver < MaxVersion /\ remote' = [remote EXCEPT !.ver = @ + 1]
    BY <1>2, <2>1
  <2>2. CASE remote' = [remote EXCEPT !.up = ~@]
    <3>1. (~remote.up) \in BOOLEAN
      OBVIOUS
    <3>2. remote' = [remote EXCEPT !.up = ~remote.up]
      BY <2>2
    <3>3. \E up \in BOOLEAN : remote' = [remote EXCEPT !.up = up]
      BY <3>1, <3>2, Zenon
    <3> QED
      BY <1>2, <3>3
  <2> QED
    BY <2>1, <2>2 DEF RemoteChanges
<1>4. StoreTypes' /\ IndexInv'
  BY <1>1, <1>3 DEF Inv, Types, StoreTypes, IndexInv, CacheTypeOK
<1>5. FlightTypeOK' /\ FlightInv'
  <2>1. FlightTypeOK'
    BY <1>1 DEF Inv, Types, FlightTypeOK
  <2>2. \A f \in Flight : flight[f] # Grounded => flight[f].since <= remote'.ver
    BY <1>2, <1>3, FlightFacts
  <2> QED
    BY <1>1, <2>1, <2>2 DEF Inv, FlightInv
<1>6. CallsInv'
  <2>1. ASSUME NEW p \in Process
        PROVE  call[p].floor <= remote'.ver
    BY <1>2, <1>3, CallFacts DEF Floors, Call
  <2> QED
    BY <1>1, <2>1, CallFacts DEF CallsInv, Sound, Floors
<1> QED
  BY <1>1, <1>4, <1>5, <1>6 DEF Inv, Types

LEMMA TimePassesKeeps ==
    ASSUME Inv, TimePasses
    PROVE  Inv'
<1>1. UNCHANGED <<call, clientVars, indexVars, remote, offline, scenario, forced, calls,
                  flightVars>>
  BY DEF TimePasses
<1>2. CacheTypeOK /\ \A age \in Age \cup {"torn"} : Older(age) \in Age \cup {"torn"}
                     /\ (age = "torn" <=> Older(age) = "torn")
  BY DEF Inv, Types, StoreTypes, Age, Older
<1>3. PICK k \in CacheKey : Ages(k)
  BY DEF TimePasses
<1>4. CacheTypeOK'
  <2>1. entry' \in [CacheKey -> Age] /\ file' \in [CacheKey -> Nat \cup {Torn}]
    BY <1>2, <1>3 DEF Ages, CacheTypeOK, Age
  <2>2. saved' \in [CacheKey -> Age] \cup {TornManifest}
    <3>1. CASE saved \in [CacheKey -> Age]
      BY <1>2, <1>3, <3>1 DEF Ages, Age
    <3>2. CASE saved = TornManifest
      <4>1. saved' = [TornManifest EXCEPT ![k] = "torn"]
        BY <1>3, <3>2 DEF Ages, Older, TornManifest
      <4> QED
        BY <4>1 DEF TornManifest
    <3> QED
      BY <1>2, <3>1, <3>2 DEF CacheTypeOK
  <2> QED
    BY <2>1, <2>2 DEF CacheTypeOK
<1>5. StoreTypes' /\ IndexInv'
  BY <1>1, <1>4 DEF Inv, Types, StoreTypes, IndexInv
<1> QED
  BY <1>1, <1>5 DEF Inv, Types, FlightTypeOK, FlightInv, CallsInv, Sound

\* When a process starts there are no calls and no flights.
Blank == /\ call = [p \in Process |-> Idle] /\ NoFlights
         /\ StoreTypes /\ IndexInv

LEMMA BlankIsSound == Blank => Inv
<1> SUFFICES ASSUME Blank
             PROVE  Inv
  OBVIOUS
<1> USE DEF Blank
<1>1. /\ FlightTypeOK
      /\ \A f \in Flight : flight[f] = Grounded
      /\ \A k \in FlightKey : inflight[k] = NoFlight
  BY DEF NoFlights, FlightTypeOK, Grounded
<1>2. FlightInv
  BY <1>1 DEF FlightInv, Grounded
<1>3. remote.ver \in Nat /\ forced \in BOOLEAN /\ indexed \in BOOLEAN
      /\ "registry" \in FlightKey
  BY RegistryAssumption DEF StoreTypes
<1>4. Sound(Idle)
  <2>1. Floors(Idle, remote.ver, inflight, flight)
    BY <1>1, <1>3, IdleIsSound DEF Floors
  <2> QED
    BY <1>3, <2>1, IdleIsSound DEF Sound
<1> QED
  BY <1>1, <1>2, <1>4, IdleIsSound DEF Inv, Types, CallsInv

LEMMA RestartKeeps ==
    ASSUME Inv, Restart
    PROVE  Inv'
<1>1. CacheTypeOK'
  <2> DEFINE found == IF saved = TornManifest THEN NoEntries ELSE saved
  <2>1. CacheTypeOK
    BY DEF Inv, Types, StoreTypes
  <2>2. found \in [CacheKey -> Age]
    BY <2>1 DEF CacheTypeOK, NoEntries, Age
  <2>3. entry' \in [CacheKey -> Age]
    BY <2>2 DEF Restart, Initialize, Age
  <2>4. file' \in [CacheKey -> Nat \cup {Torn}]
    BY <2>1 DEF Restart, Initialize, CacheTypeOK, Missing
  <2>5. saved' = entry' \/ saved' = saved
    BY DEF Restart, Initialize
  <2> QED
    BY <2>1, <2>3, <2>4, <2>5 DEF CacheTypeOK
<1>2. StoreTypes' /\ IndexInv'
  BY <1>1, NoIndexIsIndex DEF Restart, Inv, Types, StoreTypes, IndexInv, None
<1>3. NoFlights'
  BY DEF Restart, NoFlights
<1>4. call' = [p \in Process |-> Idle]
  BY DEF Restart
<1>5. Blank'
  BY <1>2, <1>3, <1>4 DEF Blank
<1> QED
  BY <1>5, BlankIsSound, PTL

LEMMA InitIsSound == Init => Inv
<1> SUFFICES ASSUME Init
             PROVE  Inv
  OBVIOUS
<1>1. PICK left \in BOOLEAN, age \in {"fresh", "expired"} :
         /\ disk = IF left THEN [ver |-> 1, rev |-> 1] ELSE NoIndex
         /\ entry = [k \in CacheKey |-> IF left /\ k = "registry" THEN age ELSE "none"]
         /\ file = [k \in CacheKey |-> IF left /\ k = "registry" THEN 1 ELSE Missing]
         /\ saved = entry
         /\ indexed = left
  BY DEF Init
<1>2. CacheTypeOK
  BY <1>1 DEF CacheTypeOK, Age, Missing
<1>3. disk \in Index /\ (left => disk # NoIndex)
  BY <1>1, NoIndexIsIndex DEF Index, NoIndex, IndexOf, None
<1>4. remote \in [ver : 1 .. MaxVersion, up : BOOLEAN]
  BY RegistryAssumption DEF Init
<1>5. StoreTypes /\ IndexInv
  BY <1>1, <1>2, <1>3, <1>4, NoIndexIsIndex DEF Init, StoreTypes, IndexInv, None
<1> QED
  BY <1>5, BlankIsSound DEF Init, Blank

-----------------------------------------------------------------------------
LEMMA StepKeeps ==
    ASSUME Inv, NEW p \in Process, Step(p)
    PROVE  Inv'
  BY UnlinkKeeps, AskIndexKeeps, ReadIndexKeeps, ParseIndexKeeps, UseIndexKeeps,
     CheckIndexKeeps, AskCacheKeeps, UseCacheKeeps, LandKeeps, LandManifestKeeps,
     ReviseKeeps, SaveIndexKeeps, SaveIndexFailsKeeps, RememberIndexKeeps, PutFailsKeeps,
     PutInCacheKeeps, EmittedKeeps, ReturnKeeps DEF Step

LEMMA NextKeeps == Inv /\ [Next]_vars => Inv'
<1> SUFFICES ASSUME Inv, [Next]_vars
             PROVE  Inv'
  OBVIOUS
<1>1. CASE \E p \in Caller : CallLoad(p) \/ CallLookup(p) \/ CallManifest(p) \/ ClearCache(p)
  BY <1>1, CallLoadKeeps, CallLookupKeeps, CallManifestKeeps, ClearCacheKeeps DEF Process
<1>2. CASE \E p \in Process : Step(p)
  BY <1>2, StepKeeps
<1>3. CASE \E f \in Flight : Request(f) \/ Answer(f)
  BY <1>3, RequestKeeps, AnswerKeeps
<1>4. CASE Invalidate \/ SetOffline \/ RemoteChanges \/ TimePasses \/ Restart
  BY <1>4, InvalidateKeeps, SetOfflineKeeps, RemoteChangesKeeps, TimePassesKeeps, RestartKeeps
<1>5. CASE UNCHANGED vars
  BY <1>5 DEF vars, Inv, Types, StoreTypes, CacheTypeOK, FlightTypeOK, FlightInv, IndexInv,
              CallsInv, Sound
<1> QED
  BY <1>1, <1>2, <1>3, <1>4, <1>5 DEF Next

LEMMA Invariance == Spec => []Inv
  BY InitIsSound, NextKeeps, PTL DEF Spec

\* Every variable of the client, of the cache and of the flights has its type.
THEOREM TypeCorrect == Spec => []TypeOK
<1>1. Inv => TypeOK
  <2> SUFFICES ASSUME Inv
               PROVE  TypeOK
    OBVIOUS
  <2>1. DOMAIN Idle = {"pc", "op", "force", "refresh", "policy", "local", "age", "index",
                       "flight", "value", "late", "stale", "fell", "entries", "floor", "sure"}
    BY DEF Idle
  <2>2. \A c \in Call : DOMAIN c = {"pc", "op", "force", "refresh", "policy", "local", "age",
                       "index", "flight", "value", "late", "stale", "fell", "entries", "floor",
                       "sure"}
    BY DEF Call
  <2>3. \A p \in Process : DOMAIN call[p] = DOMAIN Idle
    BY <2>1, <2>2, CallFacts
  <2> QED
    BY <2>3 DEF Inv, Types, StoreTypes, TypeOK, Index
<1> QED
  BY <1>1, Invariance, PTL

\* Whoever interleaves with whom, nobody joins a flight that is over, and
\* unless clear was called no two flights of one key are under way.
THEOREM SharedFlights == Spec => []FlightsShared
<1>1. Inv => FlightsShared
  <2> SUFFICES ASSUME Inv
               PROVE  FlightsShared
    OBVIOUS
  <2>1. \A k \in FlightKey : inflight[k] # NoFlight =>
           Flying(inflight[k]) /\ flight[inflight[k]].key = k
    BY FlightFacts DEF Flying
  <2>2. ~cleared => \A f, g \in Flight :
           Flying(f) /\ Flying(g) /\ flight[f].key = flight[g].key => f = g
    BY DEF Inv, FlightInv, Flying
  <2> QED
    BY <2>1, <2>2 DEF FlightsShared
<1> QED
  BY <1>1, Invariance, PTL

\* A forced load that discovery serves has a version that the repository had
\* when the load began, when the flight that it joined began, or later:
\* no interleaving with saves of older loads hands it less.
THEOREM ForcedLoadsAreFetched == Spec => []ForcedIsFetched
<1>1. Inv => ForcedIsFetched
  BY CallFacts DEF ForcedIsFetched, Fetches, FetchedPcs, Process, At
<1> QED
  BY <1>1, Invariance, PTL

\* A load that begins when an index was saved finds it or fetches, and never
\* fails, until a load is forced.
THEOREM StaleDataIsServed == Spec => []StaleIsServed
<1>1. Inv => StaleIsServed
  BY CallFacts DEF StaleIsServed, Finds, Process, At
<1> QED
  BY <1>1, Invariance, PTL

=============================================================================
