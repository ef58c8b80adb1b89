--------------------------- MODULE ServicesProofs ---------------------------
(***************************************************************************)
(* Theorems about the services: of each what its own behaviours keep, for  *)
(* every value of its constants, and then of Services.                     *)
(***************************************************************************)
EXTENDS Services, FiniteSetTheorems, SequenceTheorems, WellFoundedInduction, TLAPS

-----------------------------------------------------------------------------
(* The concurrency limiter of the registry.  Its count is never below the  *)
(* number of functions that run: a call that times out in the queue makes  *)
(* it too high, never too low.                                             *)

CountCovers == ~cleared => Cardinality(Active) <= running

Inv == TypeOK /\ CountCovers /\ QueuedOnlyWhenFull

LEMMA ActiveFinite ==
    ASSUME NEW S \in SUBSET Task
    PROVE  IsFiniteSet(S) /\ Cardinality(S) \in Nat
  BY LimiterAssumption, FS_Subset, FS_CardinalityType

LEMMA InitInv == Init => Inv
<1> SUFFICES ASSUME Init
             PROVE  Inv
  OBVIOUS
<1>1. TypeOK
  <2>1. pc \in [Task -> {"idle", "queued", "active", "rejected", "finished"}]
    BY DEF Init
  <2>2. running \in 0 .. MaxConcurrent /\ queue \in Seq(Task)
    BY LimiterAssumption DEF Init
  <2>3. cleared \in BOOLEAN
    BY DEF Init
  <2> QED
    BY <2>1, <2>2, <2>3 DEF TypeOK
<1>2. Active = {}
  BY DEF Init, Active
<1>3. CountCovers
  BY <1>2, FS_EmptySet DEF Init, CountCovers
<1>4. QueuedOnlyWhenFull
  BY DEF Init, QueuedOnlyWhenFull
<1> QED
  BY <1>1, <1>3, <1>4 DEF Inv

\* One more function runs: one that was not running.
LEMMA AcquireInv ==
    ASSUME Inv, NEW t \in Task, Acquire(t)
    PROVE  Inv'
<1>t. TypeOK /\ MaxConcurrent \in Nat /\ IsFiniteSet(Active)
  BY LimiterAssumption, ActiveFinite DEF Inv, Active
<1>1. CASE running < MaxConcurrent
  <2>1. /\ running' = running + 1 /\ UNCHANGED <<queue, cleared>>
        /\ pc' = [pc EXCEPT ![t] = "active"]
    BY <1>1 DEF Acquire
  <2>2. Active' = Active \cup {t} /\ t \notin Active
    BY <1>t, <2>1 DEF Acquire, Active, TypeOK
  <2>3. Cardinality(Active') = Cardinality(Active) + 1
    BY <1>t, <2>2, FS_AddElement
  <2>4. TypeOK'
    BY <1>1, <1>t, <2>1 DEF TypeOK
  <2>5. CountCovers'
    BY <1>t, <2>1, <2>3, ActiveFinite DEF Inv, CountCovers, TypeOK, Active
  <2>6. queue = <<>>
    BY <1>1, <1>t DEF Inv, QueuedOnlyWhenFull, TypeOK
  <2> QED
    BY <2>1, <2>4, <2>5, <2>6 DEF Inv, QueuedOnlyWhenFull
<1>2. CASE ~(running < MaxConcurrent)
  <2>1. /\ queue' = Append(queue, t) /\ UNCHANGED <<running, cleared>>
        /\ pc' = [pc EXCEPT ![t] = "queued"] /\ pc[t] = "idle"
    BY <1>2 DEF Acquire
  <2>2. Active' = Active
    BY <1>t, <2>1 DEF Active, TypeOK
  <2>3. TypeOK'
    BY <1>t, <2>1 DEF TypeOK
  <2>4. running = MaxConcurrent
    BY <1>2, <1>t DEF TypeOK
  <2> QED
    BY <2>1, <2>2, <2>3, <2>4 DEF Inv, CountCovers, QueuedOnlyWhenFull
<1> QED
  BY <1>1, <1>2

LEMMA TimeOutInv ==
    ASSUME Inv, NEW t \in Task, TimeOut(t)
    PROVE  Inv'
<1>1. Active' = Active
  BY DEF TimeOut, Active, Inv, TypeOK
<1>2. TypeOK'
  BY DEF TimeOut, Inv, TypeOK
<1> QED
  BY <1>1, <1>2 DEF TimeOut, Inv, CountCovers, QueuedOnlyWhenFull

\* One function ends and at most one begins.
LEMMA ReleaseInv ==
    ASSUME Inv, NEW t \in Task, Release(t)
    PROVE  Inv'
<1>t. /\ TypeOK /\ MaxConcurrent \in Nat \ {0} /\ IsFiniteSet(Active)
      /\ t \in Active /\ Cardinality(Active) \in Nat /\ UNCHANGED cleared
  BY LimiterAssumption, ActiveFinite DEF Inv, Active, Release
<1>1. IsFiniteSet(Active \ {t}) /\ Cardinality(Active \ {t}) = Cardinality(Active) - 1
  BY <1>t, FS_RemoveElement
<1>2. ~cleared => Cardinality(Active) <= running /\ running > 0
  <2>1. Cardinality(Active) # 0
    BY <1>t, FS_EmptySet
  <2> QED
    BY <1>t, <2>1 DEF Inv, CountCovers, TypeOK
<1>3. CASE queue = <<>>
  <2>1. /\ running' = Less(running) /\ UNCHANGED queue
        /\ pc' = [pc EXCEPT ![t] = "finished"]
    BY <1>3 DEF Release
  <2>2. Active' = Active \ {t}
    BY <1>t, <2>1 DEF Active, TypeOK
  <2>3. TypeOK'
    BY <1>t, <2>1 DEF TypeOK, Less
  <2>4. CountCovers'
    BY <1>t, <1>1, <1>2, <2>1, <2>2 DEF CountCovers, TypeOK, Less
  <2> QED
    BY <1>3, <2>1, <2>3, <2>4 DEF Inv, QueuedOnlyWhenFull
<1>4. CASE queue # <<>>
  <2> DEFINE h == Head(queue)
  <2>1. /\ running' = Less(running) + 1 /\ queue' = Tail(queue)
        /\ pc' = [pc EXCEPT ![t] = "finished",
                            ![h] = IF @ = "queued" THEN "active" ELSE @]
    BY <1>4 DEF Release
  <2>2. h \in Task /\ queue' \in Seq(Task)
    BY <1>t, <1>4, <2>1 DEF TypeOK
  <2>3. running = MaxConcurrent
    BY <1>4 DEF Inv, QueuedOnlyWhenFull
  <2>4. running' = running
    BY <1>t, <2>1, <2>3 DEF Less
  <2>5. pc' \in [Task -> {"idle", "queued", "active", "rejected", "finished"}]
    BY <1>t, <2>1, <2>2 DEF TypeOK
  <2>6. Active' \subseteq (Active \ {t}) \cup {h}
    BY <1>t, <2>1, <2>2 DEF Active, TypeOK
  <2>7. IsFiniteSet((Active \ {t}) \cup {h})
        /\ Cardinality((Active \ {t}) \cup {h}) <= Cardinality(Active)
    <3> DEFINE Rest == Active \ {t}
    <3>0. IsFiniteSet(Rest) /\ Cardinality(Rest) = Cardinality(Active) - 1
      BY <1>1
    <3> HIDE DEF Rest
    <3>1. /\ IsFiniteSet(Rest \cup {h})
          /\ \/ Cardinality(Rest \cup {h}) = Cardinality(Rest)
             \/ Cardinality(Rest \cup {h}) = Cardinality(Rest) + 1
      <4>1. CASE h \in Rest
        <5>1. Rest \cup {h} = Rest
          BY <4>1
        <5> QED
          BY <3>0, <5>1
      <4>2. CASE h \notin Rest
        BY <3>0, <4>2, FS_AddElement
      <4> QED
        BY <4>1, <4>2
    <3>2. Cardinality(Rest \cup {h}) <= Cardinality(Active)
      BY <1>t, <3>0, <3>1
    <3> QED
      BY <3>1, <3>2 DEF Rest
  <2>8. Cardinality(Active') <= Cardinality(Active)
    <3>1. /\ Cardinality(Active') \in Nat
          /\ Cardinality((Active \ {t}) \cup {h}) \in Nat
      BY <2>6, <2>7, FS_Subset, FS_CardinalityType
    <3>2. Cardinality(Active') <= Cardinality((Active \ {t}) \cup {h})
      BY <2>6, <2>7, FS_Subset
    <3> QED
      BY <1>t, <2>7, <3>1, <3>2
  <2>9. CountCovers'
    <3>1. Cardinality(Active') \in Nat
      BY <2>6, <2>7, FS_Subset, FS_CardinalityType
    <3> QED
      BY <1>t, <2>4, <2>8, <3>1 DEF Inv, CountCovers, TypeOK
  <2> QED
    BY <1>t, <2>2, <2>3, <2>4, <2>5, <2>9 DEF Inv, TypeOK, QueuedOnlyWhenFull
<1> QED
  BY <1>3, <1>4

LEMMA ClearInv ==
    ASSUME Inv, Clear
    PROVE  Inv'
  BY LimiterAssumption
  DEF Clear, Inv, TypeOK, CountCovers, QueuedOnlyWhenFull

LEMMA NextInv == Inv /\ [Next]_vars => Inv'
<1> SUFFICES ASSUME Inv, [Next]_vars
             PROVE  Inv'
  OBVIOUS
<1>1. CASE UNCHANGED vars
  BY <1>1 DEF vars, Inv, TypeOK, CountCovers, QueuedOnlyWhenFull, Active
<1> QED
  BY <1>1, AcquireInv, TimeOutInv, ReleaseInv, ClearInv DEF Next

\* Unless the limiter is cleared, no more than MaxConcurrent functions run at
\* a time, however many calls time out in the queue.
THEOREM LimitHolds == Spec => []NeverOverLimit
<1>1. Inv => NeverOverLimit
  <2>1. Cardinality(Active) \in Nat
    BY ActiveFinite DEF Active
  <2> QED
    BY <2>1, LimiterAssumption DEF Inv, CountCovers, TypeOK, NeverOverLimit
<1> QED
  BY <1>1, InitInv, NextInv, PTL DEF Spec

\* A call waits only while the limiter counts all its slots as taken.
THEOREM NoOvertaking == Spec => []QueuedOnlyWhenFull
<1>1. Inv => QueuedOnlyWhenFull
  BY DEF Inv
<1> QED
  BY <1>1, InitInv, NextInv, PTL DEF Spec

-----------------------------------------------------------------------------
(* The locks of a project                                                  *)

\* A file with a pid in it is that of the process that wrote it, which has not
\* released it.
OwnerKnown ==
    /\ where = [p \in Process |-> where[p]]
    /\ lockFile # Lock!NoFile =>
         /\ lockFile = [owner |-> lockFile.owner, written |-> lockFile.written,
                        old |-> lockFile.old]
         /\ lockFile.owner \in Process
         /\ \/ lockFile.written = TRUE /\ where[lockFile.owner] \in {"holding", "dead"}
            \/ lockFile.written = FALSE

LEMMA LockStep == OwnerKnown /\ [Lock!LockNext]_(Lock!lockVars) => OwnerKnown'
<1> SUFFICES ASSUME OwnerKnown, [Lock!LockNext]_(Lock!lockVars)
             PROVE  OwnerKnown'
  OBVIOUS
<1> USE DEF OwnerKnown, Lock!NoFile, Lock!To
<1>1. CASE UNCHANGED Lock!lockVars
  BY <1>1 DEF Lock!lockVars
<1>2. CASE Lock!GrowOld \/ Lock!FindOldLock \/ Lock!DeleteOldLock
  BY <1>2 DEF Lock!GrowOld, Lock!FindOldLock, Lock!DeleteOldLock
<1>3. ASSUME NEW p \in Process, Lock!CreateLock(p) \/ Lock!WritePid(p)
      PROVE  OwnerKnown'
  BY <1>3 DEF Lock!CreateLock, Lock!WritePid
<1>4. ASSUME NEW p \in Process,
             \/ Lock!FindLock(p) \/ Lock!Judge(p) \/ Lock!GiveUpLock(p) \/ Lock!Die(p)
      PROVE  OwnerKnown'
  BY <1>4 DEF Lock!FindLock, Lock!Judge, Lock!GiveUpLock, Lock!Die
<1>5. ASSUME NEW p \in Process, Lock!DeleteLock(p) \/ Lock!ReleaseLock(p)
      PROVE  OwnerKnown'
  BY <1>5 DEF Lock!DeleteLock, Lock!ReleaseLock
<1> QED
  BY <1>1, <1>2, <1>3, <1>4, <1>5 DEF Lock!LockNext

\* A lock file is that of a process that will give it back, or stale: no
\* process waits for a lock that nobody gives back, however the processes and
\* the doctor delete each other's files (acquireLock, _isStaleLock).
THEOREM LocksComeBack ==
    Lock!LockInit /\ [][Lock!LockNext]_(Lock!lockVars) => []Lock!LocksAreGivenBack
<1>1. Lock!LockInit => OwnerKnown
  BY DEF Lock!LockInit, OwnerKnown
<1>2. OwnerKnown => Lock!LocksAreGivenBack
  BY DEF OwnerKnown, Lock!LocksAreGivenBack, Lock!IsStale
<1> QED
  BY <1>1, <1>2, LockStep, PTL

-----------------------------------------------------------------------------
(* The network client                                                      *)

USE ClientAssumption DEF ClientAssumption

Holders == {c \in Fetch : at[c] \in {"running", "answered"}}

SlotsCounted ==
    /\ at = [c \in Fetch |-> at[c]]
    /\ slots = Cardinality(Holders)
    /\ line # <<>> => slots > 0

LEMMA NetworkStep ==
    ASSUME SlotsCounted, [Net!NetworkNext]_(Net!networkVars)
    PROVE  SlotsCounted'
<1>1. ASSUME NEW S, S \subseteq Fetch
      PROVE  IsFiniteSet(S) /\ Cardinality(S) \in Nat
  BY <1>1, FS_Subset, FS_CardinalityType
<1>2. IsFiniteSet(Holders) /\ slots \in Nat
  BY <1>1 DEF Holders, SlotsCounted
<1>3. CASE UNCHANGED <<at, slots, line>>
  BY <1>3 DEF SlotsCounted, Holders
<1>4. ASSUME NEW c \in Fetch, Net!Start(c)
      PROVE  SlotsCounted'
  <2>1. at[c] = "admitted" /\ at' = [at EXCEPT ![c] = "running"] /\ slots' = slots + 1
    BY <1>4 DEF Net!Start
  <2>2. Holders' = Holders \cup {c} /\ c \notin Holders
    BY <2>1 DEF Holders, SlotsCounted
  <2>3. Cardinality(Holders') = Cardinality(Holders) + 1
    BY <1>2, <2>2, FS_AddElement
  <2> QED
    BY <1>2, <2>1, <2>3 DEF SlotsCounted
<1>5. ASSUME NEW c \in Fetch, Net!Settle(c)
      PROVE  SlotsCounted'
  <2>1. /\ at[c] = "answered" /\ slots' = slots - 1
        /\ line' = IF slots' < MaxConcurrency THEN <<>> ELSE line
        /\ at' = [o \in Fetch |->
                    IF o = c THEN "done"
                    ELSE IF at[o] = "waiting" /\ slots' < MaxConcurrency THEN "admitted"
                    ELSE at[o]]
    BY <1>5 DEF Net!Settle, Net!Drained
  <2>2. Holders' = Holders \ {c} /\ c \in Holders
    BY <2>1 DEF Holders
  <2>3. Cardinality(Holders') = Cardinality(Holders) - 1
    BY <1>2, <2>2, FS_RemoveElement
  <2>4. slots' \in Nat
    BY <1>1, <2>1, <2>2, <2>3 DEF Holders, SlotsCounted
  <2> QED
    BY <2>1, <2>3, <2>4 DEF SlotsCounted
<1>6. ASSUME NEW c \in Fetch,
             \/ Net!Join(c) \/ Net!WaitForSlot(c) \/ Net!Succeed(c)
             \/ Net!FailTransient(c) \/ Net!Refuse(c) \/ Net!SettleJoined(c)
      PROVE  SlotsCounted'
  <2>1. Holders' = Holders
    BY <1>6 DEF SlotsCounted, Holders, Net!Join, Net!WaitForSlot, Net!Succeed,
                Net!FailTransient, Net!Refuse, Net!SettleJoined
  <2>2. UNCHANGED slots /\ at' = [o \in Fetch |-> at'[o]]
    BY <1>6 DEF SlotsCounted, Net!Join, Net!WaitForSlot, Net!Succeed,
                Net!FailTransient, Net!Refuse, Net!SettleJoined
  <2>3. line' # <<>> => slots > 0
    BY <1>2, <1>6 DEF SlotsCounted, Net!Join, Net!WaitForSlot, Net!Succeed,
                Net!FailTransient, Net!Refuse, Net!SettleJoined
  <2> QED
    BY <2>1, <2>2, <2>3 DEF SlotsCounted
<1> QED
  BY <1>3, <1>4, <1>5, <1>6 DEF Net!NetworkNext, Net!networkVars, Net!ClearCache

\* The count of slots is that of the requests that are under way, and nobody
\* waits for one while none is: the last of them looks at the line
\* (NetworkClient: fetch, _processQueue).
THEOREM NobodyIsStranded ==
    Net!NetworkInit /\ [][Net!NetworkNext]_(Net!networkVars) => []Net!NobodyStranded
<1>1. Net!NetworkInit => SlotsCounted
  <2>1. Net!NetworkInit => Holders = {}
    BY DEF Net!NetworkInit, Holders
  <2> QED
    BY <2>1, FS_EmptySet DEF Net!NetworkInit, SlotsCounted
<1>2. SlotsCounted => Net!NobodyStranded
  <2>1. \A S : Net!Cardinality(S) = Cardinality(S)
    BY DEF Net!Cardinality, Cardinality
  <2> QED
    BY <2>1 DEF SlotsCounted, Net!NobodyStranded, Holders
<1>3. SlotsCounted /\ [Net!NetworkNext]_(Net!networkVars) => SlotsCounted'
  BY NetworkStep
<1> QED
  BY <1>1, <1>2, <1>3, PTL

HIDE ClientAssumption DEF ClientAssumption

-----------------------------------------------------------------------------
(* The slots of the categories of requests                                 *)

USE RuntimeAssumption DEF RuntimeAssumption

Running(k) == {r \in Run : slot[r] = "running" /\ categoryOf[r] = k}

\* The queue of a category has calls of it that wait, each of them once.
QueueSound(k) ==
    /\ waiting[k] \in Seq(Run)
    /\ \A i \in 1 .. Len(waiting[k]) :
          /\ slot[waiting[k][i]] = "waiting" /\ categoryOf[waiting[k][i]] = k
          /\ \A j \in 1 .. Len(waiting[k]) : waiting[k][i] = waiting[k][j] => i = j

SlotsTaken(k) ==
    /\ busy[k] = Cardinality(Running(k)) /\ busy[k] <= Limit[k]
    /\ waiting[k] # <<>> => busy[k] = Limit[k]

CategoriesCounted ==
    /\ slot = [r \in Run |-> slot[r]]
    /\ busy = [k \in Category |-> busy[k]] /\ waiting = [k \in Category |-> waiting[k]]
    /\ \A k \in Category : QueueSound(k) /\ SlotsTaken(k)

LEMMA AcquireSlotKeeps ==
    ASSUME CategoriesCounted, NEW r \in Run, Rt!AcquireSlot(r)
    PROVE  CategoriesCounted'
<1> DEFINE k == categoryOf[r]
<1>0. k \in Category /\ slot[r] = "new"
  BY DEF Rt!AcquireSlot
<1>1. \A o \in Category : /\ busy[o] = Cardinality(Running(o)) /\ busy[o] <= Limit[o]
                          /\ waiting[o] # <<>> => busy[o] = Limit[o]
                          /\ IsFiniteSet(Running(o)) /\ Cardinality(Running(o)) \in Nat
                          /\ QueueSound(o)
  <2>1. \A o : IsFiniteSet(Running(o)) /\ Cardinality(Running(o)) \in Nat
    BY FS_Subset, FS_CardinalityType DEF Running
  <2> QED
    BY <2>1 DEF CategoriesCounted, SlotsTaken
<1>2. CASE busy[k] < Limit[k]
  <2>1. /\ busy' = [busy EXCEPT ![k] = @ + 1] /\ slot' = [slot EXCEPT ![r] = "running"]
        /\ UNCHANGED waiting
    BY <1>2 DEF Rt!AcquireSlot
  <2>2. \A o \in Category : Running(o)' = IF o = k THEN Running(o) \cup {r} ELSE Running(o)
    BY <1>0, <2>1 DEF CategoriesCounted, Running
  <2>3. r \notin Running(k)
    BY <1>0 DEF Running
  <2>4. Cardinality(Running(k) \cup {r}) = Cardinality(Running(k)) + 1
    BY <1>0, <1>1, <2>3, FS_AddElement
  <2>5. waiting[k] = <<>>
    BY <1>0, <1>1, <1>2
  <2>6. \A o \in Category : QueueSound(o)'
    BY <1>0, <1>1, <2>1 DEF QueueSound, CategoriesCounted
  <2>7. \A o \in Category : SlotsTaken(o)'
    <3> SUFFICES ASSUME NEW o \in Category
                 PROVE  /\ busy'[o] = Cardinality(Running(o)') /\ busy'[o] <= Limit[o]
                        /\ waiting'[o] # <<>> => busy'[o] = Limit[o]
      BY DEF SlotsTaken
    <3>1. CASE o = k
      <4>1. Running(o)' = Running(k) \cup {r} /\ busy'[o] = busy[k] + 1 /\ waiting'[o] = <<>>
        BY <1>0, <2>1, <2>2, <2>5, <3>1 DEF CategoriesCounted
      <4>2. busy[k] = Cardinality(Running(k)) /\ Cardinality(Running(k)) \in Nat /\ Limit[k] \in Nat
        BY <1>0, <1>1
      <4> QED
        BY <1>2, <2>4, <3>1, <4>1, <4>2
    <3>2. CASE o # k
      <4>1. Running(o)' = Running(o) /\ busy'[o] = busy[o] /\ waiting'[o] = waiting[o]
        BY <2>1, <2>2, <3>2 DEF CategoriesCounted
      <4> QED
        BY <1>1, <4>1
    <3> QED
      BY <3>1, <3>2
  <2> QED
    BY <2>1, <2>6, <2>7 DEF CategoriesCounted
<1>3. CASE ~(busy[k] < Limit[k])
  <2>1. /\ waiting' = [waiting EXCEPT ![k] = Append(@, r)]
        /\ slot' = [slot EXCEPT ![r] = "waiting"] /\ UNCHANGED busy
    BY <1>3 DEF Rt!AcquireSlot
  <2>2. \A o \in Category : Running(o)' = Running(o)
    BY <1>0, <2>1 DEF CategoriesCounted, Running
  <2>3. \A o \in Category : QueueSound(o)'
    <3> SUFFICES ASSUME NEW o \in Category
                 PROVE  QueueSound(o)'
      OBVIOUS
    <3>1. \A i \in 1 .. Len(waiting[o]) : waiting[o][i] # r
      BY <1>0, <1>1 DEF QueueSound
    <3>2. CASE o # k
      BY <1>0, <1>1, <2>1, <3>1, <3>2 DEF QueueSound, CategoriesCounted
    <3>3. CASE o = k
      <4>1. waiting'[o] = Append(waiting[o], r)
        BY <2>1, <3>3 DEF CategoriesCounted
      <4> QED
        BY <1>0, <1>1, <2>1, <3>1, <3>3, <4>1 DEF QueueSound, CategoriesCounted
    <3> QED
      BY <3>2, <3>3
  <2>4. \A o \in Category : SlotsTaken(o)'
    <3> SUFFICES ASSUME NEW o \in Category
                 PROVE  /\ busy'[o] = Cardinality(Running(o)') /\ busy'[o] <= Limit[o]
                        /\ waiting'[o] # <<>> => busy'[o] = Limit[o]
      BY DEF SlotsTaken
    <3> QED
      BY <1>0, <1>1, <1>3, <2>1, <2>2 DEF CategoriesCounted
  <2> QED
    BY <2>1, <2>3, <2>4 DEF CategoriesCounted
<1> QED
  BY <1>2, <1>3

LEMMA ReleaseSlotKeeps ==
    ASSUME CategoriesCounted, NEW r \in Run, Rt!ReleaseSlot(r)
    PROVE  CategoriesCounted'
<1> DEFINE k == categoryOf[r]
<1>0. k \in Category /\ slot[r] = "running"
  BY DEF Rt!ReleaseSlot
<1>1. \A o \in Category : /\ busy[o] = Cardinality(Running(o)) /\ busy[o] <= Limit[o]
                          /\ waiting[o] # <<>> => busy[o] = Limit[o]
                          /\ IsFiniteSet(Running(o)) /\ Cardinality(Running(o)) \in Nat
                          /\ QueueSound(o)
  <2>1. \A o : IsFiniteSet(Running(o)) /\ Cardinality(Running(o)) \in Nat
    BY FS_Subset, FS_CardinalityType DEF Running
  <2> QED
    BY <2>1 DEF CategoriesCounted, SlotsTaken
<1>2. /\ r \in Running(k) /\ IsFiniteSet(Running(k) \ {r})
      /\ Cardinality(Running(k) \ {r}) = Cardinality(Running(k)) - 1
  <2>1. r \in Running(k)
    BY <1>0 DEF Running
  <2> QED
    BY <1>0, <1>1, <2>1, FS_RemoveElement
<1>3. CASE waiting[k] = <<>>
  <2>1. /\ busy' = [busy EXCEPT ![k] = @ - 1] /\ slot' = [slot EXCEPT ![r] = "done"]
        /\ UNCHANGED waiting
    BY <1>3 DEF Rt!ReleaseSlot
  <2>2. \A o \in Category : Running(o)' = IF o = k THEN Running(o) \ {r} ELSE Running(o)
    BY <1>0, <2>1 DEF CategoriesCounted, Running
  <2>3. \A o \in Category : QueueSound(o)'
    BY <1>0, <1>1, <2>1 DEF QueueSound, CategoriesCounted
  <2>4. \A o \in Category : SlotsTaken(o)'
    <3> SUFFICES ASSUME NEW o \in Category
                 PROVE  /\ busy'[o] = Cardinality(Running(o)') /\ busy'[o] <= Limit[o]
                        /\ waiting'[o] # <<>> => busy'[o] = Limit[o]
      BY DEF SlotsTaken
    <3>1. CASE o = k
      <4>1. Running(o)' = Running(k) \ {r} /\ busy'[o] = busy[k] - 1 /\ waiting'[o] = <<>>
        BY <1>0, <1>3, <2>1, <2>2, <3>1 DEF CategoriesCounted
      <4>2. /\ busy[k] = Cardinality(Running(k)) /\ Cardinality(Running(k)) \in Nat
            /\ Limit[k] \in Nat /\ busy[k] <= Limit[k]
        BY <1>0, <1>1
      <4> QED
        BY <1>2, <3>1, <4>1, <4>2
    <3>2. CASE o # k
      <4>1. Running(o)' = Running(o) /\ busy'[o] = busy[o] /\ waiting'[o] = waiting[o]
        BY <2>1, <2>2, <3>2 DEF CategoriesCounted
      <4> QED
        BY <1>1, <4>1
    <3> QED
      BY <3>1, <3>2
  <2> QED
    BY <2>1, <2>3, <2>4 DEF CategoriesCounted
<1>4. CASE waiting[k] # <<>>
  <2> DEFINE h == Head(waiting[k])
  <2>1. /\ slot' = [slot EXCEPT ![r] = "done", ![h] = "running"]
        /\ waiting' = [waiting EXCEPT ![k] = Tail(@)] /\ UNCHANGED busy
    BY <1>4 DEF Rt!ReleaseSlot
  <2>2. h \in Run /\ slot[h] = "waiting" /\ categoryOf[h] = k /\ h = waiting[k][1]
    BY <1>0, <1>1, <1>4 DEF QueueSound
  <2> HIDE DEF h
  <2>3. \A o \in Category :
          Running(o)' = IF o = k THEN (Running(o) \ {r}) \cup {h} ELSE Running(o)
    BY <1>0, <2>1, <2>2 DEF CategoriesCounted, Running
  <2>4. h \notin Running(k) \ {r}
    BY <2>2 DEF Running
  <2>5. Cardinality((Running(k) \ {r}) \cup {h}) = Cardinality(Running(k))
    <3>1. Cardinality((Running(k) \ {r}) \cup {h}) = Cardinality(Running(k) \ {r}) + 1
      BY <1>2, <2>4, FS_AddElement
    <3> QED
      BY <1>0, <1>1, <1>2, <3>1
  <2>6. \A o \in Category : QueueSound(o)'
    <3> SUFFICES ASSUME NEW o \in Category
                 PROVE  QueueSound(o)'
      OBVIOUS
    <3>1. \A i \in 1 .. Len(waiting[o]) : waiting[o][i] # r
      BY <1>0, <1>1 DEF QueueSound
    <3>2. CASE o # k
      <4>1. waiting'[o] = waiting[o]
        BY <2>1, <3>2 DEF CategoriesCounted
      <4>2. QueueSound(o)
        BY <1>1
      <4>3. \A i \in 1 .. Len(waiting[o]) : slot'[waiting[o][i]] = "waiting"
        <5>1. \A i \in 1 .. Len(waiting[o]) :
                /\ waiting[o][i] \in Run /\ waiting[o][i] # r /\ waiting[o][i] # h
                /\ slot[waiting[o][i]] = "waiting"
          BY <2>2, <3>1, <3>2, <4>2 DEF QueueSound
        <5>2. \A p \in Run : p # r /\ p # h => slot'[p] = slot[p]
          BY <2>1 DEF CategoriesCounted
        <5> QED
          BY <5>1, <5>2
      <4> QED
        BY <4>1, <4>2, <4>3 DEF QueueSound
    <3>3. CASE o = k
      <4> DEFINE q == waiting[k]
      <4>1. waiting'[o] = Tail(q) /\ q \in Seq(Run) /\ q # <<>>
        BY <1>0, <1>1, <1>4, <2>1, <3>3 DEF CategoriesCounted, QueueSound
      <4>2. /\ Tail(q) \in Seq(Run)
            /\ \A i \in 1 .. Len(Tail(q)) : Tail(q)[i] = q[i + 1] /\ i + 1 \in 1 .. Len(q)
        BY <4>1
      <4>3. \A i \in 1 .. Len(Tail(q)) :
              /\ slot[Tail(q)[i]] = "waiting" /\ categoryOf[Tail(q)[i]] = k
              /\ Tail(q)[i] # h /\ Tail(q)[i] # r
              /\ \A j \in 1 .. Len(Tail(q)) : Tail(q)[i] = Tail(q)[j] => i = j
        BY <1>0, <1>1, <1>4, <2>2, <3>1, <3>3, <4>1, <4>2 DEF QueueSound
      <4> HIDE DEF q
      <4>4. \A i \in 1 .. Len(Tail(q)) : slot'[Tail(q)[i]] = "waiting"
        BY <2>1, <2>2, <4>2, <4>3 DEF CategoriesCounted
      <4> QED
        BY <3>3, <4>1, <4>2, <4>3, <4>4 DEF QueueSound
    <3> QED
      BY <3>2, <3>3
  <2>7. \A o \in Category : SlotsTaken(o)'
    <3> SUFFICES ASSUME NEW o \in Category
                 PROVE  /\ busy'[o] = Cardinality(Running(o)') /\ busy'[o] <= Limit[o]
                        /\ waiting'[o] # <<>> => busy'[o] = Limit[o]
      BY DEF SlotsTaken
    <3>1. waiting'[o] # <<>> => waiting[o] # <<>>
      BY <1>4, <2>1 DEF CategoriesCounted
    <3> QED
      BY <1>0, <1>1, <2>1, <2>3, <2>5, <3>1 DEF CategoriesCounted
  <2> QED
    BY <2>1, <2>6, <2>7 DEF CategoriesCounted
<1> QED
  BY <1>3, <1>4

\* A call waits only while calls of its own category have all slots of the
\* category, and no more of them run than there are
\* (CategoryConcurrencyLimiter).
THEOREM SlotsAreOfTheCategory ==
    Rt!RuntimeInit /\ [][Rt!RuntimeNext]_(Rt!runtimeVars) => []Rt!SlotsOfOwnCategory
<1>1. Rt!RuntimeInit => CategoriesCounted
  <2> SUFFICES ASSUME Rt!RuntimeInit
               PROVE  CategoriesCounted
    OBVIOUS
  <2>1. \A k \in Category : Running(k) = {}
    BY DEF Rt!RuntimeInit, Running
  <2>2. \A k \in Category : SlotsTaken(k)
    <3>1. \A k \in Category : busy[k] = 0 /\ waiting[k] = <<>> /\ Limit[k] \in Nat
      BY DEF Rt!RuntimeInit
    <3>2. Cardinality({}) = 0
      BY FS_EmptySet
    <3>3. \A k \in Category : Cardinality(Running(k)) = 0
      BY <2>1, <3>2, Zenon
    <3> QED
      BY <3>1, <3>3 DEF SlotsTaken
  <2>3. \A k \in Category : QueueSound(k)
    BY DEF Rt!RuntimeInit, QueueSound
  <2> QED
    BY <2>2, <2>3 DEF Rt!RuntimeInit, CategoriesCounted
<1>2. CategoriesCounted /\ [Rt!RuntimeNext]_(Rt!runtimeVars) => CategoriesCounted'
  <2> SUFFICES ASSUME CategoriesCounted, [Rt!RuntimeNext]_(Rt!runtimeVars)
               PROVE  CategoriesCounted'
    OBVIOUS
  <2>1. CASE UNCHANGED Rt!limiterVars
    <3>1. UNCHANGED <<slot, busy, waiting>>
      BY <2>1 DEF Rt!limiterVars
    <3>2. \A k : Running(k)' = Running(k)
      BY <3>1 DEF Running
    <3> QED
      BY <3>1, <3>2 DEF CategoriesCounted, QueueSound, SlotsTaken
  <2>2. CASE \/ Rt!Consume \/ (\E c \in Getter : Rt!Get(c) \/ Rt!FetchEnds(c))
             \/ Rt!RefreshEnds \/ Rt!Invalidate \/ Rt!Tick \/ UNCHANGED Rt!runtimeVars
    BY <2>1, <2>2 DEF Rt!Consume, Rt!Get, Rt!FetchEnds, Rt!RefreshEnds, Rt!Invalidate,
                      Rt!Tick, Rt!runtimeVars, Rt!limiterVars
  <2> QED
    BY <2>2, AcquireSlotKeeps, ReleaseSlotKeeps DEF Rt!RuntimeNext
<1>3. CategoriesCounted => Rt!SlotsOfOwnCategory
  <2>1. \A S : Rt!Cardinality(S) = Cardinality(S)
    BY DEF Rt!Cardinality, Cardinality
  <2> QED
    BY <2>1 DEF CategoriesCounted, SlotsTaken, Running, Rt!SlotsOfOwnCategory
<1> QED
  BY <1>1, <1>2, <1>3, PTL

HIDE RuntimeAssumption DEF RuntimeAssumption

-----------------------------------------------------------------------------
(* The sources of the repository                                           *)

USE ListingAssumption

Reading == {"ready", "primary", "fallback", "native"}

Call == [at : Reading \cup {"new", "done", "failed"}, path : Path, scan : BOOLEAN,
         todo : Seq(Path), found : Seq(Path), warned : Seq(Path), limited : BOOLEAN]

Members(s) == {s[i] : i \in DOMAIN s}
Read(d, n) == Members(d.found) \cup Members(d.warned) = {Manifests[i] : i \in 1 .. n}

Early(d) == d.found = <<>> /\ d.warned = <<>>

\* The call reads the n-th manifest, and the rest are those that come after it.
Amid(d, n) ==
    /\ d.at \in Reading /\ d.path = Manifests[n] /\ Read(d, n - 1)
    /\ Len(d.todo) = Len(Manifests) - n
    /\ \A i \in 1 .. Len(d.todo) : d.todo[i] = Manifests[n + i]

ScanSound(d) ==
    /\ d \in Call
    /\ Members(d.found) \cap Members(d.warned) = {}
    /\ \A p, q \in Members(d.found) : NameOf[p] = NameOf[q] => p = q
    /\ d.limited => d.at \notin {"fallback", "native"}
    /\ \/ ~d.scan /\ Early(d)
       \/ d.scan /\ Early(d) /\ d.path \in {RegistryFile, Tree}
       \/ d.scan /\ \E n \in 1 .. Len(Manifests) : Amid(d, n)
       \/ d.scan /\ d.at \in {"done", "failed"} /\ Read(d, Len(Manifests))

Flight == [on : BOOLEAN, attempt : Nat, asked : Nat, tokenless : BOOLEAN]

RequestsCounted(f) ==
    /\ f \in Flight
    /\ f.attempt <= TransportRetries
    /\ f.asked <= 2 * f.attempt + (IF f.tokenless THEN 1 ELSE 0)

SourcesInv ==
    /\ reader = [r \in Reader |-> reader[r]] /\ native = [p \in Path |-> native[p]]
    /\ \A r \in Reader : ScanSound(reader[r])
    /\ \A p \in Path : RequestsCounted(native[p])

LEMMA MembersOfAppend ==
    ASSUME NEW s \in Seq(Path), NEW p \in Path
    PROVE  Members(Append(s, p)) = Members(s) \cup {p}
<1>1. /\ Len(Append(s, p)) = Len(s) + 1 /\ Append(s, p)[Len(s) + 1] = p
      /\ \A i \in 1 .. Len(s) : Append(s, p)[i] = s[i]
      /\ DOMAIN s = 1 .. Len(s) /\ DOMAIN Append(s, p) = 1 .. Len(s) + 1 /\ Len(s) \in Nat
  OBVIOUS
<1>2. \A i \in DOMAIN Append(s, p) : Append(s, p)[i] \in Members(s) \cup {p}
  BY <1>1 DEF Members
<1>3. \A x \in Members(s) : \E i \in DOMAIN Append(s, p) : Append(s, p)[i] = x
  BY <1>1 DEF Members
<1>4. \E i \in DOMAIN Append(s, p) : Append(s, p)[i] = p
  BY <1>1
<1>5. Members(Append(s, p)) \subseteq Members(s) \cup {p}
  BY <1>2 DEF Members
<1>6. Members(s) \subseteq Members(Append(s, p)) /\ p \in Members(Append(s, p))
  BY <1>3, <1>4 DEF Members
<1> QED
  BY <1>5, <1>6

\* A call that goes on to where its reading does not end.
LEMMA GoesOn ==
    ASSUME NEW d, ScanSound(d), NEW place \in Reading, NEW lim \in BOOLEAN,
           d.at \in Reading \/ (d.at = "new" /\ Early(d)),
           lim => place \notin {"fallback", "native"}
    PROVE  ScanSound([d EXCEPT !.at = place, !.limited = lim])
<1> DEFINE e == [d EXCEPT !.at = place, !.limited = lim]
<1>1. /\ e \in Call /\ e.at = place /\ e.path = d.path /\ e.scan = d.scan /\ e.todo = d.todo
      /\ e.found = d.found /\ e.warned = d.warned /\ e.limited = lim
  BY DEF ScanSound, Call, Reading
<1> HIDE DEF e
<1>2. \A n : Amid(d, n) => Amid(e, n)
  BY <1>1 DEF Amid, Read
<1>3. Early(d) => Early(e)
  BY <1>1 DEF Early
<1>4. d.at \notin {"done", "failed"}
  BY DEF Reading
<1>5. /\ Members(e.found) \cap Members(e.warned) = {}
      /\ \A p, q \in Members(e.found) : NameOf[p] = NameOf[q] => p = q
  BY <1>1 DEF ScanSound
<1>6. e.limited => e.at \notin {"fallback", "native"}
  BY <1>1
<1>7. \/ ~d.scan /\ Early(d)
      \/ d.scan /\ Early(d) /\ d.path \in {RegistryFile, Tree}
      \/ d.scan /\ \E n \in 1 .. Len(Manifests) : Amid(d, n)
  BY <1>4 DEF ScanSound
<1>8. \/ ~e.scan /\ Early(e)
      \/ e.scan /\ Early(e) /\ e.path \in {RegistryFile, Tree}
      \/ e.scan /\ \E n \in 1 .. Len(Manifests) : Amid(e, n)
  BY <1>1, <1>2, <1>3, <1>7
<1>9. e \in Call
  BY <1>1
<1> QED
  BY <1>5, <1>6, <1>8, <1>9 DEF ScanSound, e

\* What the discovery does with an answer leaves its scan sound.
LEMMA ReadNextIs ==
    ASSUME NEW d \in Call, NEW todo \in Seq(Path)
    PROVE  LET e == Src!ReadNext(d, todo)
           IN  /\ e \in Call /\ e.scan = d.scan /\ e.limited = d.limited
               /\ e.found = d.found /\ e.warned = d.warned
               /\ todo = <<>> => e.at \in {"done", "failed"} /\ e.path = d.path
               /\ todo = <<>> /\ d.found = <<>> => e.at = "failed"
               /\ todo # <<>> => /\ e.at = "ready" /\ e.path = todo[1] /\ e.todo = Tail(todo)
<1>1. CASE todo = <<>>
  BY <1>1 DEF Src!ReadNext, Call, Reading
<1>2. CASE todo # <<>>
  <2>1. Head(todo) = todo[1] /\ todo[1] \in Path /\ Tail(todo) \in Seq(Path)
    BY <1>2
  <2> QED
    BY <1>2, <2>1 DEF Src!ReadNext, Call, Reading
<1> QED
  BY <1>1, <1>2

\* The manifest that was read is a resource or a warning, and the scan goes on
\* with the next one or ends with all of them.
LEMMA NextKeeps ==
    ASSUME NEW d \in Call, d.scan, NEW n \in 0 .. Len(Manifests),
           Read(d, n), n = 0 => Early(d) /\ d.path \in {RegistryFile, Tree},
           Members(d.found) \cap Members(d.warned) = {},
           \A p, q \in Members(d.found) : NameOf[p] = NameOf[q] => p = q,
           NEW todo \in Seq(Path), Len(todo) = Len(Manifests) - n,
           \A i \in 1 .. Len(todo) : todo[i] = Manifests[n + i]
    PROVE  /\ ScanSound(Src!ReadNext(d, todo))
           /\ Src!ReadNext(d, todo).limited = d.limited
<1> DEFINE e == Src!ReadNext(d, todo)
<1>1. /\ e \in Call /\ e.scan /\ e.limited = d.limited
      /\ e.found = d.found /\ e.warned = d.warned
      /\ todo = <<>> => e.at \in {"done", "failed"} /\ e.path = d.path
      /\ todo # <<>> => /\ e.at = "ready" /\ e.path = todo[1] /\ e.todo = Tail(todo)
  BY ReadNextIs
<1> HIDE DEF e
<1>2. /\ Members(e.found) \cap Members(e.warned) = {} /\ Read(e, n)
      /\ \A p, q \in Members(e.found) : NameOf[p] = NameOf[q] => p = q
  BY <1>1 DEF Read
<1>3. Manifests \in Seq(Path) /\ Len(Manifests) \in Nat
  BY DEF ListingAssumption
<1>4. CASE todo = <<>>
  <2>1. n = Len(Manifests)
    BY <1>3, <1>4
  <2> QED
    BY <1>1, <1>2, <1>4, <2>1 DEF ScanSound, e
<1>5. CASE todo # <<>>
  <2>1. /\ n + 1 \in 1 .. Len(Manifests) /\ todo[1] = Manifests[n + 1]
        /\ Len(Tail(todo)) = Len(Manifests) - (n + 1)
        /\ \A i \in 1 .. Len(Tail(todo)) : Tail(todo)[i] = Manifests[(n + 1) + i]
    BY <1>3, <1>5
  <2>2. Read(e, (n + 1) - 1)
    BY <1>2 DEF Read
  <2>3. Amid(e, n + 1)
    BY <1>1, <1>5, <2>1, <2>2 DEF Amid, Reading
  <2> QED
    BY <1>1, <1>2, <1>5, <2>1, <2>3 DEF ScanSound, e
<1> QED
  BY <1>4, <1>5

LEMMA ReceiveKeeps ==
    ASSUME NEW d, ScanSound(d), d.at \in {"primary", "native"}, NEW text
    PROVE  /\ ScanSound(Src!Receive(d, text))
           /\ Src!Receive(d, text).limited = d.limited
<1>1. d \in Call /\ d.at \in Reading
  BY DEF ScanSound, Reading
<1>2. ASSUME NEW place \in {"done", "failed"}, Early(d), d.scan => d.path \in {RegistryFile, Tree}
      PROVE  /\ ScanSound([d EXCEPT !.at = place])
             /\ [d EXCEPT !.at = place].limited = d.limited
  <2> DEFINE e == [d EXCEPT !.at = place]
  <2>1. /\ e \in Call /\ e.at = place /\ e.path = d.path /\ e.scan = d.scan
        /\ e.found = d.found /\ e.warned = d.warned /\ e.limited = d.limited
    BY <1>1 DEF Call
  <2> HIDE DEF e
  <2>2. /\ Members(e.found) \cap Members(e.warned) = {}
        /\ \A p, q \in Members(e.found) : NameOf[p] = NameOf[q] => p = q
    BY <2>1 DEF ScanSound
  <2>3. Early(e)
    BY <1>2, <2>1 DEF Early
  <2>4. ScanSound(e)
    BY <1>2, <2>1, <2>2, <2>3 DEF ScanSound
  <2> QED
    BY <2>1, <2>4 DEF e
<1>3. ASSUME Early(d)
      PROVE  ScanSound(Src!Scan(d)) /\ Src!Scan(d).limited = d.limited
  <2> DEFINE e == [d EXCEPT !.at = "ready", !.path = Tree]
  <2>1. /\ e \in Call /\ e.at = "ready" /\ e.path = Tree /\ e.scan = d.scan
        /\ e.found = d.found /\ e.warned = d.warned /\ e.limited = d.limited
    BY <1>1 DEF Call, Reading, ListingAssumption
  <2> HIDE DEF e
  <2>2. /\ Members(e.found) \cap Members(e.warned) = {}
        /\ \A p, q \in Members(e.found) : NameOf[p] = NameOf[q] => p = q
    BY <2>1 DEF ScanSound
  <2>3. Early(e)
    BY <1>3, <2>1 DEF Early
  <2>4. e.scan \in BOOLEAN
    BY <2>1 DEF Call
  <2>5. ScanSound(e)
    BY <2>1, <2>2, <2>3, <2>4 DEF ScanSound
  <2> QED
    BY <2>1, <2>5 DEF e, Src!Scan
<1>4. CASE ~d.scan
  <2>1. Early(d)
    BY <1>4 DEF ScanSound
  <2> QED
    BY <1>2, <1>4, <2>1 DEF Src!Receive
<1>5. CASE d.scan /\ d.path = RegistryFile
  <2>1. Early(d)
    BY <1>1, <1>5 DEF ScanSound, Amid, ListingAssumption, Reading
  <2>2. Src!Receive(d, text) \in {Src!Scan(d), [d EXCEPT !.at = "done"], [d EXCEPT !.at = "failed"]}
    <3>1. Src!Receive(d, text) = Src!FromRegistry(d, text)
      BY <1>5 DEF Src!Receive, ListingAssumption
    <3>2. \/ Src!FromRegistry(d, text) = [d EXCEPT !.at = "done"]
          \/ Src!FromRegistry(d, text) = Src!Scan(d)
          \/ Src!FromRegistry(d, text) = [d EXCEPT !.at = "failed"]
      BY SMT DEF Src!FromRegistry, Src!Scan
    <3> QED
      BY <3>1, <3>2
  <2> QED
    BY <1>2, <1>3, <1>5, <2>1, <2>2
<1>6. CASE d.scan /\ d.path = Tree
  <2>1. Early(d)
    BY <1>1, <1>6 DEF ScanSound, Amid, ListingAssumption, Reading
  <2>2. \/ Src!Receive(d, text) = [d EXCEPT !.at = "failed"]
        \/ Src!Receive(d, text) = Src!ReadNext(d, Manifests)
    BY <1>6 DEF Src!Receive, Src!FromTree, ListingAssumption
  <2>3. Read(d, 0)
    BY <2>1 DEF Read, Early, Members
  <2>4. ScanSound(Src!ReadNext(d, Manifests)) /\ Src!ReadNext(d, Manifests).limited = d.limited
    <3>1. /\ Members(d.found) \cap Members(d.warned) = {}
          /\ \A p, q \in Members(d.found) : NameOf[p] = NameOf[q] => p = q
      BY DEF ScanSound
    <3>2. /\ 0 \in 0 .. Len(Manifests) /\ Len(Manifests) = Len(Manifests) - 0
          /\ Manifests \in Seq(Path)
          /\ \A i \in 1 .. Len(Manifests) : Manifests[i] = Manifests[0 + i]
      BY DEF ListingAssumption
    <3> QED
      BY <1>1, <1>6, <2>1, <2>3, <3>1, <3>2, NextKeeps
  <2> QED
    BY <1>2, <1>6, <2>1, <2>2, <2>4
<1>7. CASE d.scan /\ d.path \notin {RegistryFile, Tree}
  <2>1. PICK n \in 1 .. Len(Manifests) : Amid(d, n)
    BY <1>1, <1>7 DEF ScanSound, Reading
  <2> DEFINE p == d.path
             kept == [d EXCEPT !.found = Append(d.found, p)]
             warn == [d EXCEPT !.warned = Append(d.warned, p)]
  <2>2. \/ Src!Receive(d, text) = Src!ReadNext(kept, d.todo) /\ ~Src!Named(d, NameOf[p])
        \/ Src!Receive(d, text) = Src!ReadNext(warn, d.todo)
    BY <1>7 DEF Src!Receive, Src!FromManifest
  <2>3. p \in Path /\ p = Manifests[n] /\ d.found \in Seq(Path) /\ d.warned \in Seq(Path)
    BY <1>1, <2>1 DEF Call, Amid
  <2>4. /\ Members(Append(d.found, p)) = Members(d.found) \cup {p}
        /\ Members(Append(d.warned, p)) = Members(d.warned) \cup {p}
        /\ Append(d.found, p) \in Seq(Path) /\ Append(d.warned, p) \in Seq(Path)
    BY <2>3, MembersOfAppend
  <2>5. {Manifests[i] : i \in 1 .. n} = {Manifests[i] : i \in 1 .. n - 1} \cup {p}
    BY <2>1, <2>3
  <2>6. p \notin Members(d.found) \cup Members(d.warned)
    <3>1. \A i \in 1 .. n - 1 : i \in 1 .. Len(Manifests) /\ i # n /\ n \in 1 .. Len(Manifests)
      BY <2>1 DEF ListingAssumption
    <3>2. \A i \in 1 .. n - 1 : Manifests[i] # p
      BY <2>3, <3>1 DEF ListingAssumption
    <3> QED
      BY <2>1, <3>2 DEF Amid, Read
  <2>7. /\ Members(d.found) \cap Members(d.warned) = {}
        /\ \A o, q \in Members(d.found) : NameOf[o] = NameOf[q] => o = q
        /\ Members(d.found) \cup Members(d.warned) = {Manifests[i] : i \in 1 .. n - 1}
    BY <2>1 DEF ScanSound, Amid, Read
  <2>8. /\ n \in 0 .. Len(Manifests) /\ n # 0 /\ d.todo \in Seq(Path)
        /\ Len(d.todo) = Len(Manifests) - n
        /\ \A i \in 1 .. Len(d.todo) : d.todo[i] = Manifests[n + i]
    BY <1>1, <2>1 DEF Amid, Call, ListingAssumption
  <2>9. CASE Src!Receive(d, text) = Src!ReadNext(warn, d.todo)
    <3>1. /\ warn \in Call /\ warn.scan /\ warn.limited = d.limited
          /\ warn.found = d.found /\ warn.warned = Append(d.warned, p)
      BY <1>1, <1>7, <2>3, <2>4 DEF Call
    <3> HIDE DEF warn
    <3>2. /\ Members(warn.found) \cap Members(warn.warned) = {} /\ Read(warn, n)
          /\ \A o, q \in Members(warn.found) : NameOf[o] = NameOf[q] => o = q
      <4>1. /\ Members(warn.found) = Members(d.found)
            /\ Members(warn.warned) = Members(d.warned) \cup {p}
        BY <2>4, <3>1
      <4>2. Members(warn.found) \cap Members(warn.warned) = {}
        BY <2>6, <2>7, <4>1
      <4>3. Read(warn, n)
        BY <2>5, <2>7, <4>1 DEF Read
      <4> QED
        BY <2>7, <4>1, <4>2, <4>3
    <3>3. ScanSound(Src!ReadNext(warn, d.todo)) /\ Src!ReadNext(warn, d.todo).limited = warn.limited
      BY <2>8, <3>1, <3>2, NextKeeps
    <3> QED
      BY <2>9, <3>1, <3>3
  <2>10. CASE Src!Receive(d, text) = Src!ReadNext(kept, d.todo) /\ ~Src!Named(d, NameOf[p])
    <3>1. /\ kept \in Call /\ kept.scan /\ kept.limited = d.limited
          /\ kept.warned = d.warned /\ kept.found = Append(d.found, p)
      BY <1>1, <1>7, <2>3, <2>4 DEF Call
    <3>2. \A q \in Members(d.found) : NameOf[q] # NameOf[p]
      BY <2>10 DEF Src!Named, Members
    <3> HIDE DEF kept
    <3>3. /\ Members(kept.found) \cap Members(kept.warned) = {} /\ Read(kept, n)
          /\ \A o, q \in Members(kept.found) : NameOf[o] = NameOf[q] => o = q
      <4>1. /\ Members(kept.found) = Members(d.found) \cup {p}
            /\ Members(kept.warned) = Members(d.warned)
        BY <2>4, <3>1
      <4>2. Members(kept.found) \cap Members(kept.warned) = {}
        BY <2>6, <2>7, <4>1
      <4>3. Read(kept, n)
        BY <2>5, <2>7, <4>1 DEF Read
      <4> QED
        BY <2>7, <3>2, <4>1, <4>2, <4>3
    <3>4. ScanSound(Src!ReadNext(kept, d.todo)) /\ Src!ReadNext(kept, d.todo).limited = kept.limited
      BY <2>8, <3>1, <3>3, NextKeeps
    <3> QED
      BY <2>10, <3>1, <3>4
  <2> QED
    BY <2>2, <2>9, <2>10
<1> QED
  BY <1>1, <1>4, <1>5, <1>6, <1>7 DEF Call

\* The readers that wait for a file, and the flights of the transport.

LEMMA AnswerKeeps ==
    ASSUME SourcesInv, NEW p \in Path, NEW text, Src!NativeEnds(p, text)
    PROVE  SourcesInv'
<1>1. /\ native' = [native EXCEPT ![p] = Src!NoFlight]
      /\ reader' = [r \in Reader |-> IF r \in Src!Waiting("native", p)
                                     THEN Src!Receive(reader[r], text) ELSE reader[r]]
  BY DEF Src!NativeEnds
<1>2. \A r \in Reader : ScanSound(reader'[r])
  <2> SUFFICES ASSUME NEW r \in Reader
               PROVE  ScanSound(reader'[r])
    OBVIOUS
  <2>1. CASE r \in Src!Waiting("native", p)
    <3>1. reader[r].at \in {"primary", "native"} /\ ScanSound(reader[r])
      BY <2>1 DEF Src!Waiting, SourcesInv
    <3>2. ScanSound(Src!Receive(reader[r], text))
      BY <3>1, ReceiveKeeps
    <3> QED
      BY <1>1, <2>1, <3>2
  <2>2. CASE r \notin Src!Waiting("native", p)
    BY <1>1, <2>2 DEF SourcesInv
  <2> QED
    BY <2>1, <2>2
<1>3. RequestsCounted(Src!NoFlight)
  BY DEF ListingAssumption, RequestsCounted, Src!NoFlight, Flight
<1>4. \A q \in Path : RequestsCounted(native'[q])
  BY <1>1, <1>3 DEF SourcesInv
<1>5. reader' = [r \in Reader |-> reader'[r]] /\ native' = [q \in Path |-> native'[q]]
  BY <1>1 DEF SourcesInv
<1> QED
  BY <1>2, <1>4, <1>5 DEF SourcesInv

LEMMA PrimaryKeeps ==
    ASSUME SourcesInv, NEW p \in Path, NEW text, Src!PrimaryEnds(p, text)
    PROVE  SourcesInv'
<1>1. /\ UNCHANGED native
      /\ reader' = [r \in Reader |-> IF r \in Src!Waiting("primary", p)
                                     THEN Src!AfterPrimary(reader[r], text) ELSE reader[r]]
  BY DEF Src!PrimaryEnds
<1>2. \A r \in Reader : ScanSound(reader'[r])
  <2> SUFFICES ASSUME NEW r \in Reader
               PROVE  ScanSound(reader'[r])
    OBVIOUS
  <2>1. CASE r \in Src!Waiting("primary", p)
    <3> DEFINE d == reader[r]
    <3>1. d.at = "primary" /\ ScanSound(d) /\ d.at \in Reading /\ d \in Call
      BY <2>1 DEF Src!Waiting, SourcesInv, ScanSound, Reading
    <3> HIDE DEF d
    <3>2. ASSUME NEW lim \in BOOLEAN
          PROVE  LET e == [d EXCEPT !.limited = lim]
                 IN  ScanSound(e) /\ e.at \in {"primary", "native"}
      <4>1. ScanSound([d EXCEPT !.at = "primary", !.limited = lim])
        BY <3>1, GoesOn DEF Reading
      <4>2. [d EXCEPT !.limited = lim] = [d EXCEPT !.at = "primary", !.limited = lim]
        BY <3>1 DEF Call
      <4>3. [d EXCEPT !.limited = lim].at = "primary"
        BY <3>1 DEF Call
      <4> QED
        BY <4>1, <4>2, <4>3
    <3>3. ScanSound(Src!Receive([d EXCEPT !.limited = TRUE], text))
      <4>1. /\ ScanSound([d EXCEPT !.limited = TRUE])
            /\ [d EXCEPT !.limited = TRUE].at \in {"primary", "native"}
        BY <3>2
      <4> QED
        BY <4>1, ReceiveKeeps
    <3>4. ScanSound(Src!Receive([d EXCEPT !.limited = FALSE], text))
      <4>1. /\ ScanSound([d EXCEPT !.limited = FALSE])
            /\ [d EXCEPT !.limited = FALSE].at \in {"primary", "native"}
        BY <3>2
      <4> QED
        BY <4>1, ReceiveKeeps
    <3>5. ScanSound([d EXCEPT !.at = "fallback", !.limited = FALSE])
      BY <3>1, GoesOn DEF Reading
    <3>6. ScanSound(Src!AfterPrimary(d, text))
      BY <3>3, <3>4, <3>5 DEF Src!AfterPrimary
    <3> QED
      BY <1>1, <2>1, <3>6 DEF d
  <2>2. CASE r \notin Src!Waiting("primary", p)
    BY <1>1, <2>2 DEF SourcesInv
  <2> QED
    BY <2>1, <2>2
<1>3. reader' = [r \in Reader |-> reader'[r]]
  BY <1>1
<1> QED
  BY <1>1, <1>2, <1>3 DEF SourcesInv

LEMMA ReaderGoesOn ==
    ASSUME SourcesInv, NEW r \in Reader, NEW place \in Reading \cup {"done"},
           reader' = [reader EXCEPT ![r].at = place],
           \/ reader[r].at = "new" /\ place = "done" /\ ~reader[r].scan
           \/ reader[r].at = "new" /\ place = "ready"
           \/ reader[r].at = "ready" /\ place = "primary"
           \/ reader[r].at = "fallback" /\ place = "native"
    PROVE  reader' = [o \in Reader |-> reader'[o]] /\ \A o \in Reader : ScanSound(reader'[o])
<1> DEFINE d == reader[r]
<1>1. d \in Call /\ ScanSound(d)
  BY DEF SourcesInv, ScanSound
<1>2. reader' = [reader EXCEPT ![r] = [d EXCEPT !.at = place]]
  OBVIOUS
<1>3. ScanSound([d EXCEPT !.at = place])
  <2>1. CASE place = "done"
    <3> DEFINE e == [d EXCEPT !.at = place]
    <3>1. /\ e \in Call /\ e.at = "done" /\ e.scan = d.scan /\ e.path = d.path
          /\ e.found = d.found /\ e.warned = d.warned /\ ~d.scan
      BY <1>1, <2>1 DEF Call
    <3>2. Early(d) /\ Members(d.found) \cap Members(d.warned) = {}
          /\ \A p, q \in Members(d.found) : NameOf[p] = NameOf[q] => p = q
      BY <1>1, <3>1 DEF ScanSound
    <3> HIDE DEF e
    <3> QED
      BY <3>1, <3>2 DEF ScanSound, Early, e
  <2>2. CASE place # "done"
    <3>1. place \in Reading /\ (d.limited => place \notin {"fallback", "native"}) /\ d.limited \in BOOLEAN
      BY <1>1, <2>2 DEF Call, Reading, ScanSound
    <3>2. d.at \in Reading \/ (d.at = "new" /\ Early(d))
      BY <1>1, <2>2 DEF Reading, ScanSound, Amid
    <3>3. ScanSound([d EXCEPT !.at = place, !.limited = d.limited])
      BY <1>1, <3>1, <3>2, GoesOn
    <3>4. [d EXCEPT !.at = place, !.limited = d.limited] = [d EXCEPT !.at = place]
      BY <1>1 DEF Call
    <3> QED
      BY <3>3, <3>4
  <2> QED
    BY <2>1, <2>2
<1> QED
  BY <1>2, <1>3 DEF SourcesInv

LEMMA FlightGoesOn ==
    ASSUME SourcesInv, NEW p \in Path, UNCHANGED reader,
           \/ Src!DenyToken(p)
           \/ /\ native[p].attempt < TransportRetries
              /\ native' = [native EXCEPT ![p].attempt = @ + 1, ![p].asked = @ + 1,
                                          ![p].tokenless = FALSE]
    PROVE  SourcesInv'
<1> DEFINE f == native[p]
<1>1. RequestsCounted(f)
  BY DEF SourcesInv
<1>2. \E g : RequestsCounted(g) /\ native' = [native EXCEPT ![p] = g]
  <2>1. CASE Src!DenyToken(p)
    <3> DEFINE g == [f EXCEPT !.tokenless = TRUE, !.asked = f.asked + 1]
    <3>1. native' = [native EXCEPT ![p] = g] /\ ~f.tokenless
      BY <2>1 DEF Src!DenyToken, SourcesInv
    <3>2. RequestsCounted(g)
      <4>0. f \in Flight
        BY <1>1 DEF RequestsCounted
      <4>1. g \in Flight /\ g.tokenless /\ g.asked = f.asked + 1 /\ g.attempt = f.attempt
        <5> HIDE DEF f
        <5>1. f.attempt + 1 \in Nat /\ f.asked + 1 \in Nat
          BY <4>0 DEF Flight
        <5>2. g \in Flight
          BY <4>0, <5>1 DEF Flight
        <5> QED
          BY <4>0, <5>1, <5>2 DEF Flight
      <4> HIDE DEF g
      <4>2. /\ f.attempt \in Nat /\ f.asked \in Nat /\ f.attempt <= TransportRetries
            /\ f.asked <= 2 * f.attempt + (IF f.tokenless THEN 1 ELSE 0)
        BY <1>1 DEF RequestsCounted, Flight
      <4> HIDE DEF f
      <4> QED
        BY <3>1, <4>1, <4>2 DEF RequestsCounted, ListingAssumption
    <3> QED
      BY <3>1, <3>2
  <2>2. CASE /\ native[p].attempt < TransportRetries
             /\ native' = [native EXCEPT ![p].attempt = @ + 1, ![p].asked = @ + 1,
                                         ![p].tokenless = FALSE]
    <3> DEFINE g == [f EXCEPT !.attempt = f.attempt + 1, !.asked = f.asked + 1,
                              !.tokenless = FALSE]
    <3>1. native' = [native EXCEPT ![p] = g] /\ f.attempt < TransportRetries
      BY <2>2 DEF SourcesInv
    <3>2. RequestsCounted(g)
      <4>0. f \in Flight
        BY <1>1 DEF RequestsCounted
      <4>1. g \in Flight /\ ~g.tokenless /\ g.asked = f.asked + 1 /\ g.attempt = f.attempt + 1
        <5> HIDE DEF f
        <5>1. f.attempt + 1 \in Nat /\ f.asked + 1 \in Nat
          BY <4>0 DEF Flight
        <5>2. g \in Flight
          BY <4>0, <5>1 DEF Flight
        <5> QED
          BY <4>0, <5>1, <5>2 DEF Flight
      <4> HIDE DEF g
      <4>2. /\ f.attempt \in Nat /\ f.asked \in Nat /\ f.attempt <= TransportRetries
            /\ f.asked <= 2 * f.attempt + (IF f.tokenless THEN 1 ELSE 0)
        BY <1>1 DEF RequestsCounted, Flight
      <4> HIDE DEF f
      <4> QED
        BY <3>1, <4>1, <4>2 DEF RequestsCounted, ListingAssumption
    <3> QED
      BY <3>1, <3>2
  <2> QED
    BY <2>1, <2>2
<1> QED
  BY <1>2 DEF SourcesInv

LEMMA SourcesStep ==
    ASSUME SourcesInv, [Src!SourcesNext]_(Src!sourceVars)
    PROVE  SourcesInv'
<1>1. CASE UNCHANGED <<reader, native>>
  BY <1>1 DEF SourcesInv
<1>2. ASSUME NEW r \in Reader, Src!Begin(r)
      PROVE  SourcesInv'
  <2> DEFINE place == IF ~reader[r].scan /\ cached[reader[r].path] > 0 THEN "done" ELSE "ready"
  <2>1. /\ reader' = [reader EXCEPT ![r].at = place] /\ UNCHANGED native
        /\ reader[r].at = "new"
    BY <1>2 DEF Src!Begin
  <2>2. /\ place \in Reading \cup {"done"}
        /\ \/ reader[r].at = "new" /\ place = "done" /\ ~reader[r].scan
           \/ reader[r].at = "new" /\ place = "ready"
    BY <2>1 DEF Reading
  <2> HIDE DEF place
  <2> QED
    BY <2>1, <2>2, ReaderGoesOn DEF SourcesInv
<1>3. ASSUME NEW r \in Reader, Src!AskPrimary(r)
      PROVE  SourcesInv'
  <2>1. /\ reader' = [reader EXCEPT ![r].at = "primary"] /\ UNCHANGED native
        /\ reader[r].at = "ready" /\ "primary" \in Reading \cup {"done"}
    BY <1>3 DEF Src!AskPrimary, Reading
  <2> QED
    BY <2>1, ReaderGoesOn DEF SourcesInv
<1>4. ASSUME NEW r \in Reader, Src!AskNative(r)
      PROVE  SourcesInv'
  <2>1. /\ reader' = [reader EXCEPT ![r].at = "native"]
        /\ reader[r].at = "fallback" /\ "native" \in Reading \cup {"done"}
    BY <1>4 DEF Src!AskNative, Reading
  <2>2. reader' = [o \in Reader |-> reader'[o]] /\ \A o \in Reader : ScanSound(reader'[o])
    BY <2>1, ReaderGoesOn
  <2>3. RequestsCounted(Src!NewFlight)
    <3>1. /\ Src!NewFlight \in Flight /\ Src!NewFlight.attempt = 0 /\ Src!NewFlight.asked = 0
          /\ ~Src!NewFlight.tokenless
      BY DEF Src!NoFlight, Src!NewFlight, Flight
    <3> QED
      BY <3>1 DEF RequestsCounted, ListingAssumption
  <2>4. \/ UNCHANGED native
        \/ native' = [native EXCEPT ![reader[r].path] = Src!NewFlight]
    BY <1>4 DEF Src!AskNative, SourcesInv
  <2>5. native' = [p \in Path |-> native'[p]] /\ \A p \in Path : RequestsCounted(native'[p])
    BY <2>3, <2>4 DEF SourcesInv
  <2> QED
    BY <2>2, <2>5 DEF SourcesInv
<1>5. ASSUME NEW p \in Path,
             \/ Src!Answer(p) \/ Src!Deny(p) \/ Src!Fail(p) \/ \E far : Src!Throttle(p, far)
      PROVE  SourcesInv'
  <2>1. \/ \E text : Src!NativeEnds(p, text)
        \/ /\ UNCHANGED reader /\ native[p].attempt < TransportRetries
           /\ native' = [native EXCEPT ![p].attempt = @ + 1, ![p].asked = @ + 1,
                                       ![p].tokenless = FALSE]
    BY <1>5 DEF Src!Answer, Src!Deny, Src!Fail, Src!Throttle, Src!Retry
  <2> QED
    BY <2>1, AnswerKeeps, FlightGoesOn
<1>6. ASSUME NEW p \in Path, Src!DenyToken(p)
      PROVE  SourcesInv'
  BY <1>6, FlightGoesOn DEF Src!DenyToken
<1>7. ASSUME NEW p \in Path, Src!Publish(p) \/ Src!Expire(p)
      PROVE  UNCHANGED <<reader, native>>
  BY <1>7 DEF Src!Publish, Src!Expire
<1>8. ASSUME UNCHANGED Src!sourceVars
      PROVE  UNCHANGED <<reader, native>>
  BY <1>8 DEF Src!sourceVars
<1> QED
  BY <1>1, <1>2, <1>3, <1>4, <1>5, <1>6, <1>7, <1>8, PrimaryKeeps DEF Src!SourcesNext

\* A call that is told of a rate limit does not ask the other client, the
\* requests of a flight are those of its retries, and a scan ends with every
\* manifest of the listing either a resource or a warning, no two resources of
\* one name (RepoFetchClient, GitHubRepositoryTransport, RegistryDiscovery).
THEOREM SourcesAreReadSoundly ==
    Src!SourcesInit /\ [][Src!SourcesNext]_(Src!sourceVars) => []Src!ReadsAreSound
<1>1. Src!SourcesInit => SourcesInv
  <2> SUFFICES ASSUME Src!SourcesInit
               PROVE  SourcesInv
    OBVIOUS
  <2>1. RequestsCounted(Src!NoFlight)
    BY DEF ListingAssumption, RequestsCounted, Src!NoFlight, Flight
  <2>2. ASSUME NEW r \in Reader
        PROVE  ScanSound(reader[r])
    <3> DEFINE d == reader[r]
    <3>1. d = [at |-> "new", path |-> IF Wants[r] = "discover" THEN RegistryFile ELSE Wants[r],
               scan |-> Wants[r] = "discover", todo |-> <<>>, found |-> <<>>, warned |-> <<>>,
               limited |-> FALSE]
      BY DEF Src!SourcesInit
    <3>2. d \in Call /\ Early(d) /\ ~d.limited /\ (d.scan => d.path = RegistryFile)
      <4>1. PICK p \in Path, b \in BOOLEAN :
              /\ d = [at |-> "new", path |-> p, scan |-> b, todo |-> <<>>, found |-> <<>>,
                      warned |-> <<>>, limited |-> FALSE]
              /\ b => p = RegistryFile
        <5>1. (IF Wants[r] = "discover" THEN RegistryFile ELSE Wants[r]) \in Path
          BY DEF ListingAssumption
        <5> QED
          BY <3>1, <5>1
      <4> QED
        BY <4>1 DEF Call, Early
    <3> HIDE DEF d
    <3>3. Members(d.found) = {} /\ Members(d.warned) = {} /\ d.scan \in BOOLEAN
      BY <3>2 DEF Early, Members, Call
    <3>4. ScanSound(d)
      BY <3>2, <3>3 DEF ScanSound
    <3> QED
      BY <3>4 DEF d
  <2> QED
    BY <2>1, <2>2 DEF Src!SourcesInit, SourcesInv
<1>2. SourcesInv => Src!ReadsAreSound
  <2> SUFFICES ASSUME SourcesInv
               PROVE  Src!ReadsAreSound
    OBVIOUS
  <2>1. Src!SourcesInOrder
    <3>1. \A p \in Path : native[p].asked <= 2 * TransportRetries + 1
      <4> SUFFICES ASSUME NEW p \in Path
                   PROVE  native[p].asked <= 2 * TransportRetries + 1
        OBVIOUS
      <4>1. /\ native[p].asked \in Nat /\ native[p].attempt \in Nat
            /\ native[p].attempt <= TransportRetries /\ TransportRetries \in Nat
            /\ native[p].asked <= 2 * native[p].attempt + (IF native[p].tokenless THEN 1 ELSE 0)
        BY DEF SourcesInv, RequestsCounted, Flight, ListingAssumption
      <4> QED
        BY <4>1
    <3> QED
      BY <3>1 DEF SourcesInv, ScanSound, Src!SourcesInOrder
  <2>2. Src!ScanIsComplete
    <3> SUFFICES ASSUME NEW r \in Reader
                 PROVE  LET d == reader[r]
                            listed == {Manifests[i] : i \in DOMAIN Manifests}
                        IN  /\ Members(d.found) \cap Members(d.warned) = {}
                            /\ d.at = "done" /\ d.scan /\ d.found # <<>>
                                  => Members(d.found) \cup Members(d.warned) = listed
                            /\ \A p, q \in Members(d.found) : NameOf[p] = NameOf[q] => p = q
      BY DEF Src!ScanIsComplete, Members
    <3>1. ScanSound(reader[r])
      BY DEF SourcesInv
    <3>2. DOMAIN Manifests = 1 .. Len(Manifests)
      BY DEF ListingAssumption
    <3> QED
      BY <3>1, <3>2 DEF ScanSound, Early, Amid, Read, Reading
  <2> QED
    BY <2>1, <2>2 DEF Src!ReadsAreSound
<1>3. SourcesInv /\ [Src!SourcesNext]_(Src!sourceVars) => SourcesInv'
  BY SourcesStep
<1> QED
  BY <1>1, <1>2, <1>3, PTL

HIDE ListingAssumption

-----------------------------------------------------------------------------
(* The marketplace facade                                                  *)

Loading == {v \in Visitor : visitor[v].at \in {"preparing", "asking"}}
Changing == {v \in Visitor : visitor[v].at \in {"configured", "preparing", "asking"}}

PartsTyped ==
    /\ built = [g \in 1 .. Len(built) |-> built[g]] /\ Len(built) \in Nat \ {0}
    /\ holds \in Seq(BOOLEAN) /\ Len(holds) = Len(built)
    /\ mixed \in BOOLEAN
    /\ visitor = [v \in Visitor |-> visitor[v]]
    /\ \A v \in Visitor : visitor[v] = [at |-> visitor[v].at, part |-> visitor[v].part,
                                        config |-> visitor[v].config]

\* A load that is alone asks the client that is in place when it ends.
LoadIsAlone ==
    ~mixed => /\ \A v, w \in Loading : v = w
              /\ \A v \in Visitor : visitor[v].at = "asking" => visitor[v].part = Len(built)

CatalogKnown ==
    ~mixed /\ Changing = {} => catalog = 0 \/ (catalog = Len(built) /\ holds[Len(built)])

MarketInv == PartsTyped /\ LoadIsAlone /\ CatalogKnown

\* Another call of the visitor, or another state of the same one.
Moves(v, place) ==
    /\ v \in Visitor
    /\ visitor' = [visitor EXCEPT ![v] = visitor'[v]]
    /\ visitor'[v] = [at |-> place, part |-> visitor'[v].part, config |-> visitor'[v].config]

LEMMA MovesIs ==
    ASSUME PartsTyped, NEW v \in Visitor, NEW place, NEW part, NEW config, NEW s,
           s = [at |-> place, part |-> part, config |-> config],
           visitor' = [visitor EXCEPT ![v] = s]
    PROVE  Moves(v, place) /\ visitor'[v].part = part
<1>1. s = [at |-> place, part |-> s.part, config |-> s.config] /\ s.part = part
  OBVIOUS
<1>2. visitor'[v] = s
  BY DEF PartsTyped
<1> QED
  BY <1>1, <1>2, Zenon DEF Moves

LEMMA OneRecord ==
    ASSUME NEW a, NEW b, NEW c, NEW s \in [at : {a}, part : {b}, config : {c}]
    PROVE  s = [at |-> a, part |-> b, config |-> c]
<1>1. s = [at |-> s.at, part |-> s.part, config |-> s.config]
  OBVIOUS
<1>2. s.at = a /\ s.part = b /\ s.config = c
  OBVIOUS
<1> QED
  BY <1>1, <1>2, Zenon

\* What a record of a visitor is after its state has been changed.
LEMMA WithConfig ==
    ASSUME PartsTyped, NEW v \in Visitor, NEW place, NEW config
    PROVE  [visitor[v] EXCEPT !.at = place, !.config = config]
              = [at |-> place, part |-> visitor[v].part, config |-> config]
<1>1. PICK x, y, z : visitor[v] = [at |-> x, part |-> y, config |-> z]
  BY DEF PartsTyped
<1> DEFINE Of(a, b, c) == [at : {a}, part : {b}, config : {c}]
<1>2. visitor[v] \in Of(x, y, z) /\ visitor[v].part = y
  BY <1>1
<1>3. [visitor[v] EXCEPT !.at = place] \in Of(place, y, z)
  BY <1>2
<1>4. [visitor[v] EXCEPT !.at = place, !.config = config] \in Of(place, y, config)
  BY <1>3
<1> QED
  BY <1>2, <1>4, OneRecord

LEMMA WithPart ==
    ASSUME PartsTyped, NEW v \in Visitor, NEW place, NEW part
    PROVE  [visitor[v] EXCEPT !.at = place, !.part = part]
              = [at |-> place, part |-> part, config |-> visitor[v].config]
<1>1. PICK x, y, z : visitor[v] = [at |-> x, part |-> y, config |-> z]
  BY DEF PartsTyped
<1> DEFINE Of(a, b, c) == [at : {a}, part : {b}, config : {c}]
<1>2. visitor[v] \in Of(x, y, z) /\ visitor[v].config = z
  BY <1>1
<1>3. [visitor[v] EXCEPT !.at = place] \in Of(place, y, z)
  BY <1>2
<1>4. [visitor[v] EXCEPT !.at = place, !.part = part] \in Of(place, part, z)
  BY <1>3
<1> QED
  BY <1>2, <1>4, OneRecord

LEMMA VisitorsTyped ==
    ASSUME PartsTyped, NEW v, NEW place, Moves(v, place)
    PROVE  /\ visitor' = [o \in Visitor |-> visitor'[o]]
           /\ \A o \in Visitor : visitor'[o] = [at |-> visitor'[o].at, part |-> visitor'[o].part,
                                                config |-> visitor'[o].config]
           /\ \A o \in Visitor \ {v} : visitor'[o] = visitor[o]
           /\ visitor'[v].at = place
  BY DEF PartsTyped, Moves

\* A step that replaces no part and ends no load keeps the invariant.
LEMMA OperationKeeps ==
    ASSUME MarketInv, NEW v, NEW place, Moves(v, place),
           visitor[v].at \notin {"configured", "preparing", "asking"},
           place \notin {"preparing", "asking"},
           UNCHANGED <<built, catalog, mixed>>,
           holds' \in Seq(BOOLEAN), Len(holds') = Len(holds),
           place # "configured" => \A g \in 1 .. Len(built) : holds[g] => holds'[g]
    PROVE  MarketInv'
<1>1. PartsTyped'
  BY VisitorsTyped DEF MarketInv, PartsTyped
<1>2. Loading' = Loading
  BY VisitorsTyped DEF MarketInv, Moves, Loading
<1>3. LoadIsAlone'
  BY <1>2, VisitorsTyped DEF MarketInv, LoadIsAlone, Moves
<1>4. CatalogKnown'
  <2>1. Changing' = {} => Changing = {} /\ place # "configured"
    BY VisitorsTyped DEF MarketInv, Moves, Changing
  <2> QED
    BY <2>1 DEF MarketInv, CatalogKnown, PartsTyped
<1> QED
  BY <1>1, <1>3, <1>4 DEF MarketInv

LEMMA BeginKeeps ==
    ASSUME MarketInv, NEW v \in Visitor,
           \/ \E input : Mkt!LoadBegins(v, input)
           \/ Mkt!LoadIsInvalid(v) \/ Mkt!UpdateBegins(v) \/ Mkt!OperationBegins(v)
           \/ \E stored : Mkt!InstallEnds(v, stored)
    PROVE  MarketInv'
<1>1. UNCHANGED <<built, catalog, mixed>>
  BY DEF Mkt!LoadBegins, Mkt!LoadIsInvalid, Mkt!UpdateBegins, Mkt!OperationBegins,
         Mkt!InstallEnds
<1>2. visitor[v].at \in {"idle", "installing"}
  BY DEF Mkt!LoadBegins, Mkt!LoadIsInvalid, Mkt!UpdateBegins, Mkt!OperationBegins,
         Mkt!InstallEnds, Mkt!At
<1>3. PICK place \in {"configured", "rejected", "resolving", "done"} :
        Moves(v, place) /\ (UNCHANGED holds \/ place = "configured")
  <2>1. ASSUME NEW input, Mkt!LoadBegins(v, input)
        PROVE  Moves(v, "configured")
    <3> DEFINE s == [visitor[v] EXCEPT !.at = "configured", !.config = managed']
    <3>1. visitor' = [visitor EXCEPT ![v] = s]
      BY <2>1 DEF Mkt!LoadBegins
    <3>2. s = [at |-> "configured", part |-> visitor[v].part, config |-> managed']
      BY WithConfig DEF MarketInv
    <3> HIDE DEF s
    <3> QED
      BY <3>1, <3>2, MovesIs DEF MarketInv
  <2>2. ASSUME Mkt!UpdateBegins(v)
        PROVE  Moves(v, "configured")
    <3> DEFINE s == [visitor[v] EXCEPT !.at = "configured", !.config = managed]
    <3>1. visitor' = [visitor EXCEPT ![v] = s]
      BY <2>2 DEF Mkt!UpdateBegins
    <3>2. s = [at |-> "configured", part |-> visitor[v].part, config |-> managed]
      BY WithConfig DEF MarketInv
    <3> HIDE DEF s
    <3> QED
      BY <3>1, <3>2, MovesIs DEF MarketInv
  <2>3. ASSUME Mkt!OperationBegins(v)
        PROVE  Moves(v, "resolving") \/ Moves(v, "rejected")
    <3>1. CASE loaded
      <4>0. PICK made : made = Len(built)
        OBVIOUS
      <4> DEFINE s == [visitor[v] EXCEPT !.at = "resolving", !.part = made]
      <4>1. visitor' = [visitor EXCEPT ![v] = s]
        BY <4>0, <2>3, <3>1 DEF Mkt!OperationBegins, Mkt!Made
      <4>2. s = [at |-> "resolving", part |-> made, config |-> visitor[v].config]
        BY WithPart DEF MarketInv
      <4> HIDE DEF s
      <4> QED
        BY <4>1, <4>2, MovesIs DEF MarketInv
    <3>2. CASE ~loaded
      <4>1. visitor' = [visitor EXCEPT ![v] = Mkt!Place("rejected")]
        BY <2>3, <3>2 DEF Mkt!OperationBegins
      <4> QED
        BY <4>1, MovesIs DEF MarketInv, Mkt!Place
    <3> QED
      BY <3>1, <3>2
  <2>4. ASSUME Mkt!LoadIsInvalid(v)
        PROVE  Moves(v, "rejected") /\ UNCHANGED holds
    BY <2>4, MovesIs DEF MarketInv, Mkt!LoadIsInvalid, Mkt!Goes, Mkt!Place
  <2>5. ASSUME NEW stored, Mkt!InstallEnds(v, stored)
        PROVE  (Moves(v, "done") \/ Moves(v, "rejected")) /\ UNCHANGED holds
    BY <2>5, MovesIs DEF MarketInv, Mkt!InstallEnds, Mkt!Goes, Mkt!Place
  <2>6. Mkt!OperationBegins(v) => UNCHANGED holds
    BY DEF Mkt!OperationBegins
  <2> QED
    BY <2>1, <2>2, <2>3, <2>4, <2>5, <2>6
<1>4. holds' \in Seq(BOOLEAN) /\ Len(holds') = Len(holds)
  <2>1. UNCHANGED holds \/ holds' = [holds EXCEPT ![Len(built)] = FALSE]
    BY DEF Mkt!LoadBegins, Mkt!LoadIsInvalid, Mkt!UpdateBegins, Mkt!OperationBegins,
           Mkt!InstallEnds, Mkt!Made
  <2>2. CASE holds' = [holds EXCEPT ![Len(built)] = FALSE]
    BY <2>2 DEF MarketInv, PartsTyped
  <2> QED
    BY <2>1, <2>2 DEF MarketInv, PartsTyped
<1> QED
  BY <1>1, <1>2, <1>3, <1>4, OperationKeeps

LEMMA AskKeeps ==
    ASSUME PartsTyped, NEW g, NEW found \in BOOLEAN, Mkt!Ask(g, found)
    PROVE  /\ holds' \in Seq(BOOLEAN) /\ Len(holds') = Len(holds)
           /\ \A o \in 1 .. Len(built) : holds[o] => holds'[o]
           /\ found /\ g \in 1 .. Len(built) => holds'[g]
<1>1. holds' = [holds EXCEPT ![g] = holds[g] \/ found]
  BY DEF Mkt!Ask
<1>2. CASE g \in 1 .. Len(built)
  <2>1. (holds[g] \/ found) \in BOOLEAN
    OBVIOUS
  <2>2. /\ holds' \in Seq(BOOLEAN) /\ Len(holds') = Len(holds)
        /\ \A o \in 1 .. Len(built) : o # g => holds'[o] = holds[o]
        /\ holds'[g] = (holds[g] \/ found)
    BY <1>1, <1>2, <2>1 DEF PartsTyped
  <2> QED
    BY <2>2, OneRecord
<1>3. CASE g \notin 1 .. Len(built)
  <2>1. holds = [o \in 1 .. Len(built) |-> holds[o]] /\ Len(holds) = Len(built)
    BY DEF PartsTyped
  <2>2. holds' = holds
    BY <1>1, <1>3, <2>1
  <2> QED
    BY <1>3, <2>2 DEF PartsTyped
<1> QED
  BY <1>2, <1>3

LEMMA ResolvedKeeps ==
    ASSUME MarketInv, NEW v \in Visitor, NEW found \in BOOLEAN, NEW installs \in BOOLEAN,
           Mkt!Resolved(v, found, installs)
    PROVE  MarketInv'
<1>1. UNCHANGED <<built, catalog, mixed>> /\ visitor[v].at = "resolving"
  BY DEF Mkt!Resolved, Mkt!At
<1>2. PICK place \in {"installing", "done", "rejected"} : Moves(v, place)
  <2>1. CASE installs
    <3>0. PICK made : made = Len(built)
      OBVIOUS
    <3> DEFINE s == [visitor[v] EXCEPT !.at = "installing", !.part = made]
    <3>1. visitor' = [visitor EXCEPT ![v] = s]
      BY <3>0, <2>1 DEF Mkt!Resolved, Mkt!Made
    <3>2. s = [at |-> "installing", part |-> made, config |-> visitor[v].config]
      BY WithPart DEF MarketInv
    <3> HIDE DEF s
    <3> QED
      BY <3>1, <3>2, MovesIs DEF MarketInv
  <2>2. CASE ~installs
    <3>1. visitor' = [visitor EXCEPT ![v] = Mkt!Place(IF found THEN "done" ELSE "rejected")]
      BY <2>2 DEF Mkt!Resolved
    <3> QED
      BY <3>1, MovesIs DEF MarketInv, Mkt!Place
  <2> QED
    BY <2>1, <2>2
<1>3. /\ holds' \in Seq(BOOLEAN) /\ Len(holds') = Len(holds)
      /\ \A o \in 1 .. Len(built) : holds[o] => holds'[o]
  BY AskKeeps DEF MarketInv, Mkt!Resolved
<1> QED
  BY <1>1, <1>2, <1>3, OperationKeeps

LEMMA RebuildKeeps ==
    ASSUME MarketInv, NEW v \in Visitor, Mkt!RebuildComponents(v)
    PROVE  MarketInv'
<1>1. /\ built' = Append(built, visitor[v].config) /\ holds' = Append(holds, FALSE)
      /\ mixed' = (Loading # {}) /\ UNCHANGED catalog /\ visitor[v].at = "configured"
  BY DEF Mkt!RebuildComponents, Mkt!At, Loading
<1>2. Moves(v, "preparing")
  BY DEF MarketInv, PartsTyped, Moves, Mkt!RebuildComponents, Mkt!Goes, Mkt!Place
<1>3. PartsTyped'
  BY <1>1, <1>2, VisitorsTyped DEF MarketInv, PartsTyped
<1>4. Loading' = Loading \cup {v} /\ v \in Changing'
  BY <1>2, VisitorsTyped DEF MarketInv, Moves, Loading, Changing
<1>5. LoadIsAlone'
  <2> SUFFICES ASSUME ~mixed'
               PROVE  /\ \A o, w \in Loading' : o = w
                      /\ \A o \in Visitor : visitor'[o].at # "asking"
    BY DEF LoadIsAlone
  <2>1. Loading = {} /\ Loading' = {v}
    BY <1>1, <1>4
  <2> QED
    BY <2>1, <1>2, VisitorsTyped DEF MarketInv, Loading
<1> QED
  BY <1>3, <1>4, <1>5 DEF MarketInv, CatalogKnown

LEMMA PrepareKeeps ==
    ASSUME MarketInv, NEW v \in Visitor, Mkt!Prepare(v) \/ Mkt!PrepareFails(v)
    PROVE  MarketInv'
<1>1. UNCHANGED <<built, holds, catalog>> /\ visitor[v].at = "preparing"
  BY DEF Mkt!Prepare, Mkt!PrepareFails, Mkt!At
<1>2. CASE Mkt!PrepareFails(v)
  <2>1. mixed' = TRUE /\ Moves(v, "rejected")
    BY <1>2 DEF MarketInv, PartsTyped, Moves, Mkt!PrepareFails, Mkt!Goes, Mkt!Place
  <2> QED
    BY <1>1, <2>1, VisitorsTyped DEF MarketInv, PartsTyped, LoadIsAlone, CatalogKnown
<1>3. CASE Mkt!Prepare(v)
  <2>1. UNCHANGED mixed /\ Moves(v, "asking") /\ visitor'[v].part = Len(built)
    <3>0. PICK made : made = Len(built)
      OBVIOUS
    <3> DEFINE s == [visitor[v] EXCEPT !.at = "asking", !.part = made]
    <3>1. visitor' = [visitor EXCEPT ![v] = s]
      BY <3>0, <1>3 DEF Mkt!Prepare, Mkt!Made
    <3>2. s = [at |-> "asking", part |-> made, config |-> visitor[v].config]
      BY WithPart DEF MarketInv
    <3> HIDE DEF s
    <3> QED
      <4>1. Moves(v, "asking") /\ visitor'[v].part = Len(built)
        BY <3>0, <3>1, <3>2, MovesIs DEF MarketInv
      <4> QED
        BY <1>3, <4>1 DEF Mkt!Prepare
  <2>2. Loading' = Loading /\ v \in Changing'
    BY <1>1, <2>1, VisitorsTyped DEF MarketInv, Moves, Loading, Changing
  <2>3. LoadIsAlone'
    BY <1>1, <2>1, <2>2, VisitorsTyped DEF MarketInv, LoadIsAlone
  <2> QED
    BY <1>1, <2>1, <2>2, <2>3, VisitorsTyped DEF MarketInv, PartsTyped, CatalogKnown
<1> QED
  BY <1>2, <1>3

LEMMA LoadEndKeeps ==
    ASSUME MarketInv, NEW v \in Visitor, NEW found \in BOOLEAN, Mkt!LoadEnds(v, found)
    PROVE  MarketInv'
<1> DEFINE p == visitor[v].part
<1>1. /\ UNCHANGED <<built, mixed>> /\ visitor[v].at = "asking"
      /\ catalog' = IF found THEN p ELSE 0
  BY DEF Mkt!LoadEnds, Mkt!At, Mkt!Given
<1>2. Moves(v, "done")
  BY DEF MarketInv, PartsTyped, Moves, Mkt!LoadEnds, Mkt!Goes, Mkt!Place
<1>3. /\ holds' \in Seq(BOOLEAN) /\ Len(holds') = Len(holds)
      /\ found /\ p \in 1 .. Len(built) => holds'[p]
  BY AskKeeps DEF MarketInv, Mkt!LoadEnds
<1>4. PartsTyped'
  BY <1>1, <1>2, <1>3, VisitorsTyped DEF MarketInv, PartsTyped
<1>5. Loading' \subseteq Loading
  BY <1>1, <1>2, VisitorsTyped DEF MarketInv, Moves, Loading
<1>6. LoadIsAlone'
  BY <1>1, <1>2, <1>5, VisitorsTyped DEF MarketInv, LoadIsAlone
<1>7. CatalogKnown'
  BY <1>1, <1>3 DEF MarketInv, LoadIsAlone, CatalogKnown, PartsTyped
<1> QED
  BY <1>4, <1>6, <1>7 DEF MarketInv

\* What search shows is known to the operations, unless the last load was
\* rejected or overlapped another (Marketplace.load).
THEOREM SearchShowsWhatIsKnown ==
    Mkt!MarketInit /\ [][Mkt!MarketNext]_(Mkt!marketVars) => []Mkt!ShownIsKnown
<1>1. Mkt!MarketInit => MarketInv
  <2> SUFFICES ASSUME Mkt!MarketInit
               PROVE  MarketInv
    OBVIOUS
  <2>1. \A v \in Visitor : visitor[v] = Mkt!Place("idle")
    BY DEF Mkt!MarketInit
  <2>2. PartsTyped
    <3>1. /\ Len(built) = 1 /\ built \in Seq({managed}) /\ holds \in Seq(BOOLEAN)
          /\ Len(holds) = 1
      BY DEF Mkt!MarketInit
    <3>2. visitor = [v \in Visitor |-> visitor[v]] /\ mixed = FALSE
      BY DEF Mkt!MarketInit
    <3>3. \A v \in Visitor : visitor[v] = [at |-> visitor[v].at, part |-> visitor[v].part,
                                            config |-> visitor[v].config]
      BY <2>1 DEF Mkt!Place
    <3>4. built = [o \in 1 .. Len(built) |-> built[o]]
      BY DEF Mkt!MarketInit
    <3>5. Len(built) \in Nat \ {0} /\ Len(holds) = Len(built) /\ mixed \in BOOLEAN
      <4>1. Len(built) \in Nat \ {0} /\ Len(holds) = Len(built)
        BY <3>1
      <4> QED
        BY <3>2, <4>1, Zenon
    <3> QED
      BY <3>1, <3>2, <3>3, <3>4, <3>5, Zenon DEF PartsTyped
  <2>3. catalog = 0 /\ \A v \in Visitor : visitor[v].at = "idle"
    BY <2>1 DEF Mkt!MarketInit, Mkt!Place
  <2> QED
    BY <2>2, <2>3 DEF MarketInv, LoadIsAlone, CatalogKnown, Loading
<1>2. MarketInv /\ [Mkt!MarketNext]_(Mkt!marketVars) => MarketInv'
  <2>1. MarketInv /\ UNCHANGED Mkt!marketVars => MarketInv'
    BY DEF Mkt!marketVars, MarketInv, PartsTyped, LoadIsAlone, CatalogKnown, Loading, Changing
  <2> QED
    BY <2>1, BeginKeeps, ResolvedKeeps, RebuildKeeps, PrepareKeeps, LoadEndKeeps
       DEF Mkt!MarketNext
<1>3. MarketInv => Mkt!ShownIsKnown
  BY DEF MarketInv, CatalogKnown, Changing, Mkt!ShownIsKnown, Mkt!At, Mkt!Made
<1> QED
  BY <1>1, <1>2, <1>3, PTL

-----------------------------------------------------------------------------
(* The terminal interface                                                  *)

Modal == {"splash", "installProgress", "success"}
OfResource == {"resourcePreview", "installConfig", "dependencyPreview"}

Screen ==
    Modal \cup OfResource
          \cup {"mainMenu", "categorySelection", "resourceList", "search", "installed",
                "recommended", "doctor", "settings"}

\* Screens that can be on the stack while resource is chosen.
Shape(screens, resource) ==
    /\ screens \in Seq(Screen) /\ Len(screens) > 0
    /\ \A i \in 1 .. Len(screens) - 1 : screens[i] \notin Modal
    /\ \A i \in 1 .. Len(screens) : screens[i] \in OfResource => resource # None

Last(screens) == screens[Len(screens)]

HasFields(d) == {"resource", "result"} \subseteq DOMAIN d

\* What the install of the progress screen is of, and its result.
InstallSound(top, d, s, effect, wanted) ==
    /\ effect.phase \in {"none", "waiting", "calling", "answered"}
    /\ effect.phase # "none" => top = "installProgress"
    /\ top = "installProgress" => (effect.phase # "none" \/ ~live) /\ s.resource = wanted
    /\ effect.phase \in {"calling", "answered"} => effect.of = wanted
    /\ effect.phase = "answered" => d.result # None /\ d.result.of = effect.of
    /\ top = "success" => s.result # None /\ s.result.of = wanted

WizardInv ==
    /\ live \in BOOLEAN
    /\ Shape(stack, data.resource) /\ data.resource \in Item \cup {None}
    /\ HasFields(data) /\ HasFields(seen) /\ seen.resource = data.resource
    /\ InstallSound(Last(stack), data, seen, install, confirmed)

LEMMA AppendIs ==
    ASSUME NEW S, NEW s \in Seq(S), NEW x \in S
    PROVE  /\ Append(s, x) \in Seq(S) /\ Len(Append(s, x)) = Len(s) + 1
           /\ \A i \in 1 .. Len(s) : Append(s, x)[i] = s[i]
           /\ Append(s, x)[Len(s) + 1] = x /\ Len(s) \in Nat
  OBVIOUS

LEMMA FrontIs ==
    ASSUME NEW S, NEW s \in Seq(S), Len(s) > 0
    PROVE  /\ Wiz!Front(s) \in Seq(S) /\ Len(Wiz!Front(s)) = Len(s) - 1
           /\ \A i \in 1 .. Len(s) - 1 : Wiz!Front(s)[i] = s[i]
<1>1. Wiz!Front(s) = SubSeq(s, 1, Len(s) - 1)
  BY DEF Wiz!Front
<1>2. Len(s) \in Nat /\ Len(s) - 1 \in Nat
  OBVIOUS
<1>3. /\ SubSeq(s, 1, Len(s) - 1) \in Seq(S) /\ Len(SubSeq(s, 1, Len(s) - 1)) = Len(s) - 1
      /\ \A i \in 1 .. Len(s) - 1 : SubSeq(s, 1, Len(s) - 1)[i] = s[i]
  <2>1. \A i \in 1 .. Len(s) - 1 : s[i] \in S
    BY <1>2
  <2>2. \A i \in 1 .. Len(s) - 1 : i \in 1 .. (Len(s) - 1) - 1 + 1 /\ (1 + i) - 1 = i
    BY <1>2
  <2> DEFINE n == Len(s) - 1
  <2>3. /\ SubSeq(s, 1, n) \in Seq(S) /\ Len(SubSeq(s, 1, n)) = IF 1 <= n THEN n - 1 + 1 ELSE 0
        /\ \A i \in 1 .. n - 1 + 1 : SubSeq(s, 1, n)[i] = s[1 + i - 1]
    <3>1. 1 \in Int /\ n \in Int /\ \A i \in 1 .. n : s[i] \in S
      BY <1>2, <2>1
    <3> HIDE DEF n
    <3> QED
      BY <3>1, SubSeqProperties
  <2>4. n \in Nat /\ \A i \in 1 .. n : i \in 1 .. n - 1 + 1 /\ 1 + i - 1 = i
    BY <1>2
  <2> HIDE DEF n
  <2>5. (IF 1 <= n THEN n - 1 + 1 ELSE 0) = n
    BY <2>4
  <2>6. /\ SubSeq(s, 1, n) \in Seq(S) /\ Len(SubSeq(s, 1, n)) = n
        /\ \A i \in 1 .. n : SubSeq(s, 1, n)[i] = s[i]
    BY <2>3, <2>4, <2>5
  <2> QED
    BY <2>6 DEF n
<1> QED
  BY <1>1, <1>3

LEMMA TopIsLast == Wiz!Top = Last(stack) /\ \A s : Wiz!Last(s) = Last(s)
  BY DEF Wiz!Top, Wiz!Last, Last

LEMMA PushShape ==
    ASSUME NEW resource, Shape(stack, resource), Last(stack) \notin Modal, NEW screen \in Screen,
           NEW chosen, chosen = None => resource = None, screen \in OfResource => chosen # None
    PROVE  Shape(Append(stack, screen), chosen) /\ Last(Append(stack, screen)) = screen
<1> DEFINE longer == Append(stack, screen)
<1>1. stack \in Seq(Screen) /\ Len(stack) > 0
  BY DEF Shape
<1>2. /\ longer \in Seq(Screen) /\ Len(longer) = Len(stack) + 1
      /\ \A i \in 1 .. Len(stack) : longer[i] = stack[i]
      /\ longer[Len(stack) + 1] = screen /\ Len(stack) \in Nat
  BY <1>1, AppendIs
<1>3. \A i \in 1 .. Len(stack) :
        stack[i] \notin Modal /\ (stack[i] \in OfResource => resource # None)
  BY <1>1, <1>2 DEF Shape, Last
<1> HIDE DEF longer
<1>4. \A i \in 1 .. Len(longer) - 1 : longer[i] \notin Modal
  BY <1>1, <1>2, <1>3
<1>5. \A i \in 1 .. Len(longer) : longer[i] \in OfResource => chosen # None
  <2> TAKE i \in 1 .. Len(longer)
  <2>1. CASE i = Len(stack) + 1
    BY <1>2, <2>1
  <2>2. CASE i \in 1 .. Len(stack)
    BY <1>2, <1>3, <2>2
  <2> QED
    BY <1>2, <2>1, <2>2
<1>6. Len(longer) > 0 /\ longer[Len(longer)] = screen
  BY <1>2
<1>7. Shape(longer, chosen) /\ Last(longer) = screen
  BY <1>2, <1>4, <1>5, <1>6 DEF Shape, Last
<1> QED
  BY <1>7 DEF longer

LEMMA PopShape ==
    ASSUME NEW resource, Shape(stack, resource), Len(stack) > 1
    PROVE  Shape(Wiz!Front(stack), resource) /\ Last(Wiz!Front(stack)) \notin Modal
<1>1. /\ Wiz!Front(stack) \in Seq(Screen) /\ Len(Wiz!Front(stack)) = Len(stack) - 1
      /\ \A i \in 1 .. Len(stack) - 1 : Wiz!Front(stack)[i] = stack[i]
  BY DEF Shape, Wiz!Front
<1> QED
  BY <1>1 DEF Shape, Last

LEMMA GotoShape ==
    ASSUME NEW resource, Shape(stack, resource), NEW screen \in Screen, screen \notin OfResource
    PROVE  Shape(Wiz!Goto(screen), resource) /\ Last(Wiz!Goto(screen)) = screen
<1> DEFINE f == Wiz!Front(stack)
<1>1. /\ f \in Seq(Screen) /\ Len(f) = Len(stack) - 1 /\ Len(f) \in Nat
      /\ \A i \in 1 .. Len(stack) - 1 : f[i] = stack[i]
  BY FrontIs DEF Shape
<1>2. \A i \in 1 .. Len(f) : f[i] \notin Modal /\ (f[i] \in OfResource => resource # None)
  BY <1>1 DEF Shape
<1> HIDE DEF f
<1>3. /\ Append(f, screen) \in Seq(Screen) /\ Len(Append(f, screen)) = Len(f) + 1
      /\ \A i \in 1 .. Len(f) : Append(f, screen)[i] = f[i]
      /\ Append(f, screen)[Len(f) + 1] = screen
  BY <1>1, AppendIs
<1> DEFINE longer == Append(f, screen)
<1>4. /\ longer \in Seq(Screen) /\ Len(longer) = Len(f) + 1
      /\ \A i \in 1 .. Len(f) : longer[i] = f[i]
      /\ longer[Len(f) + 1] = screen
  BY <1>3
<1> HIDE DEF longer
<1>5. \A i \in 1 .. Len(longer) - 1 : longer[i] \notin Modal
  BY <1>1, <1>2, <1>4
<1>6. \A i \in 1 .. Len(longer) : longer[i] \in OfResource => resource # None
  <2> TAKE i \in 1 .. Len(longer)
  <2>1. CASE i = Len(f) + 1
    BY <1>4, <2>1
  <2>2. CASE i \in 1 .. Len(f)
    BY <1>2, <1>4, <2>2
  <2> QED
    BY <1>1, <1>4, <2>1, <2>2
<1>7. longer \in Seq(Screen) /\ Len(longer) > 0 /\ longer[Len(longer)] = screen
  BY <1>1, <1>4
<1>8. Shape(longer, resource) /\ Last(longer) = screen
  BY <1>5, <1>6, <1>7 DEF Shape, Last
<1> QED
  BY <1>8 DEF longer, f, Wiz!Goto

\* A step to another screen, or on the same one, outside of an install.
LEMMA BrowseKeeps ==
    ASSUME WizardInv, NEW screens, NEW d, Wiz!Render(screens, d, install),
           UNCHANGED <<live, confirmed>>,
           Shape(screens, d.resource), HasFields(d), d.resource \in Item \cup {None},
           Last(stack) # "installProgress", Last(screens) \notin {"installProgress", "success"},
           Last(screens) = Last(stack) => d.resource = data.resource
    PROVE  WizardInv'
<1>1. /\ stack' = screens /\ data' = d /\ install' = install
      /\ seen' = IF Last(screens) = Last(stack) THEN seen ELSE d
  BY TopIsLast DEF Wiz!Render, Wiz!Context
<1>2. install.phase = "none"
  BY DEF WizardInv, InstallSound
<1>3. HasFields(seen') /\ seen'.resource = data'.resource
  BY <1>1 DEF WizardInv
<1>4. InstallSound(Last(stack), data, seen, install, confirmed)'
  BY <1>1, <1>2 DEF InstallSound, Last
<1> QED
  BY <1>1, <1>3, <1>4 DEF WizardInv

LEMMA SetIs ==
    ASSUME HasFields(data), NEW field, NEW value
    PROVE  /\ HasFields(Wiz!Set(field, value))
           /\ field # "resource" => Wiz!Set(field, value).resource = data.resource
           /\ field = "resource" => Wiz!Set(field, value).resource = value
           /\ field = "result" => Wiz!Set(field, value).result = value
  BY DEF HasFields, Wiz!Set

LEMMA LocalKeeps ==
    ASSUME WizardInv, UNCHANGED <<live, stack, data, seen, install, confirmed>>
    PROVE  WizardInv'
  BY DEF WizardInv, Shape, HasFields, InstallSound, Last

\* A key that opens another screen on top of this one.
LEMMA OpenKeeps ==
    ASSUME WizardInv, NEW screen \in Screen, NEW d,
           Wiz!Render(Wiz!Push(screen), d, install), UNCHANGED <<live, confirmed>>,
           Last(stack) \notin Modal, screen \notin Modal, HasFields(d),
           \/ d.resource = data.resource
           \/ d.resource \in Item /\ screen # Last(stack),
           screen \in OfResource => d.resource # None
    PROVE  WizardInv'
<1>1. /\ Shape(Append(stack, screen), d.resource) /\ Last(Append(stack, screen)) = screen
  <2>1. Shape(stack, data.resource) /\ (d.resource = None => data.resource = None)
    BY NoneAssumption DEF WizardInv, NoneAssumption
  <2> QED
    BY <2>1, PushShape
<1>2. /\ screen \notin {"installProgress", "success"} /\ Last(stack) # "installProgress"
      /\ d.resource \in Item \cup {None}
  BY DEF Modal, WizardInv
<1> QED
  BY <1>1, <1>2, BrowseKeeps DEF Wiz!Push

LEMMA MenuKeeps ==
    ASSUME WizardInv, Wiz!OpenFromMenu \/ Wiz!SelectCategory \/ Wiz!OpenFromPreview
    PROVE  WizardInv'
<1>1. CASE Wiz!OpenFromMenu
  <2>1. PICK screen \in {"categorySelection", "search", "installed", "recommended",
                         "doctor", "settings"} : Wiz!Render(Wiz!Push(screen), data, install)
    BY <1>1 DEF Wiz!OpenFromMenu, Wiz!Show
  <2>2. /\ screen \in Screen /\ screen \notin Modal /\ screen \notin OfResource
        /\ Last(stack) \notin Modal /\ UNCHANGED <<live, confirmed>> /\ HasFields(data)
    <3>1. Last(stack) = "mainMenu" /\ UNCHANGED <<live, confirmed>>
      BY <1>1, TopIsLast DEF Wiz!OpenFromMenu
    <3>2. screen \in Screen /\ screen \notin Modal /\ screen \notin OfResource
      BY <2>1 DEF Modal, OfResource, Screen
    <3> QED
      BY <3>1, <3>2 DEF Modal, WizardInv
  <2> QED
    BY <2>1, <2>2, OpenKeeps
<1>2. CASE Wiz!SelectCategory
  <2>1. PICK c \in Section :
          Wiz!Render(Wiz!Push("resourceList"), Wiz!Set("category", c), install)
    BY <1>2 DEF Wiz!SelectCategory
  <2>2. /\ "resourceList" \notin Modal /\ "resourceList" \notin OfResource
        /\ Last(stack) \notin Modal /\ UNCHANGED <<live, confirmed>> /\ HasFields(data)
    BY <1>2, TopIsLast DEF Modal, OfResource, Wiz!SelectCategory, WizardInv
  <2>3. /\ HasFields(Wiz!Set("category", c))
        /\ Wiz!Set("category", c).resource = data.resource
    BY <2>2, SetIs
  <2> DEFINE d == Wiz!Set("category", c)
  <2>4. /\ d.resource = data.resource \/ (d.resource \in Item /\ "resourceList" # Last(stack))
        /\ "resourceList" \in OfResource => d.resource # None
        /\ "resourceList" \in Screen
        /\ Wiz!Render(Wiz!Push("resourceList"), d, install) /\ HasFields(d)
    BY <2>1, <2>2, <2>3 DEF Screen
  <2> HIDE DEF d
  <2> QED
    BY <2>2, <2>4, OpenKeeps
<1>3. CASE Wiz!OpenFromPreview
  <2>1. PICK screen \in {"installConfig", "dependencyPreview"} :
          Wiz!Render(Wiz!Push(screen), data, install)
    BY <1>3 DEF Wiz!OpenFromPreview, Wiz!Show
  <2>2. /\ screen \in Screen /\ screen \notin Modal
        /\ Last(stack) \notin Modal /\ UNCHANGED <<live, confirmed>> /\ HasFields(data)
    <3>1. Last(stack) = "resourcePreview" /\ UNCHANGED <<live, confirmed>>
      BY <1>3, TopIsLast DEF Wiz!OpenFromPreview
    <3>2. screen \in Screen /\ screen \notin Modal
      BY <2>1 DEF Modal, OfResource, Screen
    <3> QED
      BY <3>1, <3>2 DEF Modal, WizardInv
  <2>3. data.resource # None
    BY <1>3, TopIsLast DEF Wiz!OpenFromPreview, WizardInv, Shape, OfResource, Last
  <2> QED
    BY <2>1, <2>2, <2>3, OpenKeeps
<1> QED
  BY <1>1, <1>2, <1>3

LEMMA SelectKeeps ==
    ASSUME WizardInv,
           Wiz!SelectFromList \/ Wiz!SelectFromSearch \/ Wiz!SelectRecommended
    PROVE  WizardInv'
<1>1. PICK r \in Item :
        Wiz!Render(Wiz!Push("resourcePreview"), Wiz!Set("resource", r), install)
  BY NoneAssumption DEF NoneAssumption, Wiz!SelectFromList, Wiz!SelectFromSearch,
                        Wiz!SelectRecommended, Wiz!SelectOf, Wiz!OfCategory
<1>2. /\ "resourcePreview" \notin Modal /\ "resourcePreview" # Last(stack)
      /\ Last(stack) \notin Modal /\ UNCHANGED <<live, confirmed>> /\ HasFields(data)
  BY TopIsLast DEF Modal, WizardInv, Wiz!SelectFromList, Wiz!SelectFromSearch,
                   Wiz!SelectRecommended
<1>3. HasFields(Wiz!Set("resource", r)) /\ Wiz!Set("resource", r).resource = r
  BY <1>2, SetIs
<1> DEFINE d == Wiz!Set("resource", r)
<1>4. /\ d.resource = data.resource \/ (d.resource \in Item /\ "resourcePreview" # Last(stack))
      /\ "resourcePreview" \in OfResource => d.resource # None
      /\ "resourcePreview" \in Screen
      /\ Wiz!Render(Wiz!Push("resourcePreview"), d, install) /\ HasFields(d)
  <2>1. r # None
    BY NoneAssumption DEF NoneAssumption
  <2> QED
    BY <1>1, <1>2, <1>3, <2>1 DEF Screen, OfResource
<1> HIDE DEF d
<1> QED
  BY <1>2, <1>4, OpenKeeps

LEMMA StayKeeps ==
    ASSUME WizardInv, Wiz!Toggle \/ Wiz!Back
    PROVE  WizardInv'
<1>1. CASE Wiz!Toggle
  <2>1. PICK value : Wiz!Render(stack, Wiz!Set("config", value), install)
    BY <1>1 DEF Wiz!Toggle
  <2>2. /\ Last(stack) = "installConfig" /\ UNCHANGED <<live, confirmed>> /\ HasFields(data)
    BY <1>1, TopIsLast DEF WizardInv, Wiz!Toggle
  <2>3. HasFields(Wiz!Set("config", value)) /\ Wiz!Set("config", value).resource = data.resource
    BY <2>2, SetIs
  <2>4. /\ Shape(stack, Wiz!Set("config", value).resource)
        /\ Wiz!Set("config", value).resource \in Item \cup {None}
    BY <2>3 DEF WizardInv
  <2> QED
    BY <2>1, <2>2, <2>3, <2>4, BrowseKeeps
<1>2. CASE Wiz!Back
  <2>1. Wiz!Render(Wiz!Pop, data, install) /\ UNCHANGED <<live, confirmed>>
    BY <1>2 DEF Wiz!Back, Wiz!Show
  <2>2. /\ Last(stack) \notin Modal /\ Shape(stack, data.resource) /\ HasFields(data)
        /\ data.resource \in Item \cup {None}
    BY <1>2, TopIsLast DEF Wiz!Back, Modal, WizardInv
  <2>3. Shape(Wiz!Pop, data.resource) /\ Last(Wiz!Pop) \notin Modal
    BY <2>2, PopShape DEF Wiz!Pop
  <2>4. Last(Wiz!Pop) \notin {"installProgress", "success"} /\ Last(stack) # "installProgress"
    BY <2>2, <2>3 DEF Modal
  <2> QED
    BY <2>1, <2>2, <2>3, <2>4, BrowseKeeps
<1> QED
  BY <1>1, <1>2

LEMMA BootOrLeaveKeeps ==
    ASSUME WizardInv, Wiz!BootEnds \/ Wiz!Leave
    PROVE  WizardInv'
<1>0. /\ Shape(stack, data.resource) /\ HasFields(data)
      /\ data.resource \in Item \cup {None}
  BY DEF WizardInv
<1>1. CASE Wiz!BootEnds
  <2> DEFINE d == Wiz!Set("loaded", TRUE)
  <2>1. /\ Wiz!Render(Wiz!Goto("mainMenu"), d, install)
        /\ Last(stack) = "splash" /\ UNCHANGED <<live, confirmed>>
    BY <1>1, TopIsLast DEF Wiz!BootEnds
  <2>2. HasFields(d) /\ d.resource = data.resource
    BY <1>0, SetIs
  <2> HIDE DEF d
  <2>3. Shape(Wiz!Goto("mainMenu"), d.resource) /\ Last(Wiz!Goto("mainMenu")) = "mainMenu"
    <3>1. "mainMenu" \in Screen /\ "mainMenu" \notin OfResource
      BY DEF Screen, OfResource
    <3> QED
      BY <1>0, <2>2, <3>1, GotoShape
  <2>4. /\ Last(Wiz!Goto("mainMenu")) \notin {"installProgress", "success"}
        /\ Last(stack) # "installProgress"
    BY <2>1, <2>3
  <2> QED
    BY <1>0, <2>1, <2>2, <2>3, <2>4, BrowseKeeps
<1>2. CASE Wiz!Leave
  <2> DEFINE d == [data EXCEPT !.config = DefaultConfig, !.result = None]
  <2>1. PICK screens \in {Wiz!Goto("categorySelection"), Wiz!Home} :
          Wiz!Render(screens, d, install)
    BY <1>2 DEF Wiz!Leave
  <2>2. Last(stack) = "success" /\ UNCHANGED <<live, confirmed>>
    BY <1>2, TopIsLast DEF Wiz!Leave
  <2>3. HasFields(d) /\ d.resource = data.resource
    BY <1>0 DEF HasFields
  <2> HIDE DEF d
  <2>4. Shape(screens, d.resource) /\ Last(screens) \in {"categorySelection", "mainMenu"}
    <3>1. CASE screens = Wiz!Goto("categorySelection")
      <4>1. "categorySelection" \in Screen /\ "categorySelection" \notin OfResource
        BY DEF Screen, OfResource
      <4> QED
        BY <1>0, <2>3, <3>1, <4>1, GotoShape
    <3>2. CASE screens = Wiz!Home
      <4>1. /\ screens = <<"mainMenu">> /\ "mainMenu" \in Screen /\ "mainMenu" \notin OfResource
        BY <3>2 DEF Wiz!Home, Screen, OfResource
      <4> QED
        BY <4>1 DEF Shape, Last
    <3> QED
      BY <2>1, <3>1, <3>2
  <2>5. Last(stack) # "installProgress" /\ Last(screens) \notin {"installProgress", "success"}
    BY <2>2, <2>4
  <2> QED
    BY <1>0, <2>1, <2>2, <2>3, <2>4, <2>5, BrowseKeeps
<1> QED
  BY <1>1, <1>2

LEMMA ConfirmKeeps ==
    ASSUME WizardInv, Wiz!Confirm
    PROVE  WizardInv'
<1> DEFINE screens == Wiz!Push("installProgress")
<1>1. /\ Last(stack) = "dependencyPreview" /\ confirmed' = seen.resource /\ UNCHANGED live
      /\ Wiz!Render(screens, data, install)
  BY TopIsLast DEF Wiz!Confirm, Wiz!Show
<1>2. Shape(screens, data.resource) /\ Last(screens) = "installProgress"
  <2>1. /\ "installProgress" \in Screen /\ "installProgress" \notin OfResource
        /\ Last(stack) \notin Modal
    BY <1>1 DEF Screen, OfResource, Modal
  <2>2. Shape(stack, data.resource)
    BY DEF WizardInv
  <2> QED
    BY <2>1, <2>2, PushShape DEF Wiz!Push
<1> HIDE DEF screens
<1>3. /\ stack' = screens /\ data' = data /\ seen' = data
      /\ install' = [Wiz!NoInstall EXCEPT !.phase = "waiting"]
  BY <1>1, <1>2, TopIsLast DEF Wiz!Render, Wiz!Context
<1>4. install'.phase = "waiting"
  BY <1>3 DEF Wiz!NoInstall
<1>5. HasFields(data) /\ seen.resource = data.resource
  BY DEF WizardInv
<1>6. InstallSound(Last(stack), data, seen, install, confirmed)'
  BY <1>1, <1>2, <1>3, <1>4, <1>5 DEF InstallSound, Last
<1> QED
  BY <1>1, <1>2, <1>3, <1>5, <1>6 DEF WizardInv

LEMMA CallKeeps ==
    ASSUME WizardInv, Wiz!CallInstall
    PROVE  WizardInv'
<1>1. /\ install' = [phase |-> "calling", of |-> seen.resource] /\ install.phase = "waiting"
      /\ UNCHANGED <<live, stack, data, seen, confirmed>>
  BY DEF Wiz!CallInstall
<1>2. Last(stack) = "installProgress" /\ seen.resource = confirmed
  BY <1>1 DEF WizardInv, InstallSound
<1>3. install'.phase = "calling" /\ install'.of = confirmed
  BY <1>1, <1>2
<1>4. InstallSound(Last(stack), data, seen, install, confirmed)'
  BY <1>1, <1>2, <1>3 DEF WizardInv, InstallSound, Last
<1> QED
  BY <1>1, <1>4 DEF WizardInv, Shape, HasFields

LEMMA AnswerIsKept ==
    ASSUME WizardInv, Wiz!InstallEnds
    PROVE  WizardInv'
<1>1. install.phase = "calling" /\ UNCHANGED <<live, confirmed>>
  BY DEF Wiz!InstallEnds
<1>2. /\ Last(stack) = "installProgress" /\ install.of = confirmed
      /\ seen.resource = data.resource /\ seen.resource = confirmed
  BY <1>1 DEF WizardInv, InstallSound
<1>3. CASE ~live /\ install' = Wiz!NoInstall /\ UNCHANGED <<stack, data, seen, local>>
  <2>1. install'.phase = "none"
    BY <1>3 DEF Wiz!NoInstall
  <2>2. InstallSound(Last(stack), data, seen, install, confirmed)'
    BY <1>1, <1>2, <1>3, <2>1 DEF InstallSound, Last
  <2> QED
    BY <1>1, <1>3, <2>2 DEF WizardInv, Shape, HasFields
<1>4. ASSUME NEW success \in BOOLEAN,
             Wiz!Render(stack, Wiz!Set("result", [of |-> install.of, success |-> success]),
                        [install EXCEPT !.phase = "answered"])
      PROVE  WizardInv'
  <2> DEFINE answer == [of |-> install.of, success |-> success]
             d == Wiz!Set("result", answer)
  <2>1. /\ stack' = stack /\ data' = d /\ seen' = seen
        /\ install' = [install EXCEPT !.phase = "answered"]
    BY <1>2, <1>4, TopIsLast DEF Wiz!Render, Wiz!Context
  <2>2. answer # None /\ answer.of = install.of
    <3>1. install.of \in Item \cup {None}
      BY <1>2 DEF WizardInv
    <3> QED
      BY <1>4, <3>1, NoneAssumption DEF NoneAssumption
  <2>3. /\ HasFields(d) /\ d.resource = data.resource /\ d.result = answer
    <3>1. HasFields(data)
      BY DEF WizardInv
    <3> QED
      BY <3>1, SetIs
  <2> HIDE DEF d, answer
  <2>4. install'.phase = "answered" /\ install'.of = install.of
    BY <2>1 DEF WizardInv
  <2>5. InstallSound(Last(stack), data, seen, install, confirmed)'
    BY <1>1, <1>2, <2>1, <2>2, <2>3, <2>4 DEF WizardInv, InstallSound, Last
  <2> QED
    BY <1>1, <2>1, <2>3, <2>5 DEF WizardInv
<1> QED
  BY <1>3, <1>4 DEF Wiz!InstallEnds

LEMMA ResultKeeps ==
    ASSUME WizardInv, Wiz!ShowResult
    PROVE  WizardInv'
<1> DEFINE screens == Wiz!Goto("success")
<1>1. /\ install.phase = "answered" /\ UNCHANGED <<live, confirmed>>
      /\ Wiz!Render(screens, data, Wiz!NoInstall)
  BY DEF Wiz!ShowResult
<1>2. /\ Last(stack) = "installProgress" /\ install.of = confirmed
      /\ data.result # None /\ data.result.of = install.of /\ HasFields(data)
  BY <1>1 DEF WizardInv, InstallSound
<1>3. Shape(screens, data.resource) /\ Last(screens) = "success"
  <2>1. "success" \in Screen /\ "success" \notin OfResource /\ Shape(stack, data.resource)
    BY DEF Screen, OfResource, Modal, WizardInv
  <2> QED
    BY <2>1, GotoShape
<1> HIDE DEF screens
<1>4. stack' = screens /\ data' = data /\ seen' = data /\ install' = Wiz!NoInstall
  BY <1>1, <1>2, <1>3, TopIsLast DEF Wiz!Render, Wiz!Context
<1>5. install'.phase = "none"
  BY <1>4 DEF Wiz!NoInstall
<1>6. InstallSound(Last(stack), data, seen, install, confirmed)'
  BY <1>1, <1>2, <1>3, <1>4, <1>5 DEF InstallSound, Last
<1> QED
  BY <1>1, <1>2, <1>3, <1>4, <1>6 DEF WizardInv

\* What is installed is what the confirmed preview showed, the result shown is
\* that of this install, and no way back installs again
\* (InstallProgressScreen, App).
THEOREM InstallsAreConfirmed ==
    Wiz!WizardInit /\ [][Wiz!WizardNext]_(Wiz!wizardVars)
        => []Wiz!InstallsWhatWasConfirmed
<1>1. Wiz!WizardInit => WizardInv
  <2> SUFFICES ASSUME Wiz!WizardInit
               PROVE  WizardInv
    OBVIOUS
  <2>1. /\ stack = <<"splash">> /\ "splash" \in Screen /\ "splash" \notin OfResource
        /\ live = TRUE /\ data = Wiz!InitialData /\ seen = data
        /\ install.phase = "none"
    BY DEF Wiz!WizardInit, Wiz!NoInstall, Screen, OfResource, Modal
  <2>2. Shape(stack, data.resource) /\ Last(stack) = "splash"
    BY <2>1 DEF Shape, Last
  <2>3. HasFields(data)
    BY <2>1 DEF HasFields, Wiz!InitialData
  <2> QED
    BY <2>1, <2>2, <2>3 DEF WizardInv, InstallSound, Wiz!InitialData
<1>2. WizardInv => Wiz!InstallsWhatWasConfirmed
  <2> SUFFICES ASSUME WizardInv
               PROVE  Wiz!InstallsWhatWasConfirmed
    OBVIOUS
  <2>1. Last(stack) \in OfResource => seen.resource # None
    BY DEF WizardInv, Shape, Last
  <2>2. \A i \in 1 .. Len(stack) - 1 : stack[i] \notin {"splash", "installProgress", "success"}
    BY DEF WizardInv, Shape, Modal
  <2> QED
    BY <2>1, <2>2, TopIsLast DEF Wiz!InstallsWhatWasConfirmed, WizardInv, InstallSound, OfResource
<1>3. WizardInv /\ [Wiz!WizardNext]_(Wiz!wizardVars) => WizardInv'
  <2> SUFFICES ASSUME WizardInv, [Wiz!WizardNext]_(Wiz!wizardVars)
               PROVE  WizardInv'
    OBVIOUS
  <2>1. CASE UNCHANGED <<live, stack, data, seen, install, confirmed>>
    BY <2>1, LocalKeeps
  <2>2. CASE Wiz!NextStep
    <3>1. CASE local.step <= Len(Setting)
      BY <2>1, <2>2, <3>1 DEF Wiz!NextStep
    <3>2. CASE ~(local.step <= Len(Setting))
      <4>1. /\ Wiz!Render(Wiz!Push("dependencyPreview"), data, install)
            /\ UNCHANGED <<live, confirmed>> /\ Last(stack) = "installConfig"
        BY <2>2, <3>2, TopIsLast DEF Wiz!NextStep, Wiz!Show
      <4>2. /\ data.resource # None /\ HasFields(data) /\ "dependencyPreview" \in Screen
            /\ Last(stack) \notin Modal /\ "dependencyPreview" \notin Modal
        BY <4>1 DEF WizardInv, Shape, Last, OfResource, Modal, Screen
      <4> QED
        BY <4>1, <4>2, OpenKeeps
    <3> QED
      BY <3>1, <3>2
  <2>3. CASE Wiz!PreviousStep \/ Wiz!RunDoctor \/ Wiz!LoadInstalled
    BY <2>1, <2>3 DEF Wiz!PreviousStep, Wiz!RunDoctor, Wiz!LoadInstalled
  <2>4. CASE Wiz!Exit
    BY <2>4 DEF Wiz!Exit, WizardInv, Shape, HasFields, InstallSound, Last
  <2>5. CASE UNCHANGED Wiz!wizardVars
    BY <2>1, <2>5 DEF Wiz!wizardVars
  <2> QED
    BY <2>2, <2>3, <2>4, <2>5, BootOrLeaveKeeps, MenuKeeps, SelectKeeps, StayKeeps,
       ConfirmKeeps, CallKeeps, AnswerIsKept, ResultKeeps DEF Wiz!WizardNext, Wiz!Progress
<1> QED
  BY <1>1, <1>2, <1>3, PTL

-----------------------------------------------------------------------------
(* The lifecycle of installed resources                                    *)

Waiting == {"marking updating", "marking removing", "storing files", "settling", "handling",
            "dropping", "adding"}

\* A set of records, each with a state.
Records(f) == f = [r \in DOMAIN f |-> f[r]] /\ \A r \in DOMAIN f : "state" \in DOMAIN f[r]

\* Of the ids in d, those with a record are said to be being removed.
Announced(f, d) == \A r \in d : r \in DOMAIN f => f[r].state = "removing"

\* What a worker at p has found of the resource it is about.
OpSound(p, o, f, d) ==
    /\ p \in {"marking updating", "reconcile", "record"} => o.id \notin d
    /\ p = "mark" /\ o.kind \notin {"remove", "reinstall"} => o.id \notin d
    /\ p = "settle" => o.kind = "repair" \/ o.id \notin d
    /\ p \in {"store", "storing files"} => o.kind = "repair"
    /\ p \in {"delete", "unlock", "drop"}
         => (o.id \in DOMAIN f => f[o.id].state = "removing")

\* What a worker that is at p waits to replace the records by.
WriteSound(p, o, c, says, d) ==
    /\ p \in Waiting
    /\ Records(c)
    /\ Announced(c, IF says THEN d \ {o.id} ELSE d)
    /\ p = "marking removing" => (o.id \in DOMAIN c => c[o.id].state = "removing")

Write(w, c, says) == [by |-> w, content |-> c, says |-> says]

RemovalsSound ==
    /\ \A v, w \in Worker : step[v] # "idle" /\ step[w] # "idle" => v = w
    /\ Records(installed) /\ Announced(installed, deleted)
    /\ \A w \in Worker : OpSound(step[w], op[w], installed, deleted)
    /\ \/ writes = <<>>
       \/ \E w \in Worker : \E c, says :
             /\ writes = <<Write(w, c, says)>>
             /\ WriteSound(step[w], op[w], c, says, deleted)

LifecycleInv ==
    /\ overlapped \in BOOLEAN
    /\ step = [w \in Worker |-> step[w]] /\ op = [w \in Worker |-> op[w]]
    /\ ~overlapped => RemovalsSound

\* A worker goes to p, and may have joined the line with a write.
StepSound(w, p) ==
    /\ p # "idle" => OpSound(p, op[w], installed, deleted')
    /\ Announced(installed, deleted')
    /\ \/ UNCHANGED writes
       \/ \E c, says : /\ writes' = Append(writes, Write(w, c, says))
                       /\ WriteSound(p, op[w], c, says, deleted')

LEMMA IdleIsSound == \A o, f, d : OpSound("idle", o, f, d) /\ OpSound("start", o, f, d)
  BY DEF OpSound

\* A step of the worker that is under way.
LEMMA WorkerKeeps ==
    ASSUME LifecycleInv, NEW w \in Worker, NEW p, Life!Goto(w, p),
           step[w] \notin Waiting, step[w] # "idle",
           UNCHANGED <<installed, overlapped>>,
           ~overlapped /\ RemovalsSound => StepSound(w, p)
    PROVE  LifecycleInv'
<1>1. /\ step' = [step EXCEPT ![w] = p]
      /\ op' = IF p = "idle" THEN [op EXCEPT ![w] = Life!NoOperation] ELSE op
  BY DEF Life!Goto
<1>2. step' = [v \in Worker |-> step'[v]] /\ op' = [v \in Worker |-> op'[v]]
  BY <1>1 DEF LifecycleInv
<1>3. step'[w] = p /\ \A v \in Worker : v # w => step'[v] = step[v]
  BY <1>1 DEF LifecycleInv
<1>4. p # "idle" => op' = op
  BY <1>1
<1>5. ASSUME ~overlapped
      PROVE  RemovalsSound'
  <2>1. RemovalsSound
    BY <1>5 DEF LifecycleInv
  <2>2. /\ p # "idle" => OpSound(p, op[w], installed, deleted')
        /\ Announced(installed, deleted')
        /\ \/ UNCHANGED writes
           \/ \E c, says : /\ writes' = Append(writes, Write(w, c, says))
                           /\ WriteSound(p, op[w], c, says, deleted')
    BY <1>5, <2>1 DEF StepSound
  <2>3. \A v \in Worker : v # w => step[v] = "idle"
    BY <2>1 DEF RemovalsSound
  <2>4. writes = <<>>
    BY <2>1, <2>3 DEF RemovalsSound, WriteSound, Waiting
  <2>5. \A v \in Worker : v # w => step'[v] = "idle"
    BY <1>3, <2>3
  <2>6. \A v, o \in Worker : step'[v] # "idle" /\ step'[o] # "idle" => v = o
    BY <2>5
  <2>7. ASSUME NEW v \in Worker
        PROVE  OpSound(step'[v], op'[v], installed', deleted')
    <3>1. CASE step'[v] = "idle"
      BY <3>1, IdleIsSound
    <3>2. CASE step'[v] # "idle"
      BY <1>3, <1>4, <2>2, <2>5, <3>2
    <3> QED
      BY <3>1, <3>2
  <2>8. Records(installed') /\ Announced(installed', deleted')
    BY <2>1, <2>2 DEF RemovalsSound
  <2>9. \/ writes' = <<>>
        \/ \E v \in Worker : \E c, says :
              /\ writes' = <<Write(v, c, says)>>
              /\ WriteSound(step'[v], op'[v], c, says, deleted')
    <3>1. ASSUME NEW c, NEW says, writes' = Append(writes, Write(w, c, says)),
                 WriteSound(p, op[w], c, says, deleted')
          PROVE  /\ writes' = <<Write(w, c, says)>>
                 /\ WriteSound(step'[w], op'[w], c, says, deleted')
      <4>1. p # "idle"
        BY <3>1 DEF WriteSound, Waiting
      <4>2. Append(<<>>, Write(w, c, says)) = <<Write(w, c, says)>>
        OBVIOUS
      <4> QED
        BY <1>3, <1>4, <2>4, <3>1, <4>1, <4>2
    <3> QED
      BY <2>2, <2>4, <3>1
  <2> QED
    BY <2>6, <2>7, <2>8, <2>9 DEF RemovalsSound
<1> QED
  BY <1>2, <1>5 DEF LifecycleInv

LEMMA StateSet ==
    ASSUME NEW f, Records(f), NEW r \in DOMAIN f, NEW state
    PROVE  LET c == [f EXCEPT ![r].state = state]
           IN  /\ Records(c) /\ DOMAIN c = DOMAIN f /\ c[r].state = state
               /\ \A o \in DOMAIN f : o # r => c[o] = f[o]
  BY DEF Records

\* The state of a record is set, and the write waits for its turn.
LEMMA SetStateIsSound ==
    ASSUME NEW w \in Worker, NEW p, NEW state, NEW says \in BOOLEAN, RemovalsSound,
           Life!SetState(w, p, state, says), UNCHANGED deleted,
           p \in Waiting,
           says \/ state = "removing" \/ op[w].id \notin deleted,
           p = "marking removing" => state = "removing",
           OpSound(p, op[w], installed, deleted),
           op[w].id \notin DOMAIN installed
              => OpSound(Life!Lands(p), op[w], installed, deleted)
    PROVE  \E q : Life!Goto(w, q) /\ StepSound(w, q)
<1> DEFINE r == op[w].id
<1>1. Records(installed) /\ Announced(installed, deleted)
  BY DEF RemovalsSound
<1>2. CASE r \in DOMAIN installed
  <2> DEFINE c == [installed EXCEPT ![r].state = state]
  <2>1. Life!Goto(w, p) /\ writes' = Append(writes, Write(w, c, says))
    BY <1>2 DEF Life!SetState, Life!Replace, Write
  <2>2. /\ Records(c) /\ DOMAIN c = DOMAIN installed /\ c[r].state = state
        /\ \A o \in DOMAIN installed : o # r => c[o] = installed[o]
    BY <1>1, <1>2, StateSet
  <2> HIDE DEF c
  <2>3. WriteSound(p, op[w], c, says, deleted')
    BY <1>1, <2>2 DEF WriteSound, Announced
  <2>4. StepSound(w, p)
    BY <1>1, <2>1, <2>3 DEF StepSound
  <2> QED
    BY <2>1, <2>4
<1>3. CASE r \notin DOMAIN installed
  <2>1. Life!Goto(w, Life!Lands(p)) /\ UNCHANGED writes
    BY <1>3 DEF Life!SetState
  <2>2. StepSound(w, Life!Lands(p))
    BY <1>1, <1>3, <2>1 DEF StepSound
  <2> QED
    BY <2>1, <2>2
<1> QED
  BY <1>2, <1>3

\* A worker goes on without a write.
LEMMA GotoIsSound ==
    ASSUME NEW w \in Worker, NEW p, RemovalsSound, UNCHANGED writes,
           Announced(installed, deleted'),
           p = "idle" \/ OpSound(p, op[w], installed, deleted')
    PROVE  StepSound(w, p)
  BY DEF StepSound

LEMMA ActionKeeps ==
    ASSUME LifecycleInv, NEW w \in Worker,
           step[w] \notin Waiting, step[w] # "idle", UNCHANGED <<installed, overlapped>>,
           \E p : Life!Goto(w, p),
           ASSUME RemovalsSound PROVE \E p : Life!Goto(w, p) /\ StepSound(w, p)
    PROVE  LifecycleInv'
<1>1. CASE overlapped
  BY <1>1, WorkerKeeps
<1>2. CASE ~overlapped
  <2>1. RemovalsSound
    BY <1>2 DEF LifecycleInv
  <2> QED
    BY <2>1, WorkerKeeps
<1> QED
  BY <1>1, <1>2

LEMMA SetStateGoes ==
    ASSUME NEW w, NEW p, NEW state, NEW says, Life!SetState(w, p, state, says)
    PROVE  \E q : Life!Goto(w, q)
  BY DEF Life!SetState, Life!Replace

\* The update: it begins with a record that is not being removed.
LEMMA UpdateKeeps ==
    ASSUME LifecycleInv, NEW w \in Worker,
           \/ Life!Update(w) \/ Life!MarkUpdating(w) \/ Life!Reconcile(w)
           \/ Life!Settle(w) \/ Life!Handle(w)
    PROVE  LifecycleInv'
<1>1. CASE Life!Update(w)
  <2> DEFINE p == IF Life!Updatable(op[w].id) THEN "mark" ELSE "idle"
  <2>1. /\ step[w] = "start" /\ op[w].kind = "update" /\ Life!Goto(w, p)
        /\ UNCHANGED <<writes, deleted, installed, overlapped>>
    BY <1>1 DEF Life!Update, Life!Begins, Life!Unchanging
  <2>2. ASSUME RemovalsSound PROVE StepSound(w, p)
    <3>1. Announced(installed, deleted)
      BY <2>2 DEF RemovalsSound
    <3>2. Life!Updatable(op[w].id) => op[w].id \notin deleted
      BY <3>1 DEF Announced, Life!Updatable
    <3>3. p = "idle" \/ OpSound(p, op[w], installed, deleted')
      BY <2>1, <3>2 DEF OpSound
    <3> HIDE DEF p
    <3> QED
      BY <2>1, <2>2, <3>1, <3>3, GotoIsSound
  <2>3. step[w] \notin Waiting /\ step[w] # "idle"
    BY <2>1 DEF Waiting
  <2> HIDE DEF p
  <2> QED
    BY <2>1, <2>2, <2>3, ActionKeeps
<1>2. CASE Life!MarkUpdating(w)
  <2>1. /\ step[w] = "mark" /\ op[w].kind = "update"
        /\ Life!SetState(w, "marking updating", "updating", FALSE)
        /\ UNCHANGED <<deleted, installed, overlapped>>
    BY <1>2 DEF Life!MarkUpdating, Life!Unchanging
  <2>2. ASSUME RemovalsSound PROVE \E p : Life!Goto(w, p) /\ StepSound(w, p)
    <3>1. op[w].id \notin deleted
      BY <2>1, <2>2 DEF RemovalsSound, OpSound
    <3>2. /\ OpSound("marking updating", op[w], installed, deleted)
          /\ OpSound(Life!Lands("marking updating"), op[w], installed, deleted)
      BY <3>1 DEF OpSound, Life!Lands
    <3>3. "marking updating" \in Waiting /\ FALSE \in BOOLEAN
      BY DEF Waiting
    <3> QED
      BY <2>1, <2>2, <3>1, <3>2, <3>3, SetStateIsSound
  <2>3. step[w] \notin Waiting /\ step[w] # "idle"
    BY <2>1 DEF Waiting
  <2> QED
    BY <2>1, <2>2, <2>3, SetStateGoes, ActionKeeps
<1>3. CASE Life!Reconcile(w)
  <2>1. PICK p \in {"settle", "handle"} : Life!Goto(w, p)
    BY <1>3 DEF Life!Reconcile
  <2>2. step[w] = "reconcile" /\ UNCHANGED <<writes, deleted, installed, overlapped>>
    BY <1>3 DEF Life!Reconcile, Life!Unchanging
  <2>3. ASSUME RemovalsSound PROVE StepSound(w, p)
    <3>1. Announced(installed, deleted) /\ op[w].id \notin deleted
      BY <2>2, <2>3 DEF RemovalsSound, OpSound
    <3>2. OpSound(p, op[w], installed, deleted')
      BY <2>1, <2>2, <3>1 DEF OpSound
    <3> QED
      BY <2>2, <2>3, <3>1, <3>2, GotoIsSound
  <2>4. step[w] \notin Waiting /\ step[w] # "idle"
    BY <2>2 DEF Waiting
  <2> QED
    BY <2>1, <2>2, <2>3, <2>4, ActionKeeps
<1>4. CASE Life!Settle(w)
  <2> DEFINE says == op[w].kind = "repair"
  <2>1. /\ step[w] = "settle" /\ Life!SetState(w, "settling", "installed", says)
        /\ UNCHANGED <<deleted, installed, overlapped>>
    BY <1>4 DEF Life!Settle, Life!Unchanging
  <2>2. ASSUME RemovalsSound PROVE \E p : Life!Goto(w, p) /\ StepSound(w, p)
    <3>1. says \/ op[w].id \notin deleted
      BY <2>1, <2>2 DEF RemovalsSound, OpSound
    <3>2. /\ OpSound("settling", op[w], installed, deleted)
          /\ OpSound(Life!Lands("settling"), op[w], installed, deleted)
          /\ "settling" \in Waiting /\ says \in BOOLEAN
      BY DEF OpSound, Life!Lands, Waiting
    <3> HIDE DEF says
    <3> QED
      BY <2>1, <2>2, <3>1, <3>2, SetStateIsSound
  <2>3. step[w] \notin Waiting /\ step[w] # "idle"
    BY <2>1 DEF Waiting
  <2> HIDE DEF says
  <2> QED
    BY <2>1, <2>2, <2>3, SetStateGoes, ActionKeeps
<1>5. CASE Life!Handle(w)
  <2>1. PICK state \in {"failed", "installed"} :
          Life!SetState(w, "handling", state, TRUE)
    BY <1>5 DEF Life!Handle
  <2>2. step[w] = "handle" /\ UNCHANGED <<deleted, installed, overlapped>>
    BY <1>5 DEF Life!Handle, Life!Unchanging
  <2>3. ASSUME RemovalsSound PROVE \E p : Life!Goto(w, p) /\ StepSound(w, p)
    <3>1. /\ OpSound("handling", op[w], installed, deleted)
          /\ OpSound(Life!Lands("handling"), op[w], installed, deleted)
          /\ "handling" \in Waiting /\ TRUE \in BOOLEAN
      BY DEF OpSound, Life!Lands, Waiting
    <3> QED
      BY <2>1, <2>2, <2>3, <3>1, SetStateIsSound
  <2>4. step[w] \notin Waiting /\ step[w] # "idle"
    BY <2>2 DEF Waiting
  <2> QED
    BY <2>1, <2>2, <2>3, <2>4, SetStateGoes, ActionKeeps
<1> QED
  BY <1>1, <1>2, <1>3, <1>4, <1>5

\* The worker joins the line with a write of its own.
LEMMA ReplaceIsSound ==
    ASSUME NEW w \in Worker, NEW p, NEW c, NEW says, RemovalsSound,
           Life!Replace(w, p, c, says), UNCHANGED deleted,
           OpSound(p, op[w], installed, deleted), WriteSound(p, op[w], c, says, deleted)
    PROVE  Life!Goto(w, p) /\ StepSound(w, p)
<1>1. Life!Goto(w, p) /\ writes' = Append(writes, Write(w, c, says))
  BY DEF Life!Replace, Write
<1>2. Announced(installed, deleted)
  BY DEF RemovalsSound
<1> QED
  BY <1>1, <1>2 DEF StepSound

LEMMA RepairKeeps ==
    ASSUME LifecycleInv, NEW w \in Worker, Life!Repair(w) \/ Life!StoreFiles(w)
    PROVE  LifecycleInv'
<1>1. CASE Life!Repair(w)
  <2>1. PICK p \in {"idle", "store"} : Life!Goto(w, p)
    BY <1>1 DEF Life!Repair
  <2>2. /\ step[w] = "start" /\ op[w].kind = "repair"
        /\ UNCHANGED <<writes, deleted, installed, overlapped>>
    BY <1>1 DEF Life!Repair, Life!Begins, Life!Unchanging
  <2>3. ASSUME RemovalsSound PROVE StepSound(w, p)
    <3>1. Announced(installed, deleted) /\ OpSound("store", op[w], installed, deleted)
      BY <2>2, <2>3 DEF RemovalsSound, OpSound
    <3> QED
      BY <2>1, <2>2, <2>3, <3>1, GotoIsSound
  <2>4. step[w] \notin Waiting /\ step[w] # "idle"
    BY <2>2 DEF Waiting
  <2> QED
    BY <2>1, <2>2, <2>3, <2>4, ActionKeeps
<1>2. CASE Life!StoreFiles(w)
  <2>1. /\ step[w] = "store" /\ UNCHANGED <<deleted, installed, overlapped>>
        /\ \/ Life!Replace(w, "storing files", installed, FALSE)
           \/ Life!Goto(w, "settle") /\ UNCHANGED writes
    BY <1>2 DEF Life!StoreFiles, Life!Unchanging
  <2>2. ASSUME RemovalsSound PROVE \E p : Life!Goto(w, p) /\ StepSound(w, p)
    <3>1. /\ Announced(installed, deleted) /\ Records(installed)
          /\ op[w].kind = "repair"
      BY <2>1, <2>2 DEF RemovalsSound, OpSound
    <3>2. /\ OpSound("settle", op[w], installed, deleted)
          /\ OpSound("storing files", op[w], installed, deleted)
      BY <3>1 DEF OpSound
    <3>3. WriteSound("storing files", op[w], installed, FALSE, deleted)
      BY <3>1 DEF WriteSound, Waiting
    <3> QED
      BY <2>1, <2>2, <3>1, <3>2, <3>3, GotoIsSound, ReplaceIsSound
  <2>3. step[w] \notin Waiting /\ step[w] # "idle" /\ \E p : Life!Goto(w, p)
    BY <2>1 DEF Waiting, Life!Replace
  <2> QED
    BY <2>1, <2>2, <2>3, ActionKeeps
<1> QED
  BY <1>1, <1>2

\* The removal: files are deleted only of what is said to be being removed.
LEMMA RemoveKeeps ==
    ASSUME LifecycleInv, NEW w \in Worker,
           \/ Life!Remove(w) \/ Life!MarkRemoving(w) \/ Life!DeleteDirectory(w)
           \/ Life!RemoveEntry(w) \/ Life!RemoveResource(w)
    PROVE  LifecycleInv'
<1>1. CASE Life!Remove(w)
  <2>1. PICK p \in {"idle", "mark"} : Life!Goto(w, p)
    BY <1>1 DEF Life!Remove
  <2>2. /\ step[w] = "start" /\ op[w].kind \in {"remove", "reinstall"}
        /\ UNCHANGED <<writes, deleted, installed, overlapped>>
    BY <1>1 DEF Life!Remove, Life!Unchanging
  <2>3. ASSUME RemovalsSound PROVE StepSound(w, p)
    <3>1. Announced(installed, deleted) /\ OpSound("mark", op[w], installed, deleted)
      BY <2>2, <2>3 DEF RemovalsSound, OpSound
    <3> QED
      BY <2>1, <2>2, <2>3, <3>1, GotoIsSound
  <2>4. step[w] \notin Waiting /\ step[w] # "idle"
    BY <2>2 DEF Waiting
  <2> QED
    BY <2>1, <2>2, <2>3, <2>4, ActionKeeps
<1>2. CASE Life!MarkRemoving(w)
  <2>1. /\ step[w] = "mark" /\ Life!SetState(w, "marking removing", "removing", FALSE)
        /\ UNCHANGED <<deleted, installed, overlapped>>
    BY <1>2 DEF Life!MarkRemoving, Life!Unchanging
  <2>2. ASSUME RemovalsSound PROVE \E p : Life!Goto(w, p) /\ StepSound(w, p)
    <3>1. /\ OpSound("marking removing", op[w], installed, deleted)
          /\ op[w].id \notin DOMAIN installed
                => OpSound(Life!Lands("marking removing"), op[w], installed, deleted)
      BY DEF OpSound, Life!Lands
    <3>2. "marking removing" \in Waiting /\ FALSE \in BOOLEAN
      BY DEF Waiting
    <3> QED
      BY <2>1, <2>2, <3>1, <3>2, SetStateIsSound
  <2>3. step[w] \notin Waiting /\ step[w] # "idle"
    BY <2>1 DEF Waiting
  <2> QED
    BY <2>1, <2>2, <2>3, SetStateGoes, ActionKeeps
<1>3. CASE Life!DeleteDirectory(w)
  <2>1. /\ step[w] = "delete" /\ Life!Goto(w, "unlock")
        /\ UNCHANGED <<writes, installed, overlapped>>
        /\ deleted' \in {deleted, deleted \cup {op[w].id}}
    BY <1>3 DEF Life!DeleteDirectory, Life!Unchanging
  <2>2. ASSUME RemovalsSound PROVE StepSound(w, "unlock")
    <3>1. /\ Announced(installed, deleted)
          /\ op[w].id \in DOMAIN installed => installed[op[w].id].state = "removing"
      BY <2>1, <2>2 DEF RemovalsSound, OpSound
    <3>2. Announced(installed, deleted') /\ OpSound("unlock", op[w], installed, deleted')
      BY <2>1, <3>1 DEF Announced, OpSound
    <3> QED
      BY <2>1, <2>2, <3>2, GotoIsSound
  <2>3. step[w] \notin Waiting /\ step[w] # "idle"
    BY <2>1 DEF Waiting
  <2> QED
    BY <2>1, <2>2, <2>3, ActionKeeps
<1>4. CASE Life!RemoveEntry(w)
  <2>1. /\ step[w] = "unlock" /\ Life!Goto(w, "drop")
        /\ UNCHANGED <<writes, installed, overlapped, deleted>>
    BY <1>4 DEF Life!RemoveEntry, Life!Unchanging
  <2>2. ASSUME RemovalsSound PROVE StepSound(w, "drop")
    <3>1. Announced(installed, deleted) /\ OpSound("drop", op[w], installed, deleted)
      BY <2>1, <2>2 DEF RemovalsSound, OpSound
    <3> QED
      BY <2>1, <2>2, <3>1, GotoIsSound
  <2>3. step[w] \notin Waiting /\ step[w] # "idle"
    BY <2>1 DEF Waiting
  <2> QED
    BY <2>1, <2>2, <2>3, ActionKeeps
<1>5. CASE Life!RemoveResource(w)
  <2> DEFINE c == Life!Restrict(installed, DOMAIN installed \ {op[w].id})
  <2>1. /\ step[w] = "drop" /\ UNCHANGED <<deleted, installed, overlapped>>
        /\ \/ Life!Replace(w, "dropping", c, FALSE)
           \/ Life!Goto(w, "idle") /\ UNCHANGED writes
    BY <1>5 DEF Life!RemoveResource, Life!Unchanging
  <2>2. ASSUME RemovalsSound PROVE \E p : Life!Goto(w, p) /\ StepSound(w, p)
    <3>1. Announced(installed, deleted) /\ Records(installed)
      BY <2>2 DEF RemovalsSound
    <3>2. /\ c = [r \in DOMAIN c |-> c[r]] /\ DOMAIN c \subseteq DOMAIN installed
          /\ \A r \in DOMAIN c : c[r] = installed[r]
      BY DEF Life!Restrict
    <3> HIDE DEF c
    <3>3. Records(c) /\ Announced(c, deleted)
      BY <3>1, <3>2 DEF Records, Announced
    <3>4. WriteSound("dropping", op[w], c, FALSE, deleted)
      BY <3>3 DEF WriteSound, Waiting
    <3>5. OpSound("dropping", op[w], installed, deleted)
      BY DEF OpSound
    <3> QED
      BY <2>1, <2>2, <3>1, <3>4, <3>5, GotoIsSound, ReplaceIsSound
  <2>3. step[w] \notin Waiting /\ step[w] # "idle" /\ \E p : Life!Goto(w, p)
    BY <2>1 DEF Waiting, Life!Replace
  <2> HIDE DEF c
  <2> QED
    BY <2>1, <2>2, <2>3, ActionKeeps
<1> QED
  BY <1>1, <1>2, <1>3, <1>4, <1>5

\* A client puts a resource in place, or the records are rebuilt.
ElseAlike(c, f, r) == \A o \in DOMAIN f : o # r => c[o] = f[o]

LEMMA RecordWith ==
    ASSUME NEW r, NEW state, NEW needs, NEW c, Records(installed),
           c = Life!WithRecord(r, state, needs)
    PROVE  /\ Records(c) /\ DOMAIN c = DOMAIN installed \cup {r}
           /\ ElseAlike(c, installed, r)
<1> DEFINE new == [state |-> state, needs |-> needs]
<1>1. "state" \in DOMAIN new
  OBVIOUS
<1>2. c = [o \in DOMAIN installed \cup {r} |-> IF o = r THEN new ELSE installed[o]]
  BY DEF Life!WithRecord
<1> HIDE DEF new
<1> QED
  BY <1>1, <1>2 DEF Records, ElseAlike

LEMMA AddKeeps ==
    ASSUME LifecycleInv, NEW w \in Worker,
           Life!Place(w) \/ Life!AddResource(w) \/ Life!Rebuild(w)
    PROVE  LifecycleInv'
<1>1. CASE Life!Place(w)
  <2>1. /\ step[w] = "start" /\ Life!Goto(w, "record")
        /\ UNCHANGED <<writes, installed, overlapped>> /\ deleted' = deleted \ {op[w].id}
    BY <1>1 DEF Life!Place, Life!Begins, Life!Unchanging
  <2>2. ASSUME RemovalsSound PROVE StepSound(w, "record")
    <3>1. Announced(installed, deleted') /\ OpSound("record", op[w], installed, deleted')
      BY <2>1, <2>2 DEF RemovalsSound, OpSound, Announced
    <3> QED
      BY <2>1, <2>2, <3>1, GotoIsSound
  <2>3. step[w] \notin Waiting /\ step[w] # "idle"
    BY <2>1 DEF Waiting
  <2> QED
    BY <2>1, <2>2, <2>3, ActionKeeps
<1>2. ASSUME NEW c, NEW says, Life!Replace(w, "adding", c, says),
             UNCHANGED <<deleted, installed, overlapped>>,
             step[w] \notin Waiting, step[w] # "idle",
             ASSUME RemovalsSound
             PROVE  Records(c) /\ Announced(c, IF says THEN deleted \ {op[w].id} ELSE deleted)
      PROVE  LifecycleInv'
  <2>1. ASSUME RemovalsSound PROVE \E p : Life!Goto(w, p) /\ StepSound(w, p)
    <3>1. Records(c) /\ Announced(c, IF says THEN deleted \ {op[w].id} ELSE deleted)
      BY <1>2, <2>1
    <3>2. WriteSound("adding", op[w], c, says, deleted)
      BY <3>1 DEF WriteSound, Waiting
    <3>3. OpSound("adding", op[w], installed, deleted)
      BY DEF OpSound
    <3> QED
      BY <1>2, <2>1, <3>2, <3>3, ReplaceIsSound
  <2>2. \E p : Life!Goto(w, p)
    BY <1>2 DEF Life!Replace
  <2> QED
    BY <1>2, <2>1, <2>2, ActionKeeps
<1>3. CASE Life!AddResource(w)
  <2>1. PICK needs : Life!Replace(w, "adding", Life!WithRecord(op[w].id, "installed", needs), FALSE)
    BY <1>3 DEF Life!AddResource
  <2>2. step[w] = "record" /\ UNCHANGED <<deleted, installed, overlapped>>
    BY <1>3 DEF Life!AddResource, Life!Unchanging
  <2> DEFINE c == Life!WithRecord(op[w].id, "installed", needs)
  <2>3. ASSUME RemovalsSound PROVE Records(c) /\ Announced(c, deleted)
    <3>1. Records(installed) /\ Announced(installed, deleted) /\ op[w].id \notin deleted
      BY <2>2, <2>3 DEF RemovalsSound, OpSound
    <3>2. c = Life!WithRecord(op[w].id, "installed", needs)
      OBVIOUS
    <3> HIDE DEF c
    <3>3. /\ Records(c) /\ DOMAIN c = DOMAIN installed \cup {op[w].id}
          /\ ElseAlike(c, installed, op[w].id)
      BY <3>1, <3>2, RecordWith
    <3> QED
      BY <3>1, <3>3 DEF Announced, ElseAlike
  <2>4. step[w] \notin Waiting /\ step[w] # "idle"
    BY <2>2 DEF Waiting
  <2> HIDE DEF c
  <2>5. Life!Replace(w, "adding", c, FALSE)
    BY <2>1 DEF c
  <2> QED
    BY <1>2, <2>2, <2>3, <2>4, <2>5
<1>4. CASE Life!Rebuild(w)
  <2>1. step[w] = "start" /\ UNCHANGED <<deleted, installed, overlapped>>
    BY <1>4 DEF Life!Rebuild, Life!Begins, Life!Unchanging
  <2>2. step[w] \notin Waiting /\ step[w] # "idle"
    BY <2>1 DEF Waiting
  <2>3. CASE Life!Goto(w, "idle") /\ UNCHANGED writes
    <3>1. ASSUME RemovalsSound PROVE StepSound(w, "idle")
      <4>1. Announced(installed, deleted)
        BY <3>1 DEF RemovalsSound
      <4> QED
        BY <2>1, <2>3, <3>1, <4>1, GotoIsSound
    <3> QED
      BY <2>1, <2>2, <2>3, <3>1, ActionKeeps
  <2>4. ASSUME NEW state, NEW needs,
               Life!Replace(w, "adding", Life!WithRecord(op[w].id, state, needs), TRUE)
        PROVE  LifecycleInv'
    <3> DEFINE c == Life!WithRecord(op[w].id, state, needs)
    <3>1. ASSUME RemovalsSound PROVE Records(c) /\ Announced(c, deleted \ {op[w].id})
      <4>1. Records(installed) /\ Announced(installed, deleted)
        BY <3>1 DEF RemovalsSound
      <4>2. c = Life!WithRecord(op[w].id, state, needs)
        OBVIOUS
      <4> HIDE DEF c
      <4>3. /\ Records(c) /\ DOMAIN c = DOMAIN installed \cup {op[w].id}
            /\ ElseAlike(c, installed, op[w].id)
        BY <4>1, <4>2, RecordWith
      <4> QED
        BY <4>1, <4>3 DEF Announced, ElseAlike
    <3> HIDE DEF c
    <3>2. Life!Replace(w, "adding", c, TRUE)
      BY <2>4 DEF c
    <3> QED
      BY <1>2, <2>1, <2>2, <3>1, <3>2
  <2> QED
    BY <1>4, <2>3, <2>4 DEF Life!Rebuild
<1> QED
  BY <1>1, <1>3, <1>4

\* The write at the head of the line lands, or fails.
LEMMA LandKeeps ==
    ASSUME LifecycleInv, Life!Land \/ Life!LandFails
    PROVE  LifecycleInv'
<1> DEFINE by == Head(writes).by
<1>1. PICK p : /\ step' = [step EXCEPT ![by] = p]
               /\ op' = IF p = "idle" THEN [op EXCEPT ![by] = Life!NoOperation] ELSE op
               /\ \/ Life!Land /\ p = Life!Lands(step[by])
                  \/ Life!LandFails /\ p = Life!Throws(step[by])
  BY DEF Life!Land, Life!LandFails, Life!Goto
<1>2. step' = [v \in Worker |-> step'[v]] /\ op' = [v \in Worker |-> op'[v]]
  <2> HIDE DEF by
  <2> QED
    BY <1>1 DEF LifecycleInv
<1>3. UNCHANGED overlapped
  BY DEF Life!Land, Life!LandFails
<1>4. ASSUME ~overlapped
      PROVE  RemovalsSound'
  <2>1. RemovalsSound /\ writes # <<>>
    BY <1>4 DEF LifecycleInv, Life!Land, Life!LandFails
  <2>a. PICK w \in Worker : \E c, says :
          writes = <<Write(w, c, says)>> /\ WriteSound(step[w], op[w], c, says, deleted)
    BY <2>1 DEF RemovalsSound
  <2>2. PICK c, says :
          writes = <<Write(w, c, says)>> /\ WriteSound(step[w], op[w], c, says, deleted)
    BY <2>a
  <2> DEFINE head == Write(w, c, says)
  <2>3. head.by = w /\ head.content = c /\ head.says = says
    BY DEF Write
  <2>4. Head(writes) = head /\ Tail(writes) = <<>>
    <3> HIDE DEF head
    <3>1. writes = <<head>>
      BY <2>2 DEF head
    <3> QED
      BY <3>1
  <2> HIDE DEF head
  <2>5. by = w
    BY <2>3, <2>4
  <2>6. step'[w] = p /\ \A v \in Worker : v # w => step'[v] = "idle"
    <3>1. step[w] # "idle"
      BY <2>2 DEF WriteSound, Waiting
    <3>2. \A v \in Worker : v # w => step[v] = "idle"
      BY <2>1, <3>1 DEF RemovalsSound
    <3> HIDE DEF by
    <3> QED
      BY <1>1, <2>5, <3>2 DEF LifecycleInv
  <2>7. writes' = <<>>
    BY <2>4 DEF Life!Land, Life!LandFails
  <2>8. OpSound(step[w], op[w], installed, deleted) /\ Records(installed)
        /\ Announced(installed, deleted)
    BY <2>1 DEF RemovalsSound
  <2>9. /\ Records(installed') /\ Announced(installed', deleted')
        /\ p # "idle" => OpSound(p, op[w], installed', deleted')
    <3>1. CASE Life!Land /\ p = Life!Lands(step[by])
      <4>1. /\ installed' = c
            /\ deleted' = IF says THEN deleted \ {op[w].id} ELSE deleted
        BY <2>3, <2>4, <3>1 DEF Life!Land
      <4>2. Records(installed') /\ Announced(installed', deleted')
        BY <2>2, <4>1 DEF WriteSound
      <4>3. p # "idle" => OpSound(p, op[w], installed', deleted')
        <5>1. p = Life!Lands(step[w])
          BY <2>5, <3>1
        <5>2. CASE step[w] = "marking updating"
          <6>1. p = "reconcile" /\ op[w].id \notin deleted'
            BY <2>8, <4>1, <5>1, <5>2 DEF OpSound, Life!Lands
          <6> QED
            BY <6>1 DEF OpSound
        <5>3. CASE step[w] = "marking removing"
          <6>1. p = "delete"
                /\ (op[w].id \in DOMAIN installed' => installed'[op[w].id].state = "removing")
            BY <2>2, <4>1, <5>1, <5>3 DEF WriteSound, Life!Lands
          <6> QED
            BY <6>1 DEF OpSound
        <5>4. CASE step[w] = "storing files"
          <6>1. p = "settle" /\ op[w].kind = "repair"
            BY <2>8, <5>1, <5>4 DEF OpSound, Life!Lands
          <6> QED
            BY <6>1 DEF OpSound
        <5>5. CASE step[w] \notin {"marking updating", "marking removing", "storing files"}
          BY <5>1, <5>5 DEF Life!Lands
        <5> QED
          BY <5>2, <5>3, <5>4, <5>5
      <4> QED
        BY <4>2, <4>3
    <3>2. CASE Life!LandFails /\ p = Life!Throws(step[by])
      <4>1. UNCHANGED <<installed, deleted>> /\ p \in {"handle", "idle"}
        BY <3>2 DEF Life!LandFails, Life!Throws
      <4>2. OpSound("handle", op[w], installed', deleted')
        BY DEF OpSound
      <4> QED
        BY <2>8, <4>1, <4>2
    <3> QED
      BY <1>1, <3>1, <3>2
  <2>10. ASSUME NEW v \in Worker
         PROVE  OpSound(step'[v], op'[v], installed', deleted')
    <3>1. CASE step'[v] = "idle"
      BY <3>1, IdleIsSound
    <3>2. CASE step'[v] # "idle"
      <4>1. v = w /\ p # "idle" /\ op' = op
        BY <1>1, <2>6, <3>2
      <4> QED
        BY <2>6, <2>9, <4>1
    <3> QED
      BY <3>1, <3>2
  <2>11. \A v, o \in Worker : step'[v] # "idle" /\ step'[o] # "idle" => v = o
    BY <2>6
  <2> QED
    BY <2>7, <2>9, <2>10, <2>11 DEF RemovalsSound
<1> QED
  BY <1>2, <1>3, <1>4 DEF LifecycleInv

\* A worker takes an operation: beside another one, the batch is overlapped.
LEMMA TakeKeeps ==
    ASSUME LifecycleInv, NEW w \in Worker, Life!Take(w)
    PROVE  LifecycleInv'
<1>1. /\ step[w] = "idle" /\ step' = [step EXCEPT ![w] = "start"]
      /\ op' = [op EXCEPT ![w] = Head(batch)]
      /\ overlapped' = (overlapped \/ \E o \in Worker \ {w} : step[o] # "idle")
      /\ UNCHANGED <<installed, writes, deleted>>
  BY DEF Life!Take
<1>2. step' = [v \in Worker |-> step'[v]] /\ op' = [v \in Worker |-> op'[v]]
  BY <1>1 DEF LifecycleInv
<1>3. overlapped' \in BOOLEAN
  BY <1>1 DEF LifecycleInv
<1>4. ASSUME ~overlapped'
      PROVE  RemovalsSound'
  <2>1. ~overlapped /\ \A v \in Worker : step[v] = "idle"
    BY <1>1, <1>4
  <2>2. RemovalsSound
    BY <2>1 DEF LifecycleInv
  <2>3. writes = <<>>
    BY <2>1, <2>2 DEF RemovalsSound, WriteSound, Waiting
  <2>4. step'[w] = "start" /\ \A v \in Worker : v # w => step'[v] = "idle"
    BY <1>1, <2>1 DEF LifecycleInv
  <2>5. \A v \in Worker : OpSound(step'[v], op'[v], installed', deleted')
    BY <2>4, IdleIsSound
  <2>6. \A v, o \in Worker : step'[v] # "idle" /\ step'[o] # "idle" => v = o
    BY <2>4
  <2>7. Records(installed') /\ Announced(installed', deleted') /\ writes' = <<>>
    BY <1>1, <2>2, <2>3 DEF RemovalsSound
  <2> QED
    BY <2>5, <2>6, <2>7 DEF RemovalsSound
<1> QED
  BY <1>2, <1>3, <1>4 DEF LifecycleInv

LEMMA CrashKeeps ==
    ASSUME LifecycleInv, Life!Crash
    PROVE  LifecycleInv'
<1>1. /\ step' = [w \in Worker |-> "idle"] /\ op' = [w \in Worker |-> Life!NoOperation]
      /\ writes' = <<>> /\ UNCHANGED <<installed, deleted, overlapped>>
  BY DEF Life!Crash
<1>2. step' = [v \in Worker |-> step'[v]] /\ op' = [v \in Worker |-> op'[v]]
  BY <1>1
<1>3. ASSUME ~overlapped
      PROVE  RemovalsSound'
  <2>1. \A v \in Worker : step'[v] = "idle"
    BY <1>1
  <2>2. \A v \in Worker : OpSound(step'[v], op'[v], installed', deleted')
    BY <2>1, IdleIsSound
  <2>3. Records(installed') /\ Announced(installed', deleted')
    BY <1>1, <1>3 DEF LifecycleInv, RemovalsSound
  <2> QED
    BY <1>1, <2>1, <2>2, <2>3 DEF RemovalsSound
<1> QED
  BY <1>1, <1>2, <1>3 DEF LifecycleInv

LEMMA ElsewhereKeeps ==
    ASSUME LifecycleInv,
           UNCHANGED <<installed, writes, op, step, deleted, overlapped>>
    PROVE  LifecycleInv'
  BY DEF LifecycleInv, RemovalsSound

\* While a record is there whose files a removal has deleted, and nothing has
\* been said of it since, it says that it is being removed, through crashes and
\* writes that fail, unless a batch had two operations under way
\* (LifecycleManager.remove, InstalledStateManager).
THEOREM RemovalsAreAnnounced ==
    Life!LifecycleInit /\ [][Life!LifecycleNext]_(Life!lifecycleVars)
        => []Life!RemovalIsAnnounced
<1>1. Life!LifecycleInit => LifecycleInv
  <2> SUFFICES ASSUME Life!LifecycleInit PROVE LifecycleInv
    OBVIOUS
  <2>1. /\ installed = [r \in {} |-> r] /\ writes = <<>> /\ deleted = {} /\ overlapped = FALSE
        /\ step = [w \in Worker |-> "idle"] /\ op = [w \in Worker |-> Life!NoOperation]
    BY DEF Life!LifecycleInit
  <2>2. Records(installed) /\ Announced(installed, deleted)
    BY <2>1 DEF Records, Announced
  <2>3. \A w \in Worker : step[w] = "idle"
    BY <2>1
  <2>4. \A w \in Worker : OpSound(step[w], op[w], installed, deleted)
    BY <2>3, IdleIsSound
  <2>5. step = [w \in Worker |-> step[w]] /\ op = [w \in Worker |-> op[w]]
    BY <2>1
  <2> QED
    BY <2>1, <2>2, <2>3, <2>4, <2>5 DEF LifecycleInv, RemovalsSound
<1>2. LifecycleInv /\ [Life!LifecycleNext]_(Life!lifecycleVars) => LifecycleInv'
  <2> SUFFICES ASSUME LifecycleInv, [Life!LifecycleNext]_(Life!lifecycleVars)
               PROVE  LifecycleInv'
    OBVIOUS
  <2>1. CASE UNCHANGED Life!lifecycleVars
    BY <2>1, ElsewhereKeeps DEF Life!lifecycleVars
  <2>2. CASE Life!Land \/ Life!LandFails
    BY <2>2, LandKeeps
  <2>3. CASE Life!Crash
    BY <2>3, CrashKeeps
  <2>4. ASSUME NEW b \in Batches, Life!Call(b)
        PROVE  LifecycleInv'
    BY <2>4, ElsewhereKeeps DEF Life!Call
  <2>5. ASSUME NEW kind, Life!CallAll(kind)
        PROVE  LifecycleInv'
    BY <2>5, ElsewhereKeeps DEF Life!CallAll
  <2>6. ASSUME NEW r, NEW f, NEW c, Life!Edit(r, f, c)
        PROVE  LifecycleInv'
    BY <2>6, ElsewhereKeeps DEF Life!Edit
  <2>7. ASSUME NEW w \in Worker, Life!Take(w)
        PROVE  LifecycleInv'
    BY <2>7, TakeKeeps
  <2>8. ASSUME NEW w \in Worker,
               \/ Life!Update(w) \/ Life!MarkUpdating(w) \/ Life!Reconcile(w)
               \/ Life!Settle(w) \/ Life!Handle(w)
        PROVE  LifecycleInv'
    BY <2>8, UpdateKeeps
  <2>9. ASSUME NEW w \in Worker, Life!Repair(w) \/ Life!StoreFiles(w)
        PROVE  LifecycleInv'
    BY <2>9, RepairKeeps
  <2>10. ASSUME NEW w \in Worker,
                \/ Life!Remove(w) \/ Life!MarkRemoving(w) \/ Life!DeleteDirectory(w)
                \/ Life!RemoveEntry(w) \/ Life!RemoveResource(w)
         PROVE  LifecycleInv'
    BY <2>10, RemoveKeeps
  <2>11. ASSUME NEW w \in Worker, Life!Place(w) \/ Life!AddResource(w) \/ Life!Rebuild(w)
         PROVE  LifecycleInv'
    BY <2>11, AddKeeps
  <2> QED
    BY <2>1, <2>2, <2>3, <2>4, <2>5, <2>6, <2>7, <2>8, <2>9, <2>10, <2>11 DEF Life!LifecycleNext
<1>3. LifecycleInv => Life!RemovalIsAnnounced
  BY DEF LifecycleInv, RemovalsSound, Announced, Life!RemovalIsAnnounced
<1> QED
  BY <1>1, <1>2, <1>3, PTL

-----------------------------------------------------------------------------
(* The event bus                                                           *)

Distinct(s) == \A i, j \in 1 .. Len(s) : s[i] = s[j] => i = j

\* What is left of an array are the others, none of them further back.
LEMMA WithoutIs ==
    ASSUME NEW array \in Seq(Listener), NEW ls, NEW rest, rest = Bus!Without(array, ls)
    PROVE  /\ rest \in Seq(Listener)
           /\ \A n \in 1 .. Len(rest) :
                \E i \in 1 .. Len(array) : i >= n /\ rest[n] = array[i] /\ array[i] \notin ls
           /\ Members(rest) = Members(array) \ ls
           /\ Distinct(array) => Distinct(rest)
<1> DEFINE P == {i \in DOMAIN array : array[i] \notin ls}
           before(i) == {j \in P : j <= i}
           N == Cardinality(P)
           rank == [i \in P |-> Cardinality(before(i))]
           f == [n \in 1 .. N |-> CHOOSE i \in P : Cardinality(before(i)) = n]
<1>1. DOMAIN array = 1 .. Len(array) /\ Len(array) \in Nat /\ P \subseteq 1 .. Len(array)
  OBVIOUS
<1>2. IsFiniteSet(P) /\ N \in Nat
  <2>1. IsFiniteSet(1 .. Len(array))
    BY <1>1, FS_Interval
  <2> HIDE DEF P
  <2> QED
    BY <1>1, <2>1, FS_Subset, FS_CardinalityType
<1>3. ASSUME NEW i \in P
      PROVE  IsFiniteSet(before(i)) /\ rank[i] \in 1 .. N /\ rank[i] <= i /\ i \in Int
             /\ rank[i] \in Int
  <2>1. before(i) \subseteq P /\ before(i) \subseteq 1 .. i /\ i \in before(i) /\ i \in Nat
    <3>1. i \in Nat /\ \A j \in P : j \in Nat /\ j >= 1
      BY <1>1
    <3>2. before(i) \subseteq 1 .. i
      <4>1. \A j \in before(i) : j \in P /\ j <= i
        OBVIOUS
      <4> HIDE DEF P, before
      <4>2. ASSUME NEW j \in before(i)
            PROVE  j \in 1 .. i
        <5>1. j \in P /\ j <= i
          BY <4>1
        <5> QED
          BY <3>1, <5>1
      <4> QED
        BY <4>2
    <3>3. i \in before(i)
      BY <3>1
    <3> QED
      BY <3>1, <3>2, <3>3
  <2>2. IsFiniteSet(before(i)) /\ Cardinality(before(i)) <= N
    <3> HIDE DEF P, before
    <3> QED
      BY <2>1, <1>2, FS_Subset
  <2>3. Cardinality(before(i)) <= i
    <3>1. IsFiniteSet(1 .. i) /\ Cardinality(1 .. i) = i
      BY <2>1, FS_Interval
    <3> HIDE DEF P, before
    <3> QED
      BY <2>1, <3>1, FS_Subset
  <2>4. Cardinality(before(i)) \in Nat /\ Cardinality(before(i)) # 0
    <3> HIDE DEF P, before
    <3> QED
      BY <2>1, <2>2, FS_CardinalityType, FS_EmptySet
  <2>5. rank[i] = Cardinality(before(i))
    OBVIOUS
  <2> HIDE DEF P, before, N, rank
  <2> QED
    BY <1>2, <2>1, <2>2, <2>3, <2>4, <2>5
<1>4. ASSUME NEW i \in P, NEW k \in P, i < k
      PROVE  rank[i] < rank[k]
  <2>1. before(i) \subseteq before(k) /\ k \in before(k) /\ k \notin before(i)
    <3>1. \A j \in P : j \in Int
      BY <1>1
    <3> HIDE DEF P
    <3> QED
      BY <1>4, <3>1
  <2>2. IsFiniteSet(before(k))
    BY <1>3
  <2>3. Cardinality(before(i)) <= Cardinality(before(k))
        /\ Cardinality(before(i)) # Cardinality(before(k))
    <3>1. before(i) # before(k)
      BY <2>1
    <3> HIDE DEF P, before
    <3> QED
      BY <2>1, <2>2, <3>1, FS_Subset
  <2>4. rank[i] = Cardinality(before(i)) /\ rank[k] = Cardinality(before(k))
    OBVIOUS
  <2>5. rank[i] \in Int /\ rank[k] \in Int
    <3> HIDE DEF P, before, N, rank
    <3> QED
      BY <1>2, <1>3
  <2> HIDE DEF P, before, N, rank
  <2> QED
    BY <2>3, <2>4, <2>5
<1>5. \A n \in 1 .. N : f[n] \in P /\ rank[f[n]] = n
  <2>1. rank \in [P -> 1 .. N]
    <3>1. rank = [i \in P |-> rank[i]]
      OBVIOUS
    <3> HIDE DEF P, before, N, rank
    <3> QED
      BY <1>3, <3>1
  <2>2. \A i, k \in P : rank[i] = rank[k] => i = k
    <3> SUFFICES ASSUME NEW i \in P, NEW k \in P, rank[i] = rank[k], i # k
                 PROVE  FALSE
      OBVIOUS
    <3> HIDE DEF P, before, N, rank
    <3>1. i < k \/ k < i
      BY <1>3
    <3>2. rank[i] < rank[k] \/ rank[k] < rank[i]
      BY <3>1, <1>4
    <3> QED
      BY <1>2, <1>3, <3>2
  <2>3. rank \in Injection(P, 1 .. N)
    <3> HIDE DEF P, before, N, rank
    <3> QED
      BY <2>1, <2>2 DEF Injection, IsInjective
  <2>4. IsFiniteSet(1 .. N) /\ Cardinality(1 .. N) = N
    <3> HIDE DEF P, N
    <3> QED
      BY <1>2, FS_Interval
  <2>5. rank \in Surjection(P, 1 .. N)
    <3> HIDE DEF P, rank
    <3> QED
      BY <1>2, <2>3, <2>4, FS_Injection
  <2>6. \A n \in 1 .. N : \E i \in P : rank[i] = n
    <3> HIDE DEF P, before, N, rank
    <3> QED
      BY <2>5 DEF Surjection
  <2>7. \A n \in 1 .. N : \E i \in P : Cardinality(before(i)) = n
    BY <2>6
  <2> HIDE DEF P, before, N
  <2> QED
    BY <2>7
<1>6. rest = [n \in 1 .. N |-> array[f[n]]]
  <2>2. rest = [n \in 1 .. Cardinality(P) |->
                  array[CHOOSE i \in P : Cardinality(before(i)) = n]]
    BY Zenon DEF Bus!Without, Bus!At, Bus!Cardinality, Cardinality
  <2> HIDE DEF P, before
  <2> QED
    BY <2>2
<1>7. \A n \in 1 .. N : f[n] >= n /\ f[n] \in 1 .. Len(array) /\ array[f[n]] \notin ls
  <2>1. \A i \in P : i \in 1 .. Len(array) /\ array[i] \notin ls
    BY <1>1
  <2> HIDE DEF P, before, N, rank, f
  <2> QED
    BY <1>3, <1>5, <2>1
<1>8. \A i \in P : rank[i] \in 1 .. N /\ f[rank[i]] = i
  <2> TAKE i \in P
  <2> HIDE DEF P, before, N, rank, f
  <2>1. rank[i] \in 1 .. N /\ f[rank[i]] \in P /\ rank[f[rank[i]]] = rank[i]
    BY <1>3, <1>5
  <2>2. f[rank[i]] \in Int /\ i \in Int /\ rank[i] \in Int
    BY <2>1, <1>2, <1>3
  <2>3. ~(f[rank[i]] < i) /\ ~(i < f[rank[i]])
    BY <2>1, <2>2, <1>4
  <2> QED
    BY <2>1, <2>2, <2>3
<1>9. \A i \in 1 .. Len(array) : array[i] \notin ls => i \in P
  BY <1>1
<1> HIDE DEF P, before, N, rank, f
<1>10. rest \in Seq(Listener) /\ Len(rest) = N /\ \A n \in 1 .. N : rest[n] = array[f[n]]
  <2>1. \A n \in 1 .. N : array[f[n]] \in Listener
    BY <1>7
  <2> QED
    BY <1>2, <1>6, <2>1
<1>11. ASSUME NEW i \in 1 .. Len(array), array[i] \notin ls
       PROVE  \E n \in 1 .. Len(rest) : rest[n] = array[i]
  <2>1. rank[i] \in 1 .. N /\ f[rank[i]] = i
    BY <1>8, <1>9, <1>11
  <2> QED
    BY <1>10, <2>1
<1>12. Distinct(array) => Distinct(rest)
  <2> SUFFICES ASSUME Distinct(array), NEW m \in 1 .. N, NEW n \in 1 .. N, rest[m] = rest[n]
               PROVE  m = n
    BY <1>10 DEF Distinct
  <2>1. f[m] = f[n]
    BY <1>7, <1>10 DEF Distinct
  <2> QED
    BY <1>5, <2>1
<1>13. DOMAIN array = 1 .. Len(array) /\ DOMAIN rest = 1 .. Len(rest)
  BY <1>10
<1>14. \A n \in 1 .. Len(rest) :
         \E i \in 1 .. Len(array) : i >= n /\ rest[n] = array[i] /\ array[i] \notin ls
  BY <1>7, <1>10
<1>15. \A x \in Members(rest) : x \in Members(array) /\ x \notin ls
  BY <1>13, <1>14 DEF Members
<1>16. \A x \in Members(array) : x \notin ls => x \in Members(rest)
  BY <1>11, <1>13 DEF Members
<1>17. Members(rest) = Members(array) \ ls
  BY <1>15, <1>16
<1> QED
  BY <1>10, <1>12, <1>14, <1>17

Emitted ==
    [status : {"none", "calling", "done"}, array : Nat, next : Nat, called : Seq(Listener),
     over : SUBSET Listener, found : Seq(Listener), undisturbed : BOOLEAN]

Known == {l \in Listener : home[l] # 0}
LastOf(s) == s[Len(s)]

\* No array has a listener twice, and each has listeners that registered.
ArraysSound(lists, known) ==
    /\ lists \in Seq(Seq(Listener))
    /\ \A a \in 1 .. Len(lists) : Distinct(lists[a]) /\ Members(lists[a]) \subseteq known

\* Nobody whom an emission has called is ahead of it in its array.
CallsSound(e, lists, known) ==
    /\ e \in Emitted
    /\ Distinct(e.called) /\ Members(e.called) \subseteq known
    /\ e.status = "none" => e.called = <<>>
    /\ e.status = "calling" =>
         /\ e.array \in 1 .. Len(lists)
         /\ e.called # <<>>
         /\ e.over = (Members(e.called) \ {LastOf(e.called)}) \cap OnceOnly
         /\ \A i \in 1 .. Len(lists[e.array]) :
              i > e.next => lists[e.array][i] \notin Members(e.called)

\* While nobody is removed, it calls what it found, and what was added to it.
CallsInOrder(e, lists) ==
    e.undisturbed =>
        /\ e.status = "calling" =>
             /\ Len(e.called) = e.next
             /\ e.next <= Len(lists[e.array]) /\ Len(e.found) <= Len(lists[e.array])
             /\ \A i \in 1 .. e.next : e.called[i] = lists[e.array][i]
             /\ \A i \in 1 .. Len(e.found) : e.found[i] = lists[e.array][i]
        /\ e.status = "done" =>
             /\ Len(e.found) <= Len(e.called)
             /\ \A i \in 1 .. Len(e.found) : e.found[i] = e.called[i]

EmissionSound(e, lists, known) == CallsSound(e, lists, known) /\ CallsInOrder(e, lists)

\* Later has nobody of known further back than list has.
NotBack(list, later, known) ==
    \A i \in 1 .. Len(later) :
        \/ later[i] \notin known
        \/ \E j \in 1 .. Len(list) : j >= i /\ later[i] = list[j]

Extended(list, later) ==
    Len(list) <= Len(later) /\ \A i \in 1 .. Len(list) : later[i] = list[i]

\* An emission that does nothing while arrays change.
LEMMA EmissionWaits ==
    ASSUME NEW lists, NEW known, NEW e, EmissionSound(e, lists, known),
           NEW later \in Seq(Seq(Listener)), NEW more, known \subseteq more,
           lists \in Seq(Seq(Listener)), Len(lists) <= Len(later),
           \A a \in 1 .. Len(lists) : NotBack(lists[a], later[a], known),
           NEW f, \/ f = e /\ \A a \in 1 .. Len(lists) : Extended(lists[a], later[a])
                  \/ f = [e EXCEPT !.undisturbed = FALSE]
    PROVE  EmissionSound(f, later, more)
<1>1. /\ e \in Emitted /\ f \in Emitted
      /\ f.status = e.status /\ f.array = e.array /\ f.next = e.next /\ f.called = e.called
      /\ f.over = e.over /\ f.found = e.found
  BY DEF EmissionSound, CallsSound, Emitted
<1>2. ASSUME e.status = "calling"
      PROVE  /\ e.array \in 1 .. Len(lists) /\ e.array \in 1 .. Len(later)
             /\ NotBack(lists[e.array], later[e.array], known)
             /\ lists[e.array] \in Seq(Listener) /\ later[e.array] \in Seq(Listener)
  BY <1>2 DEF EmissionSound, CallsSound
<1>3. ASSUME e.status = "calling", NEW i \in 1 .. Len(later[e.array]), i > e.next
      PROVE  later[e.array][i] \notin Members(e.called)
  <2>1. CASE later[e.array][i] \notin known
    BY <2>1 DEF EmissionSound, CallsSound
  <2>2. CASE \E j \in 1 .. Len(lists[e.array]) : j >= i /\ later[e.array][i] = lists[e.array][j]
    <3>1. PICK j \in 1 .. Len(lists[e.array]) : j >= i /\ later[e.array][i] = lists[e.array][j]
      BY <2>2
    <3>2. j > e.next
      BY <1>1, <1>2, <1>3, <3>1 DEF Emitted
    <3> QED
      BY <1>3, <3>1, <3>2 DEF EmissionSound, CallsSound
  <2> QED
    BY <1>2, <1>3, <2>1, <2>2 DEF NotBack
<1>4. CallsSound(f, later, more)
  BY <1>1, <1>2, <1>3 DEF EmissionSound, CallsSound
<1>5. CallsInOrder(f, later)
  <2>1. CASE f = e /\ \A a \in 1 .. Len(lists) : Extended(lists[a], later[a])
    <3>1. CASE e.undisturbed /\ e.status = "calling"
      <4> DEFINE s == lists[e.array]
                 t == later[e.array]
      <4>1. /\ Len(e.called) = e.next /\ e.next <= Len(s) /\ Len(e.found) <= Len(s)
            /\ \A i \in 1 .. e.next : e.called[i] = s[i]
            /\ \A i \in 1 .. Len(e.found) : e.found[i] = s[i]
        BY <3>1 DEF EmissionSound, CallsInOrder
      <4>2. Len(s) <= Len(t) /\ \A i \in 1 .. Len(s) : t[i] = s[i]
        BY <1>2, <2>1, <3>1 DEF Extended
      <4>3. /\ Len(s) \in Nat /\ Len(t) \in Nat /\ e.next \in Nat /\ Len(e.found) \in Nat
        BY <1>1, <1>2, <3>1 DEF Emitted
      <4> HIDE DEF s, t
      <4>4. /\ e.next <= Len(t) /\ Len(e.found) <= Len(t)
            /\ \A i \in 1 .. e.next : e.called[i] = t[i]
            /\ \A i \in 1 .. Len(e.found) : e.found[i] = t[i]
        BY <4>1, <4>2, <4>3
      <4> QED
        BY <2>1, <3>1, <4>1, <4>4 DEF CallsInOrder, t
    <3>2. CASE ~(e.undisturbed /\ e.status = "calling")
      BY <2>1, <3>2 DEF EmissionSound, CallsInOrder
    <3> QED
      BY <3>1, <3>2
  <2>2. CASE f = [e EXCEPT !.undisturbed = FALSE]
    BY <1>1, <2>2 DEF CallsInOrder, Emitted
  <2> QED
    BY <2>1, <2>2
<1> QED
  BY <1>4, <1>5 DEF EmissionSound

LEMMA SameList ==
    ASSUME NEW list \in Seq(Listener), NEW known
    PROVE  NotBack(list, list, known) /\ Extended(list, list)
<1>1. Len(list) \in Nat
  OBVIOUS
<1> QED
  BY <1>1 DEF NotBack, Extended

LEMMA LongerList ==
    ASSUME NEW list \in Seq(Listener), NEW known, NEW l \in Listener, l \notin known,
           Distinct(list), Members(list) \subseteq known
    PROVE  /\ Append(list, l) \in Seq(Listener) /\ Distinct(Append(list, l))
           /\ Members(Append(list, l)) = Members(list) \cup {l}
           /\ NotBack(list, Append(list, l), known) /\ Extended(list, Append(list, l))
<1> DEFINE t == Append(list, l)
<1>1. /\ t \in Seq(Listener) /\ Len(t) = Len(list) + 1 /\ t[Len(list) + 1] = l
      /\ \A i \in 1 .. Len(list) : t[i] = list[i]
      /\ Len(list) \in Nat /\ DOMAIN list = 1 .. Len(list) /\ DOMAIN t = 1 .. Len(list) + 1
  OBVIOUS
<1>2. \A i \in 1 .. Len(list) : list[i] \in known
  BY <1>1 DEF Members
<1> HIDE DEF t
<1>3. Distinct(t)
  BY <1>1, <1>2 DEF Distinct
<1>4. Members(t) = Members(list) \cup {l}
  <2>1. ASSUME NEW i \in 1 .. Len(list) + 1
        PROVE  t[i] \in Members(list) \cup {l}
    BY <1>1 DEF Members
  <2>2. l \in Members(t) /\ \A i \in 1 .. Len(list) : list[i] \in Members(t)
    BY <1>1 DEF Members
  <2> QED
    BY <1>1, <2>1, <2>2 DEF Members
<1>5. NotBack(list, t, known) /\ Extended(list, t)
  <2>1. ASSUME NEW i \in 1 .. Len(t)
        PROVE  \/ t[i] \notin known
               \/ \E j \in 1 .. Len(list) : j >= i /\ t[i] = list[j]
    BY <1>1
  <2> QED
    BY <1>1, <2>1 DEF NotBack, Extended
<1> QED
  BY <1>1, <1>3, <1>4, <1>5 DEF t

LEMMA ShorterList ==
    ASSUME NEW list \in Seq(Listener), NEW known, NEW ls, Distinct(list),
           NEW rest, rest = Bus!Without(list, ls)
    PROVE  /\ rest \in Seq(Listener) /\ Distinct(rest)
           /\ Members(rest) = Members(list) \ ls
           /\ NotBack(list, rest, known)
<1>1. \A n \in 1 .. Len(rest) :
        \E i \in 1 .. Len(list) : i >= n /\ rest[n] = list[i] /\ list[i] \notin ls
  BY WithoutIs
<1>2. rest \in Seq(Listener) /\ Distinct(rest) /\ Members(rest) = Members(list) \ ls
  BY WithoutIs
<1> QED
  BY <1>1, <1>2 DEF NotBack

BusSound ==
    /\ ArraysSound(arrays, Known)
    /\ mapped \in 0 .. Len(arrays)
    /\ home = [l \in Listener |-> home[l]] /\ \A l \in Listener : home[l] \in 0 .. Len(arrays)
    /\ emission = [m \in Emission |-> emission[m]]
    /\ \A m \in Emission : EmissionSound(emission[m], arrays, Known)

\* All emissions wait while the arrays change, or go through none of them.
LEMMA AllWait ==
    ASSUME BusSound, ArraysSound(arrays', Known'), Known \subseteq Known',
           Len(arrays) <= Len(arrays'),
           \A a \in 1 .. Len(arrays) : NotBack(arrays[a], arrays'[a], Known),
           \/ /\ UNCHANGED emission
              /\ \A a \in 1 .. Len(arrays) : Extended(arrays[a], arrays'[a])
           \/ emission' = [m \in Emission |-> [emission[m] EXCEPT !.undisturbed = FALSE]]
    PROVE  /\ emission' = [m \in Emission |-> emission'[m]]
           /\ \A m \in Emission : EmissionSound(emission'[m], arrays', Known')
<1>1. emission' = [m \in Emission |-> emission'[m]]
  BY DEF BusSound
<1>2. ASSUME NEW m \in Emission
      PROVE  EmissionSound(emission'[m], arrays', Known')
  <2> DEFINE e == emission[m]
             f == emission'[m]
             lists == arrays
             later == arrays'
             known == Known
             more == Known'
  <2>1. \/ f = e /\ \A a \in 1 .. Len(lists) : Extended(lists[a], later[a])
        \/ f = [e EXCEPT !.undisturbed = FALSE]
    OBVIOUS
  <2>2. /\ EmissionSound(e, lists, known) /\ later \in Seq(Seq(Listener))
        /\ lists \in Seq(Seq(Listener)) /\ known \subseteq more /\ Len(lists) <= Len(later)
        /\ \A a \in 1 .. Len(lists) : NotBack(lists[a], later[a], known)
    BY DEF BusSound, ArraysSound
  <2> HIDE DEF e, f, lists, later, known, more
  <2>3. EmissionSound(f, later, more)
    BY <2>1, <2>2, EmissionWaits
  <2> QED
    BY <2>3 DEF f, later, more
<1> QED
  BY <1>1, <1>2

Shown == Members(Bus!Registered)

LEMMA ListenerIsAdded ==
    ASSUME BusSound, NEW l \in Listener, Bus!AddListener(l)
    PROVE  /\ BusSound' /\ mapped' # 0
           /\ Shown' = Shown \cup {l} /\ Known' = Known \cup {l} /\ l \notin Known
<1>1. /\ home[l] = 0 /\ home' = [home EXCEPT ![l] = mapped'] /\ UNCHANGED emission
      /\ arrays \in Seq(Seq(Listener)) /\ Len(arrays) \in Nat
      /\ \A a \in 1 .. Len(arrays) :
           /\ arrays[a] \in Seq(Listener) /\ Distinct(arrays[a]) /\ Members(arrays[a]) \subseteq Known
  BY DEF Bus!AddListener, BusSound, ArraysSound
<1>2. l \notin Known
  BY <1>1 DEF Known
<1>3. /\ <<l>> \in Seq(Listener) /\ Distinct(<<l>>) /\ Members(<<l>>) = {l}
  BY DEF Distinct, Members
<1>4. /\ arrays' \in Seq(Seq(Listener)) /\ Len(arrays) <= Len(arrays')
      /\ mapped' \in 1 .. Len(arrays') /\ Len(arrays') \in Nat
      /\ \A a \in 1 .. Len(arrays) : arrays'[a] \in {arrays[a], Append(arrays[a], l)}
      /\ \A a \in 1 .. Len(arrays') : a \in 1 .. Len(arrays) \/ arrays'[a] = <<l>>
      /\ Shown' = Shown \cup {l}
  <2>1. CASE mapped = 0
    <3>1. arrays' = Append(arrays, <<l>>) /\ mapped' = Len(arrays) + 1
      BY <2>1 DEF Bus!AddListener
    <3>2. /\ arrays' \in Seq(Seq(Listener)) /\ Len(arrays') = Len(arrays) + 1
          /\ arrays'[Len(arrays) + 1] = <<l>>
          /\ \A a \in 1 .. Len(arrays) : arrays'[a] = arrays[a]
      BY <1>1, <1>3, <3>1
    <3>3. Shown = {} /\ Shown' = {l}
      <4>1. Bus!Registered = <<>> /\ Bus!Registered' = <<l>>
        BY <1>1, <2>1, <3>1, <3>2 DEF Bus!Registered
      <4> QED
        BY <1>3, <4>1 DEF Shown, Members
    <3> QED
      BY <1>1, <3>1, <3>2, <3>3
  <2>2. CASE mapped # 0
    <3>1. /\ arrays' = [arrays EXCEPT ![mapped] = Append(arrays[mapped], l)] /\ mapped' = mapped
          /\ mapped \in 1 .. Len(arrays)
      BY <2>2 DEF Bus!AddListener, BusSound
    <3>2. /\ Append(arrays[mapped], l) \in Seq(Listener)
          /\ Members(Append(arrays[mapped], l)) = Members(arrays[mapped]) \cup {l}
      BY <1>1, <1>2, <3>1, LongerList
    <3>3. /\ arrays' \in Seq(Seq(Listener)) /\ Len(arrays') = Len(arrays)
          /\ arrays'[mapped] = Append(arrays[mapped], l)
          /\ \A a \in 1 .. Len(arrays) :
               arrays'[a] = IF a = mapped THEN Append(arrays[a], l) ELSE arrays[a]
      BY <1>1, <3>1, <3>2
    <3>4. Shown' = Shown \cup {l}
      BY <2>2, <3>1, <3>2, <3>3 DEF Shown, Bus!Registered
    <3> QED
      BY <1>1, <3>1, <3>3, <3>4
  <2> QED
    BY <2>1, <2>2
<1>5. /\ home' = [k \in Listener |-> home'[k]] /\ home'[l] = mapped'
      /\ \A k \in Listener : k # l => home'[k] = home[k]
  BY <1>1 DEF BusSound
<1>6. Known' = Known \cup {l}
  BY <1>4, <1>5 DEF Known
<1>7. ASSUME NEW a \in 1 .. Len(arrays)
      PROVE  /\ Distinct(arrays'[a]) /\ Members(arrays'[a]) \subseteq Known \cup {l}
             /\ NotBack(arrays[a], arrays'[a], Known) /\ Extended(arrays[a], arrays'[a])
  <2>1. CASE arrays'[a] = arrays[a]
    BY <1>1, <2>1, SameList
  <2>2. CASE arrays'[a] = Append(arrays[a], l)
    <3>1. /\ Distinct(Append(arrays[a], l))
          /\ Members(Append(arrays[a], l)) = Members(arrays[a]) \cup {l}
          /\ NotBack(arrays[a], Append(arrays[a], l), Known)
          /\ Extended(arrays[a], Append(arrays[a], l))
      BY <1>1, <1>2, LongerList
    <3> QED
      BY <1>1, <2>2, <3>1
  <2> QED
    BY <1>4, <2>1, <2>2
<1>8. ArraysSound(arrays', Known')
  <2>1. \A a \in 1 .. Len(arrays') :
          Distinct(arrays'[a]) /\ Members(arrays'[a]) \subseteq Known \cup {l}
    BY <1>3, <1>4, <1>7
  <2> QED
    BY <1>4, <1>6, <2>1 DEF ArraysSound
<1>9. /\ emission' = [m \in Emission |-> emission'[m]]
      /\ \A m \in Emission : EmissionSound(emission'[m], arrays', Known')
  BY <1>1, <1>4, <1>6, <1>7, <1>8, AllWait
<1>10. \A k \in Listener : home'[k] \in 0 .. Len(arrays')
  BY <1>1, <1>4, <1>5 DEF BusSound
<1>11. mapped' \in 0 .. Len(arrays') /\ mapped' # 0
  BY <1>4
<1>12. BusSound'
  BY <1>5, <1>8, <1>9, <1>10, <1>11 DEF BusSound
<1> QED
  BY <1>2, <1>4, <1>6, <1>11, <1>12

LEMMA ListenerIsRemoved ==
    ASSUME BusSound, NEW b \in 0 .. Len(arrays), NEW l, Bus!RemoveFrom(b, l),
           UNCHANGED <<mapped, home>>,
           emission' = [m \in Emission |-> [emission[m] EXCEPT !.undisturbed = FALSE]]
    PROVE  BusSound' /\ Shown \ {l} \subseteq Shown' /\ Shown' \subseteq Shown
<1>0. Known' = Known
  BY DEF Known
<1>1. /\ arrays \in Seq(Seq(Listener)) /\ Len(arrays) \in Nat /\ Known' = Known
      /\ \A a \in 1 .. Len(arrays) :
           /\ arrays[a] \in Seq(Listener) /\ Distinct(arrays[a]) /\ Members(arrays[a]) \subseteq Known
  BY <1>0 DEF BusSound, ArraysSound
<1>2. ASSUME NEW a \in 1 .. Len(arrays)
      PROVE  LET less == Bus!Without(arrays[a], {l})
             IN  /\ less \in Seq(Listener) /\ Distinct(less)
                 /\ Members(less) = Members(arrays[a]) \ {l}
                 /\ NotBack(arrays[a], less, Known)
  BY <1>1, ShorterList
<1>3. /\ arrays' \in Seq(Seq(Listener)) /\ Len(arrays') = Len(arrays)
      /\ \A a \in 1 .. Len(arrays) :
           arrays'[a] = IF a = b THEN Bus!Without(arrays[a], {l}) ELSE arrays[a]
  <2>1. CASE b = 0
    BY <1>1, <2>1 DEF Bus!RemoveFrom
  <2>2. CASE b # 0
    <3>1. /\ arrays' = [arrays EXCEPT ![b] = Bus!Without(arrays[b], {l})] /\ b \in 1 .. Len(arrays)
      BY <2>2 DEF Bus!RemoveFrom
    <3>2. Bus!Without(arrays[b], {l}) \in Seq(Listener)
      BY <1>2, <3>1
    <3> QED
      BY <1>1, <3>1, <3>2
  <2> QED
    BY <2>1, <2>2
<1>4. ASSUME NEW a \in 1 .. Len(arrays)
      PROVE  /\ Distinct(arrays'[a]) /\ NotBack(arrays[a], arrays'[a], Known)
             /\ Members(arrays'[a]) \subseteq Members(arrays[a])
             /\ Members(arrays[a]) \ {l} \subseteq Members(arrays'[a])
  BY <1>1, <1>2, <1>3, SameList
<1>5. ArraysSound(arrays', Known')
  BY <1>1, <1>3, <1>4 DEF ArraysSound
<1>6. /\ emission' = [m \in Emission |-> emission'[m]]
      /\ \A m \in Emission : EmissionSound(emission'[m], arrays', Known')
  BY <1>1, <1>3, <1>4, <1>5, AllWait
<1>7. BusSound'
  BY <1>3, <1>5, <1>6 DEF BusSound
<1>8. Shown \ {l} \subseteq Shown' /\ Shown' \subseteq Shown
  <2>1. CASE mapped = 0
    BY <2>1 DEF Shown, Bus!Registered
  <2>2. CASE mapped # 0
    <3>1. /\ mapped \in 1 .. Len(arrays) /\ Bus!Registered = arrays[mapped]
          /\ Bus!Registered' = arrays'[mapped]
      BY <2>2 DEF BusSound, Bus!Registered
    <3> QED
      BY <1>4, <3>1 DEF Shown
  <2> QED
    BY <2>1, <2>2
<1> QED
  BY <1>7, <1>8

LEMMA EmitBegins ==
    ASSUME BusSound, NEW m \in Emission, Bus!Emit(m)
    PROVE  /\ BusSound' /\ UNCHANGED <<arrays, mapped, home, removed>>
           /\ emission[m].status = "none"
           /\ emission' = [emission EXCEPT ![m] = emission'[m]]
           /\ \/ emission'[m].status = "done" /\ emission'[m].called = <<>>
              \/ emission'[m].status = "calling" /\ mapped # 0 /\ emission'[m].array = mapped
<1> DEFINE A == Bus!Registered
           begun == [Bus!Unemitted EXCEPT !.status = "calling", !.array = mapped, !.found = A]
           first == Bus!Call(begun, 1)
           empty == [begun EXCEPT !.status = "done"]
<1>1. /\ emission[m].status = "none" /\ UNCHANGED <<arrays, mapped, home, removed>>
      /\ emission' = [emission EXCEPT ![m] = IF A = <<>> THEN empty ELSE first]
  BY DEF Bus!Emit
<1>2. /\ A \in Seq(Listener) /\ mapped \in Nat
      /\ A # <<>> => mapped \in 1 .. Len(arrays) /\ A = arrays[mapped]
      /\ arrays \in Seq(Seq(Listener))
      /\ \A a \in 1 .. Len(arrays) : Distinct(arrays[a]) /\ Members(arrays[a]) \subseteq Known
  BY DEF BusSound, ArraysSound, Bus!Registered
<1>3. /\ emission'[m] = IF A = <<>> THEN empty ELSE first
      /\ emission' = [emission EXCEPT ![m] = emission'[m]]
  BY <1>1 DEF BusSound
<1>4. Known' = Known
  BY <1>1 DEF Known
<1>5. ASSUME EmissionSound(emission'[m], arrays, Known)
      PROVE  BusSound'
  <2>1. emission' = [n \in Emission |-> emission'[n]]
        /\ \A n \in Emission : n # m => emission'[n] = emission[n]
    BY <1>3 DEF BusSound
  <2>2. \A n \in Emission : EmissionSound(emission'[n], arrays, Known)
    BY <1>5, <2>1 DEF BusSound
  <2> QED
    BY <1>1, <1>4, <2>1, <2>2 DEF BusSound
<1> HIDE DEF A
<1>6. /\ begun \in Emitted /\ begun.status = "calling" /\ begun.array = mapped
      /\ begun.called = <<>> /\ begun.over = {} /\ begun.found = A
  <2> DEFINE e0 == Bus!Unemitted
             e1 == [e0 EXCEPT !.status = "calling"]
             e2 == [e1 EXCEPT !.array = mapped]
             e3 == [e2 EXCEPT !.found = A]
  <2>1. e0 \in Emitted /\ e0.called = <<>> /\ e0.over = {}
    BY DEF Bus!Unemitted, Emitted
  <2>2. begun = e3
    BY DEF begun
  <2> HIDE DEF e0
  <2>3. e1 \in Emitted /\ e1.called = <<>> /\ e1.over = {} /\ e1.status = "calling"
    BY <2>1 DEF Emitted
  <2> HIDE DEF e1
  <2>4. /\ e2 \in Emitted /\ e2.called = <<>> /\ e2.over = {} /\ e2.status = "calling"
        /\ e2.array = mapped
    BY <1>2, <2>3 DEF Emitted
  <2> HIDE DEF e2
  <2> QED
    BY <1>2, <2>2, <2>4 DEF Emitted
<1> HIDE DEF begun
<1>7. CASE A = <<>>
  <2>1. /\ empty \in Emitted /\ empty.status = "done" /\ empty.called = <<>> /\ empty.found = A
    BY <1>6 DEF Emitted
  <2> HIDE DEF empty
  <2>2. EmissionSound(empty, arrays, Known)
    BY <1>7, <2>1 DEF EmissionSound, CallsSound, CallsInOrder, Distinct, Members
  <2> QED
    BY <1>1, <1>3, <1>5, <1>7, <2>1, <2>2
<1>8. CASE A # <<>>
  <2> DEFINE x == A[1]
  <2>1. x \in Listener /\ Len(A) >= 1 /\ x = arrays[mapped][1] /\ x \in Members(A)
        /\ Len(A) \in Nat
    BY <1>2, <1>8 DEF Members
  <2>2. first = [begun EXCEPT !.next = 1, !.called = Append(begun.called, x)]
    BY <1>6, <2>1 DEF Bus!Call
  <2>3. /\ <<x>> \in Seq(Listener) /\ Distinct(<<x>>) /\ Members(<<x>>) = {x} /\ Len(<<x>>) = 1
        /\ <<x>>[1] = x /\ <<x>> # <<>> /\ LastOf(<<x>>) = x /\ Append(<<>>, x) = <<x>>
    BY <2>1 DEF Distinct, Members, LastOf
  <2> HIDE DEF x, first
  <2>4. /\ first \in Emitted /\ first.status = "calling" /\ first.array = mapped
        /\ first.next = 1 /\ first.called = <<x>> /\ first.over = {} /\ first.found = A
    BY <1>6, <2>2, <2>3 DEF Emitted
  <2>5. \A i \in 1 .. Len(A) : i > 1 => A[i] # x
    BY <1>2, <1>8 DEF Distinct, x
  <2>6. CallsSound(first, arrays, Known)
    BY <1>2, <1>8, <2>1, <2>3, <2>4, <2>5 DEF CallsSound
  <2>7. CallsInOrder(first, arrays)
    <3>1. \A i \in 1 .. 1 : <<x>>[i] = A[i]
      BY <2>3 DEF x
    <3> QED
      BY <1>2, <1>8, <2>1, <2>3, <2>4, <3>1 DEF CallsInOrder
  <2>8. BusSound'
    BY <1>3, <1>5, <1>8, <2>6, <2>7 DEF EmissionSound
  <2> QED
    BY <1>1, <1>2, <1>3, <1>8, <2>4, <2>8
<1> QED
  BY <1>7, <1>8

Further(e, list, over) ==
    [e EXCEPT !.next = e.next + 1, !.called = Append(e.called, list[e.next + 1]),
              !.over = over]

MayGoOn(e, lists, known, f) ==
    /\ lists \in Seq(Seq(Listener)) /\ EmissionSound(e, lists, known) /\ ArraysSound(lists, known)
    /\ e.status = "calling" /\ e.next < Len(lists[e.array])
    /\ f = Further(e, lists[e.array], Members(e.called) \cap OnceOnly)

\* An emission that goes on.
LEMMA CallsNext ==
    ASSUME NEW e, NEW lists, NEW known, NEW f, MayGoOn(e, lists, known, f)
    PROVE  /\ EmissionSound(f, lists, known)
           /\ f.status = "calling" /\ f.array = e.array
           /\ Members(e.called) \subseteq Members(f.called)
<1> DEFINE A == lists[e.array]
           x == A[e.next + 1]
           over == Members(e.called) \cap OnceOnly
<1> USE DEF MayGoOn
<1>1. /\ e \in Emitted /\ e.array \in 1 .. Len(lists)
      /\ A \in Seq(Listener) /\ Distinct(A) /\ Members(A) \subseteq known
      /\ Distinct(e.called) /\ Members(e.called) \subseteq known
      /\ \A i \in 1 .. Len(A) : i > e.next => A[i] \notin Members(e.called)
  BY DEF EmissionSound, CallsSound, ArraysSound
<1>2. /\ e.next \in Nat /\ e.next + 1 \in 1 .. Len(A) /\ Len(A) \in Nat
      /\ e.called \in Seq(Listener) /\ e.over \subseteq Listener
  BY <1>1 DEF Emitted
<1>0. DOMAIN A = 1 .. Len(A)
  BY <1>1
<1>3. x \in Listener /\ x \notin Members(e.called) /\ x \in Members(A) /\ x \in known
  <2>1. x \in Listener /\ x \notin Members(e.called)
    <3> DEFINE i == e.next + 1
    <3>1. i \in 1 .. Len(A) /\ i > e.next
      BY <1>2
    <3> HIDE DEF i, A
    <3>2. A[i] \in Listener /\ A[i] \notin Members(e.called)
      BY <1>1, <3>1
    <3> QED
      BY <3>2 DEF i
  <2>2. x \in Members(A)
    BY <1>0, <1>2 DEF Members
  <2> QED
    BY <1>1, <2>1, <2>2
<1>4. /\ Append(e.called, x) \in Seq(Listener) /\ Distinct(Append(e.called, x))
      /\ Members(Append(e.called, x)) = Members(e.called) \cup {x}
      /\ Extended(e.called, Append(e.called, x))
  BY <1>1, <1>2, <1>3, LongerList
<1>5. /\ f \in Emitted /\ f.status = "calling" /\ f.array = e.array /\ f.next = e.next + 1
      /\ f.called = Append(e.called, x) /\ f.over = over /\ f.found = e.found
      /\ f.undisturbed = e.undisturbed
  <2>1. over \subseteq Listener
    BY <1>2 DEF Members
  <2>2. f = [e EXCEPT !.next = e.next + 1, !.called = Append(e.called, x), !.over = over]
    BY DEF Further
  <2> DEFINE e1 == [e EXCEPT !.next = e.next + 1]
             e2 == [e1 EXCEPT !.called = Append(e.called, x)]
             e3 == [e2 EXCEPT !.over = over]
  <2> HIDE DEF x, A
  <2>3. f = e3
    BY <2>2
  <2>4. /\ e1 \in Emitted /\ e1.status = "calling" /\ e1.array = e.array /\ e1.next = e.next + 1
        /\ e1.found = e.found /\ e1.undisturbed = e.undisturbed
    <3> DEFINE n == e.next + 1
    <3>1. n \in Nat /\ e \in Emitted
      BY <1>1, <1>2
    <3> HIDE DEF n
    <3>2. /\ [e EXCEPT !.next = n] \in Emitted /\ [e EXCEPT !.next = n].status = e.status
          /\ [e EXCEPT !.next = n].array = e.array /\ [e EXCEPT !.next = n].next = n
          /\ [e EXCEPT !.next = n].found = e.found
          /\ [e EXCEPT !.next = n].undisturbed = e.undisturbed
      BY <3>1 DEF Emitted
    <3> QED
      BY <3>2 DEF n
  <2> HIDE DEF e1
  <2>5. /\ e2 \in Emitted /\ e2.status = "calling" /\ e2.array = e.array /\ e2.next = e.next + 1
        /\ e2.found = e.found /\ e2.undisturbed = e.undisturbed
        /\ e2.called = Append(e.called, x)
    BY <1>4, <2>4 DEF Emitted
  <2> HIDE DEF e2
  <2> QED
    BY <2>1, <2>3, <2>5 DEF Emitted
<1>6. f.called # <<>> /\ LastOf(f.called) = x /\ Len(f.called) = Len(e.called) + 1
      /\ Len(e.called) \in Nat
  <2>1. x \in Listener /\ f.called = Append(e.called, x) /\ e.called \in Seq(Listener)
    BY <1>2, <1>3, <1>5
  <2> HIDE DEF x
  <2>2. /\ f.called[Len(e.called) + 1] = x /\ Len(f.called) = Len(e.called) + 1
        /\ Len(e.called) \in Nat
    BY <2>1, AppendIs
  <2>3. f.called # <<>>
    BY <2>2
  <2> QED
    BY <2>2, <2>3 DEF LastOf
<1>7. ASSUME NEW i \in 1 .. Len(A), i > e.next + 1
      PROVE  A[i] \notin Members(e.called) \cup {x}
  <2> DEFINE n == e.next + 1
  <2>1. n \in 1 .. Len(A) /\ i # n /\ i > e.next
    BY <1>2, <1>7
  <2> HIDE DEF n, A
  <2>2. A[i] # A[n] /\ A[i] \notin Members(e.called)
    BY <1>1, <2>1 DEF Distinct
  <2> QED
    BY <2>2 DEF n
<1>8. CallsSound(f, lists, known)
  <2>1. over = (Members(f.called) \ {x}) \cap OnceOnly
    BY <1>3, <1>4, <1>5
  <2> HIDE DEF x, A
  <2>2. lists[f.array] = A
    BY <1>5 DEF A
  <2> QED
    BY <1>1, <1>3, <1>4, <1>5, <1>6, <1>7, <2>1, <2>2 DEF CallsSound
<1>9. CallsInOrder(f, lists)
  <2> SUFFICES ASSUME e.undisturbed
               PROVE  CallsInOrder(f, lists)
    BY <1>5 DEF CallsInOrder
  <2>1. /\ Len(e.called) = e.next /\ Len(e.found) <= Len(A)
        /\ \A i \in 1 .. e.next : e.called[i] = A[i]
        /\ \A i \in 1 .. Len(e.found) : e.found[i] = A[i]
    BY DEF EmissionSound, CallsInOrder
  <2>2. \A i \in 1 .. e.next + 1 : f.called[i] = A[i]
    <3>1. f.called[e.next + 1] = A[e.next + 1]
      BY <1>5, <1>6, <2>1 DEF LastOf
    <3>2. \A i \in 1 .. e.next : f.called[i] = e.called[i]
      BY <1>4, <1>5, <2>1 DEF Extended
    <3>3. e.next \in Nat
      BY <1>2
    <3>4. ASSUME NEW i \in 1 .. e.next + 1
          PROVE  f.called[i] = A[i]
      <4> HIDE DEF A
      <4>1. i = e.next + 1 \/ i \in 1 .. e.next
        BY <3>3
      <4> QED
        BY <2>1, <3>1, <3>2, <4>1
    <3> QED
      BY <3>4
  <2>3. /\ Len(f.called) = f.next /\ f.next <= Len(A) /\ Len(f.found) <= Len(A)
        /\ \A i \in 1 .. f.next : f.called[i] = A[i]
        /\ \A i \in 1 .. Len(f.found) : f.found[i] = A[i]
    <3>1. f.next = e.next + 1 /\ Len(f.called) = Len(e.called) + 1 /\ f.found = e.found
      BY <1>5, <1>6
    <3>2. e.next \in Nat /\ e.next + 1 \in 1 .. Len(A)
      BY <1>2
    <3> HIDE DEF A, x
    <3>3. Len(f.called) = f.next /\ f.next <= Len(A) /\ Len(f.found) <= Len(A)
      BY <2>1, <3>1, <3>2
    <3> QED
      BY <2>1, <2>2, <3>1, <3>3
  <2> QED
    BY <1>5, <2>3 DEF CallsInOrder
<1> QED
  BY <1>4, <1>5, <1>8, <1>9 DEF EmissionSound

\* An emission that has called the last of its array.
LEMMA CallsEnd ==
    ASSUME NEW e, NEW lists \in Seq(Seq(Listener)), NEW known, EmissionSound(e, lists, known),
           e.status = "calling", ~(e.next < Len(lists[e.array])), NEW over,
           over = Members(e.called) \cap OnceOnly, NEW f,
           f = [e EXCEPT !.status = "done", !.over = over]
    PROVE  EmissionSound(f, lists, known) /\ f.status = "done" /\ f.called = e.called
<1>1. /\ e \in Emitted /\ e.array \in 1 .. Len(lists) /\ lists[e.array] \in Seq(Listener)
      /\ Distinct(e.called) /\ Members(e.called) \subseteq known
  BY DEF EmissionSound, CallsSound
<1>2. over \subseteq Listener
  BY <1>1 DEF Emitted, Members
<1>3. /\ f \in Emitted /\ f.status = "done" /\ f.called = e.called /\ f.found = e.found
      /\ f.undisturbed = e.undisturbed
  BY <1>1, <1>2 DEF Emitted
<1>4. CallsSound(f, lists, known)
  BY <1>1, <1>3 DEF CallsSound
<1>5. CallsInOrder(f, lists)
  <2> SUFFICES ASSUME e.undisturbed
               PROVE  CallsInOrder(f, lists)
    BY <1>3 DEF CallsInOrder
  <2> DEFINE A == lists[e.array]
  <2>1. /\ Len(e.called) = e.next /\ e.next <= Len(A) /\ Len(e.found) <= Len(A)
        /\ \A i \in 1 .. e.next : e.called[i] = A[i]
        /\ \A i \in 1 .. Len(e.found) : e.found[i] = A[i]
    BY DEF EmissionSound, CallsInOrder
  <2>2. e.next = Len(A) /\ Len(A) \in Nat /\ Len(e.found) \in Nat
    BY <1>1, <2>1 DEF Emitted
  <2> HIDE DEF A
  <2>3. /\ Len(e.found) <= Len(e.called)
        /\ \A i \in 1 .. Len(e.found) : e.found[i] = e.called[i]
    BY <2>1, <2>2
  <2> QED
    BY <1>3, <2>3 DEF CallsInOrder
<1> QED
  BY <1>3, <1>4, <1>5 DEF EmissionSound

LEMMA ListenerReturns ==
    ASSUME BusSound, NEW m \in Emission, Bus!ListenerEnds(m)
    PROVE  /\ BusSound' /\ UNCHANGED <<home, removed, crossed>>
           /\ emission[m].status = "calling"
           /\ emission' = [emission EXCEPT ![m] = emission'[m]]
           /\ Members(emission[m].called) \subseteq Members(emission'[m].called)
           /\ \/ /\ emission'[m].status = "calling" /\ emission'[m].array = emission[m].array
                 /\ UNCHANGED <<arrays, mapped>>
              \/ /\ emission'[m].status = "done" /\ emission'[m].called = emission[m].called
                 /\ \/ /\ UNCHANGED <<arrays, mapped>>
                       /\ Members(emission[m].called) \cap OnceOnly = {}
                    \/ /\ mapped' # 0
                       /\ Shown' = Members(arrays[emission[m].array])
                                     \ (Members(emission[m].called) \cap OnceOnly)
<1> DEFINE e == emission[m]
           f == emission'[m]
           over == e.over \cup ({Bus!Last(e.called)} \cap OnceOnly)
           goesOn == e.next < Len(arrays[e.array])
<1>1. /\ e.status = "calling" /\ UNCHANGED <<home, removed, crossed>>
      /\ emission' = [emission EXCEPT ![m] =
               IF goesOn THEN [Bus!Call(e, e.next + 1) EXCEPT !.over = over]
               ELSE [e EXCEPT !.status = "done", !.over = over]]
      /\ IF goesOn \/ over = {} THEN UNCHANGED <<arrays, mapped>>
         ELSE /\ arrays' = Append(arrays, Bus!Without(arrays[e.array], over))
              /\ mapped' = Len(arrays) + 1
  BY DEF Bus!ListenerEnds, Bus!Remaining
<1>2. /\ f = IF goesOn THEN [Bus!Call(e, e.next + 1) EXCEPT !.over = over]
             ELSE [e EXCEPT !.status = "done", !.over = over]
      /\ emission' = [emission EXCEPT ![m] = emission'[m]]
  BY <1>1 DEF BusSound
<1>3. /\ arrays \in Seq(Seq(Listener)) /\ Len(arrays) \in Nat
      /\ ArraysSound(arrays, Known) /\ EmissionSound(e, arrays, Known)
      /\ e.array \in 1 .. Len(arrays) /\ e.called \in Seq(Listener) /\ e.called # <<>>
      /\ e.over = (Members(e.called) \ {LastOf(e.called)}) \cap OnceOnly
  BY <1>1 DEF BusSound, ArraysSound, EmissionSound, CallsSound, Emitted
<1>4. over = Members(e.called) \cap OnceOnly
  <2>1. LastOf(e.called) \in Members(e.called) /\ Bus!Last(e.called) = LastOf(e.called)
    <3>1. Len(e.called) \in DOMAIN e.called
      BY <1>3
    <3> QED
      BY <3>1 DEF Members, LastOf, Bus!Last
  <2> QED
    BY <1>3, <2>1
<1>5. Known' = Known
  BY <1>1 DEF Known
<1>6. ASSUME goesOn
      PROVE  /\ EmissionSound(f, arrays, Known) /\ f.status = "calling" /\ f.array = e.array
             /\ Members(e.called) \subseteq Members(f.called) /\ UNCHANGED <<arrays, mapped>>
  <2>1. f = Further(e, arrays[e.array], over)
    BY <1>2, <1>6 DEF Bus!Call, Further
  <2> HIDE DEF over, e, f
  <2> QED
    <3> DEFINE lists == arrays
               known == Known
    <3>1. MayGoOn(e, lists, known, f)
      BY <1>1, <1>3, <1>4, <1>6, <2>1 DEF MayGoOn
    <3>2. UNCHANGED <<arrays, mapped>>
      BY <1>1, <1>6
    <3> HIDE DEF lists, known
    <3>3. /\ EmissionSound(f, lists, known) /\ f.status = "calling" /\ f.array = e.array
          /\ Members(e.called) \subseteq Members(f.called)
      BY <3>1, CallsNext
    <3> QED
      BY <3>2, <3>3 DEF lists, known
<1>7. ASSUME ~goesOn
      PROVE  EmissionSound(f, arrays, Known) /\ f.status = "done" /\ f.called = e.called
  <2>1. f = [e EXCEPT !.status = "done", !.over = over]
    BY <1>2, <1>7
  <2> HIDE DEF over, e, f
  <2> QED
    BY <1>1, <1>3, <1>4, <1>7, <2>1, CallsEnd
<1>8. CASE goesOn \/ over = {}
  <2>1. BusSound'
    <3>1. EmissionSound(f, arrays, Known)
      BY <1>6, <1>7
    <3>2. UNCHANGED <<arrays, mapped>>
      BY <1>1, <1>8
    <3>3. emission' = [n \in Emission |-> emission'[n]]
          /\ \A n \in Emission : n # m => emission'[n] = emission[n]
      BY <1>2 DEF BusSound
    <3>4. \A n \in Emission : EmissionSound(emission'[n], arrays, Known)
      BY <3>1, <3>3 DEF BusSound
    <3> QED
      BY <1>1, <1>5, <3>2, <3>3, <3>4 DEF BusSound
  <2> QED
    BY <1>1, <1>2, <1>4, <1>6, <1>7, <1>8, <2>1
<1>9. CASE ~goesOn /\ over # {}
  <2> DEFINE A == arrays[e.array]
             rest == Bus!Without(A, over)
  <2>1. /\ A \in Seq(Listener) /\ Distinct(A) /\ Members(A) \subseteq Known
    BY <1>3 DEF ArraysSound
  <2>2. rest = Bus!Without(A, over)
    OBVIOUS
  <2> HIDE DEF A, rest, over
  <2>3. rest \in Seq(Listener) /\ Distinct(rest) /\ Members(rest) = Members(A) \ over
    BY <2>1, <2>2, ShorterList
  <2>4. arrays' = Append(arrays, rest) /\ mapped' = Len(arrays) + 1
    BY <1>1, <1>9 DEF rest, A
  <2>5. /\ arrays' \in Seq(Seq(Listener)) /\ Len(arrays') = Len(arrays) + 1
        /\ arrays'[Len(arrays) + 1] = rest /\ \A a \in 1 .. Len(arrays) : arrays'[a] = arrays[a]
    BY <1>3, <2>3, <2>4
  <2>6. ArraysSound(arrays', Known')
    <3>1. ASSUME NEW a \in 1 .. Len(arrays')
          PROVE  Distinct(arrays'[a]) /\ Members(arrays'[a]) \subseteq Known
      <4>1. CASE a = Len(arrays) + 1
        BY <2>1, <2>3, <2>5, <4>1
      <4>2. CASE a \in 1 .. Len(arrays)
        BY <1>3, <2>5, <4>2 DEF ArraysSound
      <4> QED
        BY <1>3, <2>5, <4>1, <4>2
    <3> QED
      BY <1>5, <2>5, <3>1 DEF ArraysSound
  <2>7. /\ emission' = [n \in Emission |-> emission'[n]]
        /\ \A n \in Emission : EmissionSound(emission'[n], arrays', Known')
    <3>1. emission' = [n \in Emission |-> emission'[n]]
          /\ \A n \in Emission : n # m => emission'[n] = emission[n]
      BY <1>2 DEF BusSound
    <3>2. ASSUME NEW n \in Emission
          PROVE  EmissionSound(emission'[n], arrays', Known')
      <4> DEFINE g == emission'[n]
                 lists == arrays
                 later == arrays'
                 known == Known
                 more == Known'
      <4>1. EmissionSound(g, lists, known)
        BY <1>7, <1>9, <3>1 DEF BusSound
      <4>2. /\ later \in Seq(Seq(Listener)) /\ lists \in Seq(Seq(Listener)) /\ known \subseteq more
            /\ Len(lists) <= Len(later)
        BY <1>3, <1>5, <2>5
      <4>3. \A a \in 1 .. Len(lists) :
              NotBack(lists[a], later[a], known) /\ Extended(lists[a], later[a])
        <5>1. \A a \in 1 .. Len(arrays) : arrays[a] \in Seq(Listener)
          BY <1>3
        <5> QED
          BY <2>5, <5>1, SameList
      <4> HIDE DEF g, lists, later, known, more
      <4>4. EmissionSound(g, later, more)
        BY <4>1, <4>2, <4>3, EmissionWaits
      <4> QED
        BY <4>4 DEF g, later, more
    <3> QED
      BY <3>1, <3>2
  <2>8. mapped' \in 0 .. Len(arrays') /\ mapped' # 0
    BY <1>3, <2>4, <2>5
  <2>9. BusSound'
    <3>1. /\ home' = [l \in Listener |-> home'[l]]
          /\ \A l \in Listener : home'[l] \in 0 .. Len(arrays')
      BY <1>1, <1>3, <2>5 DEF BusSound
    <3> QED
      BY <2>6, <2>7, <2>8, <3>1 DEF BusSound
  <2>10. Shown' = Members(A) \ over
    <3>1. Bus!Registered' = rest
      BY <2>4, <2>5, <2>8 DEF Bus!Registered
    <3> QED
      BY <2>3, <3>1 DEF Shown
  <2> QED
    BY <1>1, <1>2, <1>4, <1>7, <1>9, <2>8, <2>9, <2>10 DEF A
<1> QED
  BY <1>8, <1>9

Calling(m) == emission[m].status = "calling"
HadCall(l) == \E m \in Emission : l \in Members(emission[m].called)
Accounted(l) == l \in removed \/ l \in Shown \/ (l \in OnceOnly /\ HadCall(l))
Due(l) == HadCall(l) => \E m \in Emission : Calling(m) /\ l \in Members(emission[m].called)

\* While emissions are alone: the array in the map is the one that the emission
\* goes through, who registered is accounted for, and who wanted one call only
\* and had it is about to be taken out.
ListenersKept ==
    ~crossed =>
        /\ \A m \in Emission : Calling(m) => mapped # 0 /\ mapped = emission[m].array
        /\ \A m, n \in Emission : Calling(m) /\ Calling(n) => m = n
        /\ \A l \in Known : Accounted(l)
        /\ \A l \in Shown \cap OnceOnly : Due(l)

BusInv == BusSound /\ ListenersKept

LEMMA AddingKeeps ==
    ASSUME BusInv, NEW l \in Listener, Bus!AddListener(l)
    PROVE  BusInv'
<1>1. /\ BusSound' /\ mapped' # 0
      /\ Shown' = Shown \cup {l} /\ Known' = Known \cup {l} /\ l \notin Known
  BY ListenerIsAdded DEF BusInv
<1>2. UNCHANGED <<emission, removed, crossed>> /\ (mapped # 0 => mapped' = mapped)
  BY DEF Bus!AddListener
<1>3. ASSUME ~crossed
      PROVE  /\ \A m \in Emission : Calling(m) => mapped # 0 /\ mapped = emission[m].array
             /\ \A m, n \in Emission : Calling(m) /\ Calling(n) => m = n
             /\ \A k \in Known : Accounted(k)
             /\ \A k \in Shown \cap OnceOnly : Due(k)
  BY <1>3 DEF BusInv, ListenersKept
<1>4. ~HadCall(l)
  BY <1>1 DEF HadCall, BusInv, BusSound, EmissionSound, CallsSound
<1>5. \A k : HadCall(k)' <=> HadCall(k)
  BY <1>2 DEF HadCall
<1>6. \A m : Calling(m)' <=> Calling(m)
  BY <1>2 DEF Calling
<1>7. ASSUME ~crossed, NEW k \in Known'
      PROVE  Accounted(k)'
  BY <1>1, <1>2, <1>3, <1>5, <1>7 DEF Accounted
<1>8. ASSUME ~crossed, NEW k \in Shown' \cap OnceOnly
      PROVE  Due(k)'
  <2>1. CASE k = l
    BY <1>4, <1>5, <2>1 DEF Due
  <2>2. CASE k \in Shown \cap OnceOnly
    BY <1>2, <1>3, <1>5, <1>6, <1>8, <2>2 DEF Due
  <2> QED
    BY <1>1, <1>8, <2>1, <2>2
<1>9. ListenersKept'
  BY <1>1, <1>2, <1>3, <1>6, <1>7, <1>8 DEF ListenersKept
<1> QED
  BY <1>1, <1>9 DEF BusInv

\* A listener is taken out of an array, or the array out of the map.
LEMMA RemovingKeeps ==
    ASSUME BusInv, BusSound', NEW gone, removed' = removed \cup gone,
           Shown \ gone \subseteq Shown', Shown' \subseteq Shown, UNCHANGED home,
           emission' = [m \in Emission |-> [emission[m] EXCEPT !.undisturbed = FALSE]],
           ~crossed' => ~crossed /\ (UNCHANGED mapped \/ \A m \in Emission : ~Calling(m))
    PROVE  BusInv'
<1>1. ASSUME NEW m \in Emission
      PROVE  /\ emission'[m].status = emission[m].status
             /\ emission'[m].array = emission[m].array
             /\ emission'[m].called = emission[m].called
  BY DEF BusInv, BusSound, EmissionSound, CallsSound, Emitted
<1>2. Known' = Known
  BY DEF Known
<1>3. ASSUME NEW k
      PROVE  HadCall(k)' <=> HadCall(k)
  BY <1>1 DEF HadCall
<1>4. \A m \in Emission : Calling(m)' <=> Calling(m)
  BY <1>1 DEF Calling
<1>5. SUFFICES ASSUME ~crossed'
               PROVE  /\ \A m \in Emission : Calling(m)' => mapped' # 0 /\ mapped' = emission'[m].array
                      /\ \A m, n \in Emission : Calling(m)' /\ Calling(n)' => m = n
                      /\ \A k \in Known' : Accounted(k)'
                      /\ \A k \in Shown' \cap OnceOnly : Due(k)'
  BY DEF BusInv, ListenersKept
<1>6. /\ \A m \in Emission : Calling(m) => mapped # 0 /\ mapped = emission[m].array
      /\ \A m, n \in Emission : Calling(m) /\ Calling(n) => m = n
      /\ \A k \in Known : Accounted(k)
      /\ \A k \in Shown \cap OnceOnly : Due(k)
  BY <1>5 DEF BusInv, ListenersKept
<1>7. \A m \in Emission : Calling(m)' => mapped' # 0 /\ mapped' = emission'[m].array
  BY <1>1, <1>4, <1>5, <1>6
<1>8. ASSUME NEW k \in Known'
      PROVE  Accounted(k)'
  BY <1>2, <1>3, <1>6 DEF Accounted
<1>9. ASSUME NEW k \in Shown' \cap OnceOnly
      PROVE  Due(k)'
  <2>1. Due(k)
    BY <1>6
  <2> QED
    BY <1>1, <1>3, <1>4, <2>1 DEF Due
<1> QED
  BY <1>4, <1>6, <1>7, <1>8, <1>9

LEMMA EmittingKeeps ==
    ASSUME BusInv, NEW m \in Emission, Bus!Emit(m)
    PROVE  BusInv'
<1>1. /\ BusSound' /\ UNCHANGED <<arrays, mapped, home, removed>>
      /\ emission[m].status = "none"
      /\ emission' = [emission EXCEPT ![m] = emission'[m]]
      /\ \/ emission'[m].status = "done" /\ emission'[m].called = <<>>
         \/ emission'[m].status = "calling" /\ mapped # 0 /\ emission'[m].array = mapped
  BY EmitBegins DEF BusInv
<1>2. /\ Known' = Known /\ Shown' = Shown
  BY <1>1 DEF Known, Shown, Bus!Registered
<1>3. /\ \A n \in Emission : n # m => emission'[n] = emission[n]
      /\ emission[m].called = <<>> /\ Members(emission[m].called) = {}
  BY <1>1 DEF BusInv, BusSound, EmissionSound, CallsSound, Members
<1>4. SUFFICES ASSUME ~crossed'
               PROVE  /\ \A n \in Emission : Calling(n)' => mapped' # 0 /\ mapped' = emission'[n].array
                      /\ \A n, o \in Emission : Calling(n)' /\ Calling(o)' => n = o
                      /\ \A k \in Known' : Accounted(k)'
                      /\ \A k \in Shown' \cap OnceOnly : Due(k)'
  BY <1>1 DEF BusInv, ListenersKept
<1>5. ~crossed /\ \A n \in Emission : ~Calling(n)
  BY <1>4 DEF Bus!Emit, Bus!Emitting, Calling
<1>6. (\A k \in Known : Accounted(k)) /\ \A k \in Shown \cap OnceOnly : Due(k)
  BY <1>5 DEF BusInv, ListenersKept
<1>7. \A n \in Emission : Calling(n)' => n = m /\ mapped' # 0 /\ mapped' = emission'[n].array
  BY <1>1, <1>3, <1>5 DEF Calling
<1>8. ASSUME NEW k, HadCall(k)
      PROVE  HadCall(k)'
  BY <1>3, <1>8 DEF HadCall
<1>9. ASSUME NEW k \in Known'
      PROVE  Accounted(k)'
  BY <1>1, <1>2, <1>6, <1>8 DEF Accounted
<1>10. ASSUME NEW k \in Shown' \cap OnceOnly
       PROVE  Due(k)'
  <2>1. ~HadCall(k)
    BY <1>2, <1>5, <1>6 DEF Due
  <2>2. SUFFICES ASSUME HadCall(k)'
                 PROVE  \E n \in Emission : Calling(n)' /\ k \in Members(emission'[n].called)
    BY DEF Due
  <2>3. PICK n \in Emission : k \in Members(emission'[n].called)
    BY <2>2 DEF HadCall
  <2>4. n = m
    BY <1>3, <2>1, <2>3 DEF HadCall
  <2>5. emission'[m].called # <<>>
    BY <2>3, <2>4 DEF Members
  <2> QED
    BY <1>1, <2>3, <2>4, <2>5 DEF Calling
<1> QED
  BY <1>7, <1>9, <1>10

LEMMA ReturningKeeps ==
    ASSUME BusInv, NEW m \in Emission, Bus!ListenerEnds(m)
    PROVE  BusInv'
<1> DEFINE had == Members(emission[m].called)
<1>1. /\ BusSound' /\ UNCHANGED <<home, removed, crossed>>
      /\ emission[m].status = "calling"
      /\ emission' = [emission EXCEPT ![m] = emission'[m]]
      /\ had \subseteq Members(emission'[m].called)
      /\ \/ /\ emission'[m].status = "calling" /\ emission'[m].array = emission[m].array
            /\ UNCHANGED <<arrays, mapped>>
         \/ /\ emission'[m].status = "done" /\ emission'[m].called = emission[m].called
            /\ \/ UNCHANGED <<arrays, mapped>> /\ had \cap OnceOnly = {}
               \/ /\ mapped' # 0
                  /\ Shown' = Members(arrays[emission[m].array]) \ (had \cap OnceOnly)
  BY ListenerReturns DEF BusInv
<1>2. \A n \in Emission : n # m => emission'[n] = emission[n]
  BY <1>1 DEF BusInv, BusSound
<1>3. Known' = Known
  BY <1>1 DEF Known
<1>4. SUFFICES ASSUME ~crossed
               PROVE  /\ \A n \in Emission : Calling(n)' => mapped' # 0 /\ mapped' = emission'[n].array
                      /\ \A n, o \in Emission : Calling(n)' /\ Calling(o)' => n = o
                      /\ \A k \in Known' : Accounted(k)'
                      /\ \A k \in Shown' \cap OnceOnly : Due(k)'
  BY <1>1 DEF BusInv, ListenersKept
<1>5. /\ \A n \in Emission : Calling(n) <=> n = m
      /\ mapped # 0 /\ mapped = emission[m].array /\ Shown = Members(arrays[mapped])
      /\ \A k \in Known : Accounted(k)
      /\ \A k \in Shown \cap OnceOnly : Due(k)
  BY <1>1, <1>4 DEF BusInv, ListenersKept, Calling, Shown, Bus!Registered
<1>6. \A n \in Emission : Calling(n)' => n = m
  BY <1>2, <1>5 DEF Calling
<1>7. ASSUME NEW k, HadCall(k)
      PROVE  HadCall(k)'
  BY <1>1, <1>2, <1>7 DEF HadCall
<1>8. CASE emission'[m].status = "calling" /\ UNCHANGED <<arrays, mapped>>
  <2>1. Shown' = Shown
    BY <1>8 DEF Shown, Bus!Registered
  <2>2. \A n \in Emission : Calling(n)' => mapped' # 0 /\ mapped' = emission'[n].array
    BY <1>1, <1>5, <1>6, <1>8
  <2>3. ASSUME NEW k \in Known'
        PROVE  Accounted(k)'
    BY <1>1, <1>3, <1>5, <1>7, <2>1 DEF Accounted
  <2>4. ASSUME NEW k \in Shown' \cap OnceOnly
        PROVE  Due(k)'
    <3>1. SUFFICES ASSUME HadCall(k)'
                   PROVE  \E n \in Emission : Calling(n)' /\ k \in Members(emission'[n].called)
      BY DEF Due
    <3>2. PICK n \in Emission : k \in Members(emission'[n].called)
      BY <3>1 DEF HadCall
    <3>3. Calling(m)'
      BY <1>8 DEF Calling
    <3>4. CASE n = m
      BY <3>2, <3>3, <3>4
    <3>5. CASE n # m
      <4>1. HadCall(k) /\ k \in Shown \cap OnceOnly
        BY <1>2, <2>1, <3>2, <3>5 DEF HadCall
      <4>2. k \in had
        BY <1>5, <4>1 DEF Due
      <4> QED
        BY <1>1, <3>3, <4>2
    <3> QED
      BY <3>4, <3>5
  <2> QED
    BY <1>6, <2>2, <2>3, <2>4
<1>9. CASE emission'[m].status = "done"
  <2>1. /\ emission'[m].called = emission[m].called
        /\ Shown' = Shown \ (had \cap OnceOnly)
    <3>1. CASE UNCHANGED <<arrays, mapped>> /\ had \cap OnceOnly = {}
      BY <1>1, <1>9, <3>1 DEF Shown, Bus!Registered
    <3>2. CASE Shown' = Members(arrays[emission[m].array]) \ (had \cap OnceOnly)
      BY <1>1, <1>5, <1>9, <3>2
    <3> QED
      BY <1>1, <1>9, <3>1, <3>2
  <2>2. \A n \in Emission : ~Calling(n)'
    BY <1>6, <1>9 DEF Calling
  <2>3. ASSUME NEW k \in Known'
        PROVE  Accounted(k)'
    <3>1. Accounted(k)
      BY <1>3, <1>5
    <3>2. CASE k \in Shown \ Shown'
      <4>1. k \in OnceOnly /\ HadCall(k)
        BY <2>1, <3>2 DEF HadCall
      <4> QED
        BY <1>7, <4>1 DEF Accounted
    <3>3. CASE k \notin Shown \ Shown'
      BY <1>1, <1>7, <3>1, <3>3 DEF Accounted
    <3> QED
      BY <3>2, <3>3
  <2>4. ASSUME NEW k \in Shown' \cap OnceOnly
        PROVE  ~HadCall(k)'
    <3>1. HadCall(k)' => HadCall(k)
      BY <1>2, <2>1 DEF HadCall
    <3>2. HadCall(k) => k \in had
      BY <1>5, <2>1 DEF Due
    <3> QED
      BY <2>1, <3>1, <3>2
  <2> QED
    BY <2>2, <2>3, <2>4 DEF Due
<1> QED
  BY <1>1, <1>8, <1>9

LEMMA BusStep == BusInv /\ [Bus!BusNext]_(Bus!busVars) => BusInv'
<1> SUFFICES ASSUME BusInv, [Bus!BusNext]_(Bus!busVars)
             PROVE  BusInv'
  OBVIOUS
<1>1. CASE UNCHANGED Bus!busVars
  BY <1>1 DEF Bus!busVars, BusInv, BusSound, ListenersKept, Known, Shown, Bus!Registered,
              Calling, Accounted, Due, HadCall
<1>2. BusSound /\ home \in [Listener -> 0 .. Len(arrays)] /\ mapped \in 0 .. Len(arrays)
  BY DEF BusInv, BusSound
<1>3. ASSUME NEW l \in Listener, Bus!Unsubscribe(l) \/ Bus!Off(l)
      PROVE  BusInv'
  <2>1. PICK b \in 0 .. Len(arrays) : Bus!RemoveFrom(b, l)
    BY <1>2, <1>3 DEF Bus!Unsubscribe, Bus!Off
  <2>2. /\ removed' = removed \cup {l} /\ UNCHANGED <<mapped, home, crossed>>
        /\ emission' = [m \in Emission |-> [emission[m] EXCEPT !.undisturbed = FALSE]]
    BY <1>3 DEF Bus!Unsubscribe, Bus!Off, Bus!RemovalOf
  <2>3. BusSound' /\ Shown \ {l} \subseteq Shown' /\ Shown' \subseteq Shown
    BY <1>2, <2>1, <2>2, ListenerIsRemoved
  <2> QED
    BY <2>2, <2>3, RemovingKeeps
<1>4. ASSUME Bus!RemoveAllListeners
      PROVE  BusInv'
  <2>1. /\ removed' = removed \cup Shown /\ UNCHANGED <<arrays, home>> /\ mapped' = 0
        /\ emission' = [m \in Emission |-> [emission[m] EXCEPT !.undisturbed = FALSE]]
        /\ crossed' = (crossed \/ Bus!Emitting # {})
    BY <1>4 DEF Bus!RemoveAllListeners, Bus!RemovalOf, Shown, Members, Bus!ToSet
  <2>2. ~crossed' => ~crossed /\ \A m \in Emission : ~Calling(m)
    BY <2>1 DEF Bus!Emitting, Calling
  <2>3. Shown' = {}
    BY <2>1 DEF Shown, Bus!Registered, Members
  <2>4. Bus!RemoveFrom(0, {}) /\ Known' = Known
    BY <2>1 DEF Bus!RemoveFrom, Known
  <2>5. /\ emission' = [m \in Emission |-> emission'[m]]
        /\ \A m \in Emission : EmissionSound(emission'[m], arrays', Known')
    <3>1. /\ ArraysSound(arrays', Known') /\ Len(arrays) <= Len(arrays')
          /\ \A a \in 1 .. Len(arrays) : arrays[a] \in Seq(Listener)
      BY <1>2, <2>1, <2>4 DEF BusSound, ArraysSound
    <3>2. \A a \in 1 .. Len(arrays) : NotBack(arrays[a], arrays'[a], Known)
      BY <2>1, <3>1, SameList
    <3> QED
      BY <1>2, <2>1, <2>4, <3>1, <3>2, AllWait
  <2>6. BusSound'
    <3>1. mapped' \in 0 .. Len(arrays')
      BY <1>2, <2>1
    <3> QED
      BY <1>2, <2>1, <2>4, <2>5, <3>1 DEF BusSound
  <2> QED
    BY <2>1, <2>2, <2>3, <2>6, RemovingKeeps
<1> QED
  BY <1>1, <1>3, <1>4, AddingKeeps, EmittingKeeps, ReturningKeeps DEF Bus!BusNext

\* An emission calls nobody twice, and all that it found unless someone was
\* removed; and whoever registered goes on being called, once if it asked for
\* one call only, unless emissions overlap (EventBus: emit, off, _addListener).
THEOREM ListenersAreCalled ==
    Bus!BusInit /\ [][Bus!BusNext]_(Bus!busVars)
        => [](Bus!EmissionsAreComplete /\ Bus!ListenersStay)
<1>1. Bus!BusInit => BusInv
  <2> SUFFICES ASSUME Bus!BusInit PROVE BusInv
    OBVIOUS
  <2>1. /\ arrays = <<>> /\ mapped = 0 /\ home = [l \in Listener |-> 0]
        /\ emission = [m \in Emission |-> Bus!Unemitted]
    BY DEF Bus!BusInit
  <2>2. Known = {} /\ Shown = {}
    BY <2>1 DEF Known, Shown, Bus!Registered, Members
  <2>3. ArraysSound(arrays, Known)
    BY <2>1 DEF ArraysSound
  <2>4. EmissionSound(Bus!Unemitted, arrays, Known)
    <3>1. /\ Bus!Unemitted \in Emitted /\ Bus!Unemitted.status = "none"
          /\ Bus!Unemitted.called = <<>>
      BY DEF Emitted, Bus!Unemitted
    <3> QED
      BY <3>1 DEF EmissionSound, CallsSound, CallsInOrder, Distinct, Members
  <2>5. BusSound
    BY <2>1, <2>3, <2>4 DEF BusSound
  <2>6. ListenersKept
    BY <2>1, <2>2 DEF ListenersKept, Calling, Bus!Unemitted
  <2> QED
    BY <2>5, <2>6 DEF BusInv
<1>2. BusInv => Bus!EmissionsAreComplete
  <2> SUFFICES ASSUME BusInv, NEW m \in Emission
               PROVE  /\ Bus!IsInjective(emission[m].called)
                      /\ emission[m].status = "done" /\ emission[m].undisturbed =>
                           Bus!IsPrefix(emission[m].found, emission[m].called)
    BY DEF Bus!EmissionsAreComplete
  <2> DEFINE e == emission[m]
  <2>1. EmissionSound(e, arrays, Known)
    BY DEF BusInv, BusSound
  <2>2. e.called \in Seq(Listener) /\ e.found \in Seq(Listener) /\ Distinct(e.called)
    BY <2>1 DEF EmissionSound, CallsSound, Emitted
  <2>3. Bus!IsInjective(e.called)
    BY <2>2 DEF Distinct, Bus!IsInjective
  <2>4. ASSUME e.status = "done", e.undisturbed
        PROVE  Bus!IsPrefix(e.found, e.called)
    <3>1. Len(e.found) <= Len(e.called) /\ \A i \in 1 .. Len(e.found) : e.found[i] = e.called[i]
      BY <2>1, <2>4 DEF EmissionSound, CallsInOrder
    <3> DEFINE s == e.found
               t == e.called
    <3>2. s \in Seq(Listener) /\ t \in Seq(Listener) /\ Len(s) <= Len(t)
          /\ (\A i \in 1 .. Len(s) : s[i] = t[i])
      BY <2>2, <3>1
    <3> HIDE DEF s, t
    <3>3. SubSeq(s, 1, Len(s)) = SubSeq(t, 1, Len(s))
      BY <3>2
    <3>4. Bus!IsPrefix(s, t)
      BY <3>2, <3>3 DEF Bus!IsPrefix
    <3> QED
      BY <3>4 DEF s, t
  <2> QED
    BY <2>3, <2>4
<1>3. BusInv => Bus!ListenersStay
  <2> SUFFICES ASSUME BusInv, ~crossed
               PROVE  LET hadCall == UNION {Bus!ToSet(emission[m].called) : m \in Emission} IN
                      /\ \A l \in Listener : home[l] # 0 =>
                            \/ l \in removed
                            \/ l \in OnceOnly \cap hadCall
                            \/ l \in Bus!ToSet(Bus!Registered)
                      /\ Bus!Emitting = {} =>
                            Bus!ToSet(Bus!Registered) \cap OnceOnly \cap hadCall = {}
    BY DEF Bus!ListenersStay
  <2> DEFINE hadCall == UNION {Bus!ToSet(emission[m].called) : m \in Emission}
  <2>1. \A s : Bus!ToSet(s) = Members(s)
    BY DEF Bus!ToSet, Members
  <2>2. \A l : l \in hadCall <=> HadCall(l)
    BY <2>1 DEF HadCall
  <2>3. Shown = Bus!ToSet(Bus!Registered)
    BY <2>1 DEF Shown
  <2>4. (\A l \in Known : Accounted(l)) /\ \A l \in Shown \cap OnceOnly : Due(l)
    BY DEF BusInv, ListenersKept
  <2> HIDE DEF hadCall
  <2>5. \A l \in Listener : home[l] # 0 =>
           l \in removed \/ l \in OnceOnly \cap hadCall \/ l \in Bus!ToSet(Bus!Registered)
    BY <2>2, <2>3, <2>4 DEF Known, Accounted
  <2>6. ASSUME Bus!Emitting = {}
        PROVE  Bus!ToSet(Bus!Registered) \cap OnceOnly \cap hadCall = {}
    <3>1. \A m \in Emission : ~Calling(m)
      BY <2>6 DEF Bus!Emitting, Calling
    <3> QED
      BY <2>2, <2>3, <2>4, <3>1 DEF Due
  <2> QED
    BY <2>5, <2>6 DEF hadCall
<1> QED
  BY <1>1, <1>2, <1>3, BusStep, PTL

-----------------------------------------------------------------------------
(* The cache of the storage manager.  What a call will write is computed   *)
(* when it begins, from the manifest it read: whatever the others do until *)
(* then, it is a list that fits, so the file is either torn or one.  A call *)
(* that is alone knows the files besides: what it will write names those   *)
(* that are there, but for its own key's.                                  *)
(*                                                                         *)
(* The total of a list is a recursive function, so facts about it need an  *)
(* induction: a set of numbers that is not empty has a least element       *)
(* (Least), hence a set that has 0 and with i always i + 1 has all         *)
(* (Counting).                                                             *)

USE StorageAssumption DEF StorageAssumption

LEMMA Least ==
    ASSUME NEW n \in Nat, NEW S \in SUBSET (0 .. n), S # {}
    PROVE  \E i \in S : \A j \in S : i <= j
<1> DEFINE T == {1 .. i : i \in S}
<1>1. \A i \in S : 1 .. i \in SUBSET Nat /\ IsFiniteSet(1 .. i)
  BY FS_Interval
<1>2. T # {} /\ T \subseteq FiniteSubsetsOf(Nat)
  BY <1>1 DEF FiniteSubsetsOf
<1> HIDE DEF T
<1>3. \E X \in T : \A Y \in T : <<Y, X>> \notin StrictSubsetOrdering(Nat)
  BY <1>2, WFMin, FS_StrictSubsetOrderingWellFounded
<1>4. PICK i \in S : \A j \in S : <<1 .. j, 1 .. i>> \notin StrictSubsetOrdering(Nat)
  BY <1>3 DEF T
<1>5. ASSUME NEW j \in S, j < i
      PROVE  FALSE
  <2>1. i \in Nat /\ j \in Nat /\ i >= 1
    BY <1>5
  <2>2. 1 .. j \subseteq 1 .. i /\ i \in 1 .. i /\ i \notin 1 .. j
    BY <1>5, <2>1
  <2>3. 1 .. j \in SUBSET Nat /\ 1 .. i \in SUBSET Nat /\ 1 .. j # 1 .. i
    BY <2>1, <2>2
  <2>4. <<1 .. j, 1 .. i>> \in StrictSubsetOrdering(Nat)
    BY <2>2, <2>3, Zenon DEF StrictSubsetOrdering
  <2> QED
    BY <1>4, <2>4
<1> QED
  BY <1>5

\* Counting up to n by steps of one.
LEMMA Counting ==
    ASSUME NEW n \in Nat, NEW S, 0 \in S, \A i \in 0 .. n - 1 : i \in S => i + 1 \in S
    PROVE  \A i \in 0 .. n : i \in S
<1> DEFINE Bad == (0 .. n) \ S
<1>1. SUFFICES ASSUME Bad # {} PROVE FALSE
  OBVIOUS
<1>2. PICK i \in Bad : \A j \in Bad : i <= j
  BY <1>1, Least
<1>3. i \in 0 .. n /\ i # 0 /\ i - 1 \in 0 .. n - 1
  BY <1>2
<1>4. i - 1 \in S
  BY <1>2, <1>3
<1>5. (i - 1) + 1 \in S
  BY <1>3, <1>4
<1> QED
  BY <1>2, <1>3, <1>5

\* s[i] is the sum of the first i sizes.
IsSum(s, e) ==
    /\ s \in [0 .. Len(e) -> Int]
    /\ s[0] = 0
    /\ \A i \in 1 .. Len(e) : s[i] = s[i - 1] + Size[e[i]]

LEMMA SumExists ==
    ASSUME NEW e \in Seq(Key)
    PROVE  \E s : IsSum(s, e)
<1> DEFINE Sums(s, i) == /\ s \in [0 .. i -> Int] /\ s[0] = 0
                         /\ \A j \in 1 .. i : s[j] = s[j - 1] + Size[e[j]]
           S == {i \in 0 .. Len(e) : \E s : Sums(s, i)}
<1>1. Len(e) \in Nat /\ \A i \in 1 .. Len(e) : e[i] \in Key
  OBVIOUS
<1>2. 0 \in S
  <2>1. Sums([j \in 0 .. 0 |-> 0], 0)
    OBVIOUS
  <2> HIDE DEF Sums
  <2> QED
    BY <1>1, <2>1
<1>3. ASSUME NEW i \in 0 .. Len(e) - 1, i \in S
      PROVE  i + 1 \in S
  <2>1. PICK s : Sums(s, i)
    BY <1>3
  <2> DEFINE t == [j \in 0 .. i + 1 |-> IF j = i + 1 THEN s[i] + Size[e[j]] ELSE s[j]]
  <2>2. Sums(t, i + 1)
    <3>1. i + 1 \in 1 .. Len(e) /\ i \in Nat /\ Size[e[i + 1]] \in Int
      BY <1>1
    <3>2. \A j \in 0 .. i : j # i + 1 /\ j \in 0 .. i + 1 /\ t[j] = s[j] /\ s[j] \in Int
      BY <2>1, <3>1
    <3>3. t[i + 1] = s[i] + Size[e[i + 1]] /\ t[i] = s[i]
      BY <3>1
    <3>4. t \in [0 .. i + 1 -> Int]
      BY <2>1, <3>1
    <3>5. ASSUME NEW j \in 1 .. i + 1
          PROVE  t[j] = t[j - 1] + Size[e[j]]
      <4>1. CASE j = i + 1
        BY <3>1, <3>3, <4>1
      <4>2. CASE j # i + 1
        <5>1. j \in 1 .. i /\ j \in 0 .. i /\ j - 1 \in 0 .. i
          BY <3>1, <4>2
        <5> QED
          BY <2>1, <3>2, <5>1
      <4> QED
        BY <4>1, <4>2
    <3>6. t[0] = 0
      BY <2>1, <3>1, <3>2
    <3> QED
      BY <3>4, <3>5, <3>6
  <2>3. i + 1 \in 0 .. Len(e)
    BY <1>1
  <2> HIDE DEF Sums, t
  <2> QED
    BY <2>2, <2>3
<1> HIDE DEF S
<1>4. Len(e) \in S
  <2>1. \A i \in 0 .. Len(e) : i \in S
    BY <1>1, <1>2, <1>3, Counting
  <2> QED
    BY <1>1, <2>1
<1> QED
  BY <1>4 DEF S, IsSum

\* Two functions that add up the same sizes are equal.
LEMMA SumIsOne ==
    ASSUME NEW e \in Seq(Key), NEW s, NEW t, IsSum(s, e), t[0] = 0,
           \A i \in 1 .. Len(e) : t[i] = t[i - 1] + Size[e[i]]
    PROVE  \A i \in 0 .. Len(e) : s[i] = t[i]
<1> DEFINE S == {i \in 0 .. Len(e) : s[i] = t[i]}
<1>1. Len(e) \in Nat
  OBVIOUS
<1>2. 0 \in S
  BY <1>1 DEF IsSum
<1>3. ASSUME NEW i \in 0 .. Len(e) - 1, i \in S
      PROVE  i + 1 \in S
  <2>1. i + 1 \in 1 .. Len(e) /\ i + 1 \in 0 .. Len(e) /\ (i + 1) - 1 = i
    BY <1>1
  <2>2. s[i + 1] = s[i] + Size[e[i + 1]] /\ t[i + 1] = t[i] + Size[e[i + 1]]
    BY <2>1 DEF IsSum
  <2> QED
    BY <1>3, <2>1, <2>2
<1> HIDE DEF S
<1>4. \A i \in 0 .. Len(e) : i \in S
  BY <1>1, <1>2, <1>3, Counting
<1> QED
  BY <1>4 DEF S

LEMMA TotalIs ==
    ASSUME NEW e \in Seq(Key), NEW s, IsSum(s, e)
    PROVE  Sto!Total(e) = s[Len(e)]
<1> DEFINE Adds(t) == t = [i \in 0 .. Len(e) |->
                             IF i = 0 THEN 0 ELSE t[i - 1] + Size[e[i]]]
           c == CHOOSE t : Adds(t)
<1>1. Len(e) \in Nat
  OBVIOUS
<1>2. Adds(s)
  <2>1. s = [i \in 0 .. Len(e) |-> s[i]]
    BY DEF IsSum
  <2>2. \A i \in 0 .. Len(e) : s[i] = IF i = 0 THEN 0 ELSE s[i - 1] + Size[e[i]]
    BY <1>1 DEF IsSum
  <2> HIDE DEF IsSum
  <2> QED
    BY <2>1, <2>2
<1>3. Adds(c)
  BY <1>2
<1>4. Sto!Total(e) = c[Len(e)]
  BY DEF Sto!Total
<1> HIDE DEF c
<1>5. c[0] = 0 /\ \A i \in 1 .. Len(e) : c[i] = c[i - 1] + Size[e[i]]
  <2>1. \A i \in 0 .. Len(e) : c[i] = IF i = 0 THEN 0 ELSE c[i - 1] + Size[e[i]]
    BY <1>3
  <2> QED
    BY <1>1, <2>1
<1>6. \A i \in 0 .. Len(e) : s[i] = c[i]
  BY <1>5, SumIsOne
<1> QED
  BY <1>1, <1>4, <1>6

LEMMA TotalOfNone == Sto!Total(<<>>) = 0
<1>1. <<>> \in Seq(Key) /\ Len(<<>>) = 0
  OBVIOUS
<1>2. IsSum([i \in 0 .. 0 |-> 0], <<>>)
  BY <1>1 DEF IsSum
<1>3. Sto!Total(<<>>) = [i \in 0 .. 0 |-> 0][Len(<<>>)]
  BY <1>1, <1>2, TotalIs
<1> QED
  BY <1>1, <1>3

LEMMA TotalOfAppend ==
    ASSUME NEW e \in Seq(Key), NEW k \in Key
    PROVE  Sto!Total(Append(e, k)) = Sto!Total(e) + Size[k] /\ Sto!Total(e) \in Int
<1> DEFINE n == Len(e)
<1>1. PICK s : IsSum(s, e)
  BY SumExists
<1>2. Sto!Total(e) = s[n] /\ s[n] \in Int /\ n \in Nat
  BY <1>1, TotalIs DEF IsSum
<1>3. /\ Append(e, k) \in Seq(Key) /\ Len(Append(e, k)) = n + 1
      /\ Append(e, k)[n + 1] = k /\ \A i \in 1 .. n : Append(e, k)[i] = e[i]
  OBVIOUS
<1> DEFINE t == [i \in 0 .. n + 1 |-> IF i = n + 1 THEN s[n] + Size[k] ELSE s[i]]
<1>4. IsSum(t, Append(e, k))
  <2>1. t[n + 1] = s[n] + Size[k] /\ \A i \in 0 .. n : t[i] = s[i] /\ s[i] \in Int
    <3>1. n + 1 \in 0 .. n + 1 /\ \A i \in 0 .. n : i \in 0 .. n + 1 /\ i # n + 1
      BY <1>2
    <3>2. \A i \in 0 .. n : s[i] \in Int
      BY <1>1 DEF IsSum
    <3> QED
      BY <3>1, <3>2
  <2>2. t \in [0 .. n + 1 -> Int]
    BY <1>1, <1>2 DEF IsSum
  <2>3. ASSUME NEW i \in 1 .. n + 1
        PROVE  t[i] = t[i - 1] + Size[Append(e, k)[i]]
    <3>1. CASE i = n + 1
      BY <1>2, <1>3, <2>1, <3>1
    <3>2. CASE i # n + 1
      <4>1. i \in 1 .. n /\ i \in 0 .. n /\ i - 1 \in 0 .. n
        BY <1>2, <3>2
      <4> QED
        BY <1>1, <1>3, <2>1, <4>1 DEF IsSum
    <3> QED
      BY <3>1, <3>2
  <2>4. t[0] = 0
    BY <1>1, <1>2, <2>1 DEF IsSum
  <2> HIDE DEF t
  <2> QED
    BY <1>3, <2>2, <2>3, <2>4 DEF IsSum
<1>5. Sto!Total(Append(e, k)) = t[n + 1]
  BY <1>3, <1>4, TotalIs
<1> QED
  BY <1>2, <1>5

\* e without its element at p.
LEMMA TotalWithout ==
    ASSUME NEW e \in Seq(Key), NEW p \in 1 .. Len(e), NEW d,
           d = [n \in 1 .. Len(e) - 1 |-> e[IF n < p THEN n ELSE n + 1]]
    PROVE  /\ d \in Seq(Key) /\ Len(d) = Len(e) - 1
           /\ Sto!Total(d) = Sto!Total(e) - Size[e[p]]
<1> DEFINE n == Len(e)
<1>1. n \in Nat /\ n - 1 \in Nat /\ p \in Nat /\ \A i \in 1 .. n : e[i] \in Key /\ Size[e[i]] \in Int
  OBVIOUS
<1>2. d \in Seq(Key) /\ Len(d) = n - 1
  BY <1>1
<1>3. PICK s : IsSum(s, e)
  BY SumExists
<1>4. s \in [0 .. n -> Int] /\ s[0] = 0 /\ \A i \in 1 .. n : s[i] = s[i - 1] + Size[e[i]]
  BY <1>3 DEF IsSum
<1> DEFINE t == [i \in 0 .. n - 1 |-> IF i < p THEN s[i] ELSE s[i + 1] - Size[e[p]]]
<1>5. IsSum(t, d)
  <2>1. t \in [0 .. n - 1 -> Int]
    BY <1>1, <1>4
  <2>2. t[0] = 0
    BY <1>1, <1>4
  <2>3. ASSUME NEW i \in 1 .. n - 1
        PROVE  t[i] = t[i - 1] + Size[d[i]]
    <3>1. i \in 1 .. n /\ i + 1 \in 1 .. n /\ i - 1 \in 0 .. n - 1 /\ i \in 0 .. n - 1
          /\ i \in 0 .. n /\ i - 1 \in 0 .. n /\ i + 1 \in 0 .. n /\ i \in Int
      BY <1>1
    <3>2. s[i] = s[i - 1] + Size[e[i]] /\ s[i + 1] = s[i] + Size[e[i + 1]]
      BY <1>4, <3>1
    <3>3. /\ t[i] = IF i < p THEN s[i] ELSE s[i + 1] - Size[e[p]]
          /\ t[i - 1] = IF i - 1 < p THEN s[i - 1] ELSE s[i] - Size[e[p]]
          /\ d[i] = e[IF i < p THEN i ELSE i + 1]
      BY <3>1
    <3>4. /\ s[i - 1] \in Int /\ s[i] \in Int /\ s[i + 1] \in Int
          /\ Size[e[i]] \in Int /\ Size[e[i + 1]] \in Int /\ Size[e[p]] \in Int
      BY <1>1, <1>4, <3>1
    <3> HIDE DEF t, n
    <3>5. CASE i < p
      BY <1>1, <3>1, <3>2, <3>3, <3>5
    <3>6. CASE i = p
      BY <1>1, <3>1, <3>2, <3>3, <3>4, <3>6
    <3>7. CASE i > p
      BY <1>1, <3>1, <3>2, <3>3, <3>4, <3>7
    <3> QED
      BY <1>1, <3>1, <3>5, <3>6, <3>7
  <2> HIDE DEF t
  <2> QED
    BY <1>2, <2>1, <2>2, <2>3 DEF IsSum
<1>6. Sto!Total(d) = t[n - 1] /\ Sto!Total(e) = s[n]
  BY <1>2, <1>3, <1>5, TotalIs
<1>7. t[n - 1] = s[n] - Size[e[p]]
  <2>1. CASE n - 1 < p
    <3>1. p = n /\ n \in 1 .. n /\ n - 1 \in 0 .. n - 1
      BY <1>1, <2>1
    <3>2. t[n - 1] = s[n - 1] /\ s[n] = s[n - 1] + Size[e[p]] /\ s[n - 1] \in Int
      <4>1. n - 1 < p /\ n - 1 \in 0 .. n
        BY <1>1, <3>1
      <4>2. t[n - 1] = s[n - 1]
        BY <3>1, <4>1
      <4>3. s[n - 1] \in Int
        BY <1>4, <4>1
      <4>4. s[n] = s[n - 1] + Size[e[n]]
        BY <1>4, <3>1
      <4> QED
        BY <3>1, <4>2, <4>3, <4>4
    <3> HIDE DEF t, n
    <3> QED
      BY <1>1, <3>1, <3>2
  <2>2. CASE n - 1 >= p
    BY <1>1, <2>2
  <2> QED
    BY <1>1, <2>1, <2>2
<1> QED
  BY <1>2, <1>6, <1>7

LEMMA DropFacts ==
    ASSUME NEW e \in Seq(Key), Distinct(e), NEW k \in Key, NEW d, d = Sto!Drop(e, k)
    PROVE  /\ d \in Seq(Key) /\ Distinct(d) /\ Members(d) = Members(e) \ {k}
           /\ k \in Members(e) => /\ Len(d) = Len(e) - 1
                                  /\ Sto!Total(d) = Sto!Total(e) - Size[k]
           /\ k \notin Members(e) => d = e
<1>1. Sto!Has(e, k) <=> k \in Members(e)
  BY DEF Sto!Has, Members
<1>2. CASE k \notin Members(e)
  <2>1. d = e
    BY <1>1, <1>2 DEF Sto!Drop
  <2> QED
    BY <1>2, <2>1
<1>3. CASE k \in Members(e)
  <2> DEFINE p == CHOOSE i \in DOMAIN e : e[i] = k
  <2>1. p \in 1 .. Len(e) /\ e[p] = k
    BY <1>3 DEF Members
  <2>2. d = [n \in 1 .. Len(e) - 1 |-> e[IF n < p THEN n ELSE n + 1]]
    BY <1>1, <1>3 DEF Sto!Drop
  <2> HIDE DEF p
  <2>3. d \in Seq(Key) /\ Len(d) = Len(e) - 1 /\ Sto!Total(d) = Sto!Total(e) - Size[k]
    BY <2>1, <2>2, TotalWithout
  <2>4. Len(e) \in Nat /\ DOMAIN e = 1 .. Len(e) /\ DOMAIN d = 1 .. Len(e) - 1
    BY <2>3
  <2>5. \A n \in 1 .. Len(e) - 1 :
          \E i \in 1 .. Len(e) : d[n] = e[i] /\ i # p /\ i = (IF n < p THEN n ELSE n + 1)
    BY <2>1, <2>2, <2>4
  <2>6. Distinct(d)
    <3> SUFFICES ASSUME NEW m \in 1 .. Len(e) - 1, NEW n \in 1 .. Len(e) - 1, d[m] = d[n]
                 PROVE  m = n
      BY <2>3 DEF Distinct
    <3>1. PICK i \in 1 .. Len(e) : d[m] = e[i] /\ i = (IF m < p THEN m ELSE m + 1)
      BY <2>5
    <3>2. PICK j \in 1 .. Len(e) : d[n] = e[j] /\ j = (IF n < p THEN n ELSE n + 1)
      BY <2>5
    <3>3. i = j
      BY <3>1, <3>2 DEF Distinct
    <3> QED
      BY <2>1, <2>4, <3>1, <3>2, <3>3
  <2>7. \A x \in Members(d) : x \in Members(e) /\ x # k
    <3> SUFFICES ASSUME NEW n \in 1 .. Len(e) - 1
                 PROVE  d[n] \in Members(e) /\ d[n] # k
      BY <2>4 DEF Members
    <3>1. PICK i \in 1 .. Len(e) : d[n] = e[i] /\ i # p
      BY <2>5
    <3> QED
      BY <2>1, <2>4, <3>1 DEF Members, Distinct
  <2>8. ASSUME NEW i \in 1 .. Len(e), e[i] # k
        PROVE  e[i] \in Members(d)
    <3>1. i # p /\ i \in Nat /\ p \in Nat
      BY <2>1, <2>8
    <3>2. CASE i < p
      <4>1. i \in 1 .. Len(e) - 1 /\ d[i] = e[i]
        BY <2>1, <2>2, <2>4, <3>2
      <4> QED
        BY <2>4, <4>1 DEF Members
    <3>3. CASE i > p
      <4>1. i - 1 \in 1 .. Len(e) - 1 /\ ~(i - 1 < p) /\ (i - 1) + 1 = i
        BY <2>1, <2>4, <3>1, <3>3
      <4>2. d[i - 1] = e[i]
        BY <2>2, <4>1
      <4> QED
        BY <2>4, <4>1, <4>2 DEF Members
    <3> QED
      BY <3>1, <3>2, <3>3
  <2>9. Members(d) = Members(e) \ {k}
    BY <2>4, <2>7, <2>8 DEF Members
  <2> QED
    BY <1>3, <2>3, <2>6, <2>9
<1> QED
  BY <1>2, <1>3

LEMMA AppendFacts ==
    ASSUME NEW e \in Seq(Key), Distinct(e), NEW k \in Key, k \notin Members(e)
    PROVE  /\ Append(e, k) \in Seq(Key) /\ Len(Append(e, k)) = Len(e) + 1
           /\ Distinct(Append(e, k)) /\ Members(Append(e, k)) = Members(e) \cup {k}
           /\ Append(e, k)[Len(e) + 1] = k
<1>1. /\ Append(e, k) \in Seq(Key) /\ Len(Append(e, k)) = Len(e) + 1
      /\ Append(e, k)[Len(e) + 1] = k /\ \A i \in 1 .. Len(e) : Append(e, k)[i] = e[i]
      /\ DOMAIN e = 1 .. Len(e) /\ DOMAIN Append(e, k) = 1 .. Len(e) + 1 /\ Len(e) \in Nat
  OBVIOUS
<1>2. \A i \in 1 .. Len(e) : e[i] # k
  BY <1>1 DEF Members
<1>3. Distinct(Append(e, k))
  <2> SUFFICES ASSUME NEW i \in 1 .. Len(e) + 1, NEW j \in 1 .. Len(e) + 1,
                      Append(e, k)[i] = Append(e, k)[j]
               PROVE  i = j
    BY <1>1 DEF Distinct
  <2>1. /\ i = Len(e) + 1 \/ i \in 1 .. Len(e)
        /\ j = Len(e) + 1 \/ j \in 1 .. Len(e)
    BY <1>1
  <2> QED
    BY <1>1, <1>2, <2>1 DEF Distinct
<1>4. Members(Append(e, k)) \subseteq Members(e) \cup {k}
  <2> SUFFICES ASSUME NEW i \in 1 .. Len(e) + 1
               PROVE  Append(e, k)[i] \in Members(e) \cup {k}
    BY <1>1 DEF Members
  <2>1. i = Len(e) + 1 \/ i \in 1 .. Len(e)
    BY <1>1
  <2> QED
    BY <1>1, <2>1 DEF Members
<1>5. \A i \in 1 .. Len(e) : i \in 1 .. Len(e) + 1 /\ Append(e, k)[i] = e[i]
  BY <1>1
<1>6. Members(e) \subseteq Members(Append(e, k))
  BY <1>1, <1>5 DEF Members
<1>7. k \in Members(Append(e, k))
  BY <1>1 DEF Members
<1> QED
  BY <1>1, <1>3, <1>4, <1>6, <1>7

\* What stays when the first i entries go.
LEMMA SuffixFacts ==
    ASSUME NEW e \in Seq(Key), Distinct(e), NEW i \in 0 .. Len(e), NEW d,
           d = SubSeq(e, i + 1, Len(e))
    PROVE  /\ d \in Seq(Key) /\ Len(d) = Len(e) - i /\ Distinct(d)
           /\ Members(d) \subseteq Members(e)
           /\ i < Len(e) => e[Len(e)] \in Members(d)
<1>1. Len(e) \in Nat /\ i \in Nat /\ DOMAIN e = 1 .. Len(e)
  OBVIOUS
<1>2. /\ d \in Seq(Key) /\ Len(d) = Len(e) - i
      /\ \A j \in 1 .. Len(e) - i : d[j] = e[i + j] /\ i + j \in 1 .. Len(e)
  <2>1. d \in Seq(Key) /\ Len(d) = Len(e) - i
    <3>1. i + 1 \in Int /\ Len(e) \in Int /\ \A j \in i + 1 .. Len(e) : e[j] \in Key
      BY <1>1
    <3>2. /\ d \in Seq(Key)
          /\ Len(d) = IF i + 1 <= Len(e) THEN Len(e) - (i + 1) + 1 ELSE 0
      BY <3>1, SubSeqProperties
    <3> DEFINE l == Len(d)
               n == Len(e)
    <3>3. l = (IF i + 1 <= n THEN n - (i + 1) + 1 ELSE 0) /\ n \in Nat /\ i \in 0 .. n
      BY <1>1, <3>2
    <3> HIDE DEF l, n
    <3>4. l = n - i
      BY <3>3
    <3> QED
      BY <3>2, <3>4 DEF l, n
  <2>2. ASSUME NEW j \in 1 .. Len(e) - i
        PROVE  d[j] = e[i + j] /\ i + j \in 1 .. Len(e)
    <3>1. d[j] = e[(i + 1) + j - 1] /\ (i + 1) + j - 1 = i + j /\ i + j \in 1 .. Len(e)
      BY <1>1
    <3> QED
      BY <3>1
  <2> QED
    BY <2>1, <2>2
<1>3. DOMAIN d = 1 .. Len(e) - i
  BY <1>2
<1>4. Distinct(d)
  <2> SUFFICES ASSUME NEW m \in 1 .. Len(e) - i, NEW n \in 1 .. Len(e) - i, d[m] = d[n]
               PROVE  m = n
    BY <1>2 DEF Distinct
  <2>1. i + m = i + n
    BY <1>2 DEF Distinct
  <2> QED
    BY <1>1, <2>1
<1>5. Members(d) \subseteq Members(e)
  BY <1>1, <1>2, <1>3 DEF Members
<1>6. ASSUME i < Len(e)
      PROVE  e[Len(e)] \in Members(d)
  <2>1. Len(e) - i \in 1 .. Len(e) - i /\ i + (Len(e) - i) = Len(e)
    BY <1>1, <1>6
  <2>2. d[Len(e) - i] = e[Len(e)]
    BY <1>2, <2>1
  <2> QED
    BY <1>3, <2>1, <2>2 DEF Members
<1> QED
  BY <1>2, <1>4, <1>5, <1>6

\* The first entries go until the rest fits; all of them only if the last
\* alone does not fit.
LEMMA BySizeFacts ==
    ASSUME NEW e \in Seq(Key), Distinct(e), NEW d, d = Sto!BySize(e)
    PROVE  /\ d \in Seq(Key) /\ Len(d) <= Len(e) /\ Distinct(d)
           /\ Members(d) \subseteq Members(e) /\ Sto!Total(d) <= MaxSize
           /\ Len(e) > 0 => \/ e[Len(e)] \in Members(d)
                            \/ Size[e[Len(e)]] > MaxSize
<1> DEFINE fits == {i \in 0 .. Len(e) : Sto!Total(SubSeq(e, i + 1, Len(e))) <= MaxSize}
           least == CHOOSE i \in fits : \A j \in fits : i <= j
<1>1. Len(e) \in Nat
  OBVIOUS
<1>2. d = SubSeq(e, least + 1, Len(e))
  BY DEF Sto!BySize
<1>3. Len(e) \in fits
  <2>1. SubSeq(e, Len(e) + 1, Len(e)) = <<>>
    BY <1>1
  <2>2. Sto!Total(SubSeq(e, Len(e) + 1, Len(e))) = 0
    BY <2>1, TotalOfNone, Zenon
  <2> QED
    BY <1>1, <2>2
<1>4. \E i \in fits : \A j \in fits : i <= j
  <2>1. fits \in SUBSET (0 .. Len(e)) /\ fits # {}
    BY <1>3
  <2> HIDE DEF fits
  <2> QED
    BY <1>1, <2>1, Least
<1>5. least \in fits /\ \A j \in fits : least <= j
  BY <1>4
<1>6. least \in 0 .. Len(e) /\ Sto!Total(d) <= MaxSize
  BY <1>2, <1>5
<1> HIDE DEF least
<1>7. /\ d \in Seq(Key) /\ Len(d) = Len(e) - least /\ Distinct(d)
      /\ Members(d) \subseteq Members(e)
      /\ least < Len(e) => e[Len(e)] \in Members(d)
  BY <1>2, <1>6, SuffixFacts
<1>8. ASSUME Len(e) > 0, ~(least < Len(e))
      PROVE  Size[e[Len(e)]] > MaxSize
  <2>1. least = Len(e) /\ Len(e) - 1 \in 0 .. Len(e) /\ e[Len(e)] \in Key
    BY <1>1, <1>6, <1>8
  <2>2. Len(e) - 1 \notin fits
    <3> HIDE DEF fits
    <3> QED
      BY <1>1, <1>5, <2>1
  <2>3. SubSeq(e, (Len(e) - 1) + 1, Len(e)) = Append(<<>>, e[Len(e)])
    <3> DEFINE f == SubSeq(e, (Len(e) - 1) + 1, Len(e))
               g == Append(<<>>, e[Len(e)])
    <3>1. (Len(e) - 1) + 1 = Len(e) /\ Len(e) \in 1 .. Len(e)
      BY <1>1, <1>8
    <3>2. f \in Seq(Key) /\ Len(f) = 1 /\ f[1] = e[Len(e)]
      BY <1>1, <3>1
    <3>3. g \in Seq(Key) /\ Len(g) = 1 /\ g[1] = e[Len(e)]
      BY <2>1
    <3> HIDE DEF f, g
    <3>4. \A i \in 1 .. Len(f) : f[i] = g[i]
      BY <3>2, <3>3
    <3>5. f = g
      BY <3>2, <3>3, <3>4, SeqEqual
    <3> QED
      BY <3>5 DEF f, g
  <2>4. /\ Sto!Total(Append(<<>>, e[Len(e)])) = Sto!Total(<<>>) + Size[e[Len(e)]]
        /\ Sto!Total(<<>>) = 0
    <3>1. <<>> \in Seq(Key)
      OBVIOUS
    <3> QED
      BY <2>1, <3>1, TotalOfAppend, TotalOfNone
  <2>5. ~(Sto!Total(SubSeq(e, (Len(e) - 1) + 1, Len(e))) <= MaxSize)
    BY <2>1, <2>2
  <2> HIDE DEF fits
  <2>6. ~(0 + Size[e[Len(e)]] <= MaxSize)
    BY <2>3, <2>4, <2>5
  <2> QED
    BY <2>1, <2>6
<1> QED
  BY <1>1, <1>6, <1>7, <1>8

\* What a manifest may list.
Fits(e) ==
    /\ e \in Seq(Key) /\ Distinct(e)
    /\ Len(e) <= MaxEntries
    /\ Sto!Total(e) <= MaxSize

LEMMA NothingFits == Fits(<<>>) /\ Members(<<>>) = {}
<1>1. <<>> \in Seq(Key) /\ Len(<<>>) = 0 /\ DOMAIN <<>> = {}
  OBVIOUS
<1> QED
  BY <1>1, TotalOfNone DEF Fits, Distinct, Members

\* What cacheSet will write: at most what was there and the new key, which is
\* left out only if it would not fit alone.
LEMMA SetFacts ==
    ASSUME NEW e, Fits(e), NEW k \in Key, NEW d,
           d = Sto!BySize(Sto!ByCount(Append(Sto!Drop(e, k), k)))
    PROVE  /\ Fits(d) /\ Members(d) \subseteq Members(e) \cup {k}
           /\ k \in Members(d) \/ Size[k] > MaxSize
<1> DEFINE rest == Sto!Drop(e, k)
           all == Append(rest, k)
           some == Sto!ByCount(all)
<1>1. rest \in Seq(Key) /\ Distinct(rest) /\ Members(rest) = Members(e) \ {k}
  BY DropFacts DEF Fits
<1> HIDE DEF rest
<1>2. /\ all \in Seq(Key) /\ Len(all) = Len(rest) + 1 /\ Distinct(all)
      /\ Members(all) = Members(e) \cup {k} /\ all[Len(all)] = k
  BY <1>1, AppendFacts
<1> HIDE DEF all
<1>3. /\ some \in Seq(Key) /\ Distinct(some) /\ Members(some) \subseteq Members(all)
      /\ Len(some) <= MaxEntries /\ Len(some) > 0 /\ some[Len(some)] = k
  <2>1. Len(all) \in Nat /\ Len(all) > 0
    BY <1>1, <1>2
  <2>2. CASE Len(all) > MaxEntries
    <3> DEFINE i == Len(all) - MaxEntries
    <3>1. i \in 0 .. Len(all) /\ i < Len(all) /\ i + 1 = Len(all) - MaxEntries + 1
      BY <2>1, <2>2
    <3>2. some = SubSeq(all, i + 1, Len(all))
      BY <2>2 DEF Sto!ByCount
    <3>3. /\ some \in Seq(Key) /\ Len(some) = Len(all) - i /\ Distinct(some)
          /\ Members(some) \subseteq Members(all)
      BY <1>2, <3>1, <3>2, SuffixFacts
    <3>4. Len(some) = MaxEntries
      BY <2>1, <3>3
    <3>5. some[Len(some)] = all[Len(all)]
      <4>1. /\ i + 1 \in Int /\ Len(all) \in Int /\ \A j \in i + 1 .. Len(all) : all[j] \in Key
        BY <1>2, <2>1, <3>1
      <4>2. \A j \in 1 .. Len(all) - (i + 1) + 1 :
               SubSeq(all, i + 1, Len(all))[j] = all[(i + 1) + j - 1]
        <5> HIDE DEF i
        <5> QED
          BY <4>1, SubSeqProperties
      <4>3. Len(some) \in 1 .. Len(all) - (i + 1) + 1 /\ (i + 1) + Len(some) - 1 = Len(all)
        BY <2>1, <3>1, <3>4
      <4> QED
        BY <3>2, <4>2, <4>3
    <3> QED
      BY <1>2, <3>3, <3>4, <3>5
  <2>3. CASE ~(Len(all) > MaxEntries)
    <3>1. some = all
      BY <2>3 DEF Sto!ByCount
    <3> QED
      BY <1>2, <2>1, <2>3, <3>1
  <2> QED
    BY <2>2, <2>3
<1>4. d = Sto!BySize(some)
  BY DEF all, rest
<1> HIDE DEF some
<1>5. /\ d \in Seq(Key) /\ Len(d) <= Len(some) /\ Distinct(d)
      /\ Members(d) \subseteq Members(some) /\ Sto!Total(d) <= MaxSize
      /\ Len(some) > 0 => \/ some[Len(some)] \in Members(d)
                          \/ Size[some[Len(some)]] > MaxSize
  BY <1>3, <1>4, BySizeFacts
<1>6. Len(d) <= MaxEntries
  BY <1>3, <1>5
<1> QED
  BY <1>2, <1>3, <1>5, <1>6 DEF Fits

\* What cacheTouch and cacheEvict will write.
LEMMA TouchFacts ==
    ASSUME NEW e, Fits(e), NEW k \in Key, k \in Members(e), NEW d, NEW a,
           d = Sto!Drop(e, k), a = Append(d, k)
    PROVE  /\ Fits(d) /\ Members(d) = Members(e) \ {k}
           /\ Fits(a) /\ Members(a) = Members(e)
<1>1. /\ d \in Seq(Key) /\ Distinct(d) /\ Members(d) = Members(e) \ {k}
      /\ Len(d) = Len(e) - 1 /\ Sto!Total(d) = Sto!Total(e) - Size[k]
  BY DropFacts DEF Fits
<1>2. /\ a \in Seq(Key) /\ Len(a) = Len(d) + 1 /\ Distinct(a)
      /\ Members(a) = Members(d) \cup {k}
  BY <1>1, AppendFacts
<1>3. Sto!Total(a) = Sto!Total(d) + Size[k] /\ Sto!Total(d) \in Int
  BY <1>1, TotalOfAppend
<1>4. Sto!Total(e) \in Int
  BY TotalOfAppend DEF Fits
<1>5. Sto!Total(d) <= MaxSize /\ Sto!Total(a) <= MaxSize
  <2> DEFINE td == Sto!Total(d)
             te == Sto!Total(e)
             ta == Sto!Total(a)
  <2>1. td = te - Size[k] /\ ta = td + Size[k] /\ te <= MaxSize /\ te \in Int
        /\ Size[k] \in Nat
    BY <1>1, <1>3, <1>4 DEF Fits
  <2> HIDE DEF td, te, ta
  <2>2. td <= MaxSize /\ ta <= MaxSize
    BY <2>1
  <2> QED
    BY <2>2 DEF td, ta
<1>6. Len(d) <= MaxEntries /\ Len(a) <= MaxEntries
  BY <1>1, <1>2 DEF Fits
<1> QED
  BY <1>1, <1>2, <1>5, <1>6 DEF Fits

Readable == Sto!Readable
Idle == Sto!Quiet
OfSet == {"evict", "save set", "write set", "store"}
Places == OfSet \cup {"save", "write"}

CallerSound(c) ==
    /\ c = [at |-> c.at, key |-> c.key, entries |-> c.entries, gone |-> c.gone]
    /\ c # Idle => /\ c.at \in Places /\ c.key \in Key /\ Fits(c.entries)
                   /\ c.at \in OfSet => c.key \in Members(c.entries) \/ Size[c.key] > MaxSize

\* A list, without some of its keys, has its files, and a file that is not of
\* the list is of an entry that would not fit.
Kept(list, without, there) ==
    /\ Members(list) \ without \subseteq there
    /\ \A k \in there \ Members(list) : Size[k] > MaxSize

\* A caller that is alone.
CallKept(c, there, list) ==
    /\ c.at = "evict" => Kept(c.entries, {c.key}, there \ c.gone)
    /\ c.at \in {"save set", "write set", "store"} => Kept(c.entries, {c.key}, there)
    /\ c.at \in {"save", "write"} => Kept(c.entries, {}, there)
    /\ c.at = "store" => list = c.entries

StorageTyped ==
    /\ raced \in BOOLEAN
    /\ manifest = Sto!Torn \/ Fits(manifest)
    /\ caller = [u \in User |-> caller[u]]
    /\ \A u \in User : CallerSound(caller[u])
    /\ onDisk \subseteq Key

StorageKept ==
    ~raced =>
        /\ \A u, v \in User : caller[u] # Idle /\ caller[v] # Idle => u = v
        /\ \A u \in User : caller[u] # Idle => CallKept(caller[u], onDisk, manifest)
        /\ (\A u \in User : caller[u] = Idle) => Kept(Readable, {}, onDisk)

StorageInv == StorageTyped /\ StorageKept

LEMMA TornDoesNotFit == ~Fits(Sto!Torn)
<1>1. Sto!Torn \notin Seq(Key)
  <2>1. 1 \in DOMAIN Sto!Torn /\ Sto!Torn[1] = "torn"
    BY DEF Sto!Torn
  <2>2. ASSUME Sto!Torn \in Seq(Key)
        PROVE  Sto!Torn[1] \in Key
    BY <2>1, <2>2
  <2> QED
    BY <2>1, <2>2
<1> QED
  BY <1>1 DEF Fits

LEMMA ReadableFits == StorageTyped => Fits(Readable)
  BY NothingFits DEF Readable, Sto!Readable, StorageTyped

LEMMA KeysAre == \A e : Sto!Keys(e) = Members(e)
  BY DEF Sto!Keys, Members

LEMMA ReadableNext == Readable' = (IF manifest' = Sto!Torn THEN <<>> ELSE manifest')
  BY DEF Readable, Sto!Readable

\* A call that begins with what it will write.
LEMMA StartKeeps ==
    ASSUME StorageInv, NEW u \in User, NEW k \in Key, NEW place \in Places, NEW list,
           Fits(list), Sto!Starts(u, place, k, list),
           place \in OfSet => k \in Members(list) \/ Size[k] > MaxSize,
           UNCHANGED manifest, onDisk' \subseteq Key,
           Kept(Readable, {}, onDisk) =>
               CallKept([at |-> place, key |-> k, entries |-> list,
                         gone |-> (Members(Readable) \cup {k}) \ Members(list)],
                        onDisk', manifest)
    PROVE  StorageInv'
<1> DEFINE c == [at |-> place, key |-> k, entries |-> list,
                 gone |-> (Members(Readable) \cup {k}) \ Members(list)]
<1>1. /\ caller[u] = Idle /\ caller' = [caller EXCEPT ![u] = c]
      /\ raced' = (raced \/ \E o \in User \ {u} : caller[o] # Idle)
  BY KeysAre DEF Sto!Starts, Sto!Overlap, Idle, Readable
<1>2. caller'[u] = c /\ \A v \in User \ {u} : caller'[v] = caller[v]
  BY <1>1 DEF StorageInv, StorageTyped
<1>3. c # Idle /\ CallerSound(c)
  <2>1. c.at # Idle.at
    BY DEF Idle, Sto!Quiet, Places, OfSet
  <2>2. /\ c.at = place /\ c.key = k /\ c.entries = list
        /\ c = [at |-> c.at, key |-> c.key, entries |-> c.entries, gone |-> c.gone]
    OBVIOUS
  <2> HIDE DEF c
  <2> QED
    BY <2>1, <2>2 DEF CallerSound
<1> HIDE DEF c
<1>4. StorageTyped'
  BY <1>1, <1>2, <1>3 DEF StorageInv, StorageTyped
<1>5. StorageKept'
  <2> SUFFICES ASSUME ~raced'
               PROVE  /\ \A v, w \in User : caller'[v] # Idle /\ caller'[w] # Idle => v = w
                      /\ \A v \in User : caller'[v] # Idle => CallKept(caller'[v], onDisk', manifest')
                      /\ \E v \in User : caller'[v] # Idle
    BY DEF StorageKept, Idle, Sto!Quiet
  <2>1. ~raced /\ \A v \in User : caller[v] = Idle
    BY <1>1 DEF StorageInv, StorageTyped
  <2>2. Kept(Readable, {}, onDisk)
    BY <2>1 DEF StorageInv, StorageKept
  <2>3. CallKept(c, onDisk', manifest')
    BY <2>2 DEF c
  <2> QED
    BY <1>2, <1>3, <2>1, <2>3
<1> QED
  BY <1>4, <1>5 DEF StorageInv

\* The steps of a call.
LEMMA SetKeeps ==
    ASSUME StorageInv, NEW u \in User, NEW k \in Key, Sto!CacheSet(u, k)
    PROVE  StorageInv'
<1> DEFINE list == Sto!BySize(Sto!ByCount(Append(Sto!Drop(Readable, k), k)))
<1>1. Sto!Starts(u, "evict", k, list) /\ UNCHANGED <<manifest, onDisk>>
  BY DEF Sto!CacheSet, Readable
<1>2. Fits(Readable)
  BY ReadableFits DEF StorageInv
<1>3. /\ Fits(list) /\ Members(list) \subseteq Members(Readable) \cup {k}
      /\ k \in Members(list) \/ Size[k] > MaxSize
  BY <1>2, SetFacts
<1> HIDE DEF list
<1>4. onDisk' \subseteq Key
  BY <1>1 DEF StorageInv, StorageTyped
<1>5. ASSUME Kept(Readable, {}, onDisk)
      PROVE  CallKept([at |-> "evict", key |-> k, entries |-> list,
                       gone |-> (Members(Readable) \cup {k}) \ Members(list)],
                      onDisk', manifest)
  BY <1>1, <1>3, <1>5 DEF CallKept, Kept
<1> QED
  BY <1>1, <1>3, <1>4, <1>5, StartKeeps DEF Places, OfSet

LEMMA TouchKeeps ==
    ASSUME StorageInv, NEW u \in User, NEW k \in Key,
           Sto!CacheTouch(u, k) \/ Sto!CacheEvict(u, k)
    PROVE  StorageInv'
<1> DEFINE rest == Sto!Drop(Readable, k)
           all == Append(rest, k)
<1>1. Fits(Readable) /\ k \in Members(Readable)
  BY ReadableFits
  DEF StorageInv, Sto!CacheTouch, Sto!CacheEvict, Sto!Has, Members, Readable
<1>2. /\ Fits(rest) /\ Members(rest) = Members(Readable) \ {k}
      /\ Fits(all) /\ Members(all) = Members(Readable)
  BY <1>1, TouchFacts
<1>3. CASE Sto!CacheTouch(u, k)
  <2>1. Sto!Starts(u, "save", k, all) /\ UNCHANGED <<manifest, onDisk>>
    BY <1>3 DEF Sto!CacheTouch, Readable
  <2> HIDE DEF all, rest
  <2>2. onDisk' \subseteq Key
    BY <2>1 DEF StorageInv, StorageTyped
  <2>3. ASSUME Kept(Readable, {}, onDisk)
        PROVE  CallKept([at |-> "save", key |-> k, entries |-> all,
                         gone |-> (Members(Readable) \cup {k}) \ Members(all)],
                        onDisk', manifest)
    BY <1>2, <2>1, <2>3 DEF CallKept, Kept
  <2> QED
    BY <1>2, <2>1, <2>2, <2>3, StartKeeps DEF Places, OfSet
<1>4. CASE Sto!CacheEvict(u, k)
  <2>1. Sto!Starts(u, "save", k, rest) /\ onDisk' = onDisk \ {k} /\ UNCHANGED manifest
    BY <1>4 DEF Sto!CacheEvict, Readable
  <2> HIDE DEF all, rest
  <2>2. onDisk' \subseteq Key
    BY <2>1 DEF StorageInv, StorageTyped
  <2>3. ASSUME Kept(Readable, {}, onDisk)
        PROVE  CallKept([at |-> "save", key |-> k, entries |-> rest,
                         gone |-> (Members(Readable) \cup {k}) \ Members(rest)],
                        onDisk', manifest)
    BY <1>2, <2>1, <2>3 DEF CallKept, Kept
  <2> QED
    BY <1>2, <2>1, <2>2, <2>3, StartKeeps DEF Places, OfSet
<1> QED
  BY <1>3, <1>4

LEMMA IdleIsNoPlace == Idle.at \notin Places
  BY DEF Idle, Sto!Quiet, Places, OfSet

LEMMA PlaceIs ==
    ASSUME NEW c, CallerSound(c), NEW place
    PROVE  [c EXCEPT !.at = place] =
               [at |-> place, key |-> c.key, entries |-> c.entries, gone |-> c.gone]
<1>1. c = [at |-> c.at, key |-> c.key, entries |-> c.entries, gone |-> c.gone]
  BY DEF CallerSound
<1> QED
  BY <1>1

\* A call that goes on.
LEMMA MoveKeeps ==
    ASSUME StorageInv, NEW u \in User, caller[u] # Idle, NEW place \in Places,
           place \in OfSet => caller[u].at \in OfSet,
           Sto!Moves(u, place), onDisk' \subseteq onDisk,
           manifest' \in {manifest, Sto!Torn, caller[u].entries},
           CallKept(caller[u], onDisk, manifest) =>
               CallKept([caller[u] EXCEPT !.at = place], onDisk', manifest')
    PROVE  StorageInv'
<1> DEFINE c == [caller[u] EXCEPT !.at = place]
<1>1. /\ caller' = [caller EXCEPT ![u] = c] /\ UNCHANGED raced
  BY DEF Sto!Moves
<1>2. caller'[u] = c /\ \A v \in User \ {u} : caller'[v] = caller[v]
  BY <1>1 DEF StorageInv, StorageTyped
<1>3. CallerSound(caller[u])
  BY DEF StorageInv, StorageTyped
<1>4. c # Idle /\ CallerSound(c)
  <2>1. c = [at |-> place, key |-> caller[u].key, entries |-> caller[u].entries,
             gone |-> caller[u].gone]
    BY <1>3 DEF CallerSound
  <2>2. c.at # Idle.at
    BY <2>1 DEF Idle, Sto!Quiet, Places, OfSet
  <2> HIDE DEF c
  <2> QED
    BY <1>3, <2>1, <2>2 DEF CallerSound
<1> HIDE DEF c
<1>5. StorageTyped'
  BY <1>1, <1>2, <1>3, <1>4 DEF StorageInv, StorageTyped, CallerSound
<1>6. StorageKept'
  <2> SUFFICES ASSUME ~raced'
               PROVE  /\ \A v, w \in User : caller'[v] # Idle /\ caller'[w] # Idle => v = w
                      /\ \A v \in User : caller'[v] # Idle => CallKept(caller'[v], onDisk', manifest')
                      /\ \E v \in User : caller'[v] # Idle
    BY DEF StorageKept, Idle, Sto!Quiet
  <2>1. /\ \A v, w \in User : caller[v] # Idle /\ caller[w] # Idle => v = w
        /\ CallKept(caller[u], onDisk, manifest)
    BY <1>1 DEF StorageInv, StorageKept
  <2>2. CallKept(c, onDisk', manifest')
    BY <2>1 DEF c
  <2> QED
    BY <1>2, <1>4, <2>1, <2>2
<1> QED
  BY <1>5, <1>6 DEF StorageInv

\* A call that returns.
LEMMA ReturnKeeps ==
    ASSUME StorageInv, NEW u \in User, caller[u] # Idle,
           caller' = [caller EXCEPT ![u] = Idle], UNCHANGED raced, onDisk' \subseteq Key,
           manifest' \in {manifest, caller[u].entries},
           ~raced /\ CallKept(caller[u], onDisk, manifest) =>
               manifest' = caller[u].entries /\ Kept(caller[u].entries, {}, onDisk')
    PROVE  StorageInv'
<1>1. caller'[u] = Idle /\ \A v \in User \ {u} : caller'[v] = caller[v]
  BY DEF StorageInv, StorageTyped
<1>2. CallerSound(caller[u]) /\ Fits(caller[u].entries)
  BY DEF StorageInv, StorageTyped, CallerSound
<1>3. CallerSound(Idle)
  BY DEF CallerSound, Idle, Sto!Quiet
<1>4. StorageTyped'
  BY <1>1, <1>2, <1>3 DEF StorageInv, StorageTyped
<1>5. StorageKept'
  <2> SUFFICES ASSUME ~raced
               PROVE  /\ \A v \in User : caller'[v] = Idle
                      /\ Kept(Readable', {}, onDisk')
    BY <1>1 DEF StorageKept, Idle, Sto!Quiet
  <2>1. /\ \A v, w \in User : caller[v] # Idle /\ caller[w] # Idle => v = w
        /\ CallKept(caller[u], onDisk, manifest)
    BY DEF StorageInv, StorageKept
  <2>2. Readable' = caller[u].entries
    <3>1. manifest' = caller[u].entries
      BY <2>1
    <3>2. Fits(manifest') => Readable' = manifest'
      BY ReadableNext, TornDoesNotFit
    <3> QED
      BY <1>2, <3>1, <3>2
  <2> QED
    BY <1>1, <2>1, <2>2
<1> QED
  BY <1>4, <1>5 DEF StorageInv

LEMMA StorageStep ==
    ASSUME StorageInv, [Sto!StorageNext]_(Sto!storageVars)
    PROVE  StorageInv'
<1>1. ASSUME NEW u \in User, NEW k \in Key,
             Sto!CacheSet(u, k) \/ Sto!CacheTouch(u, k) \/ Sto!CacheEvict(u, k)
      PROVE  StorageInv'
  BY <1>1, SetKeeps, TouchKeeps
<1>2. ASSUME NEW u \in User, Sto!Evict(u)
      PROVE  StorageInv'
  <2>1. /\ caller[u].at = "evict" /\ onDisk' = onDisk \ caller[u].gone
        /\ Sto!Moves(u, "save set") /\ UNCHANGED manifest
    BY <1>2 DEF Sto!Evict
  <2>2. caller[u] # Idle
    BY <2>1, IdleIsNoPlace DEF Places, OfSet
  <2>3. CallKept(caller[u], onDisk, manifest) =>
           CallKept([caller[u] EXCEPT !.at = "save set"], onDisk', manifest')
    <3>1. CallerSound(caller[u])
      BY DEF StorageInv, StorageTyped
    <3>2. [caller[u] EXCEPT !.at = "save set"] =
             [at |-> "save set", key |-> caller[u].key, entries |-> caller[u].entries,
              gone |-> caller[u].gone]
      BY <3>1, PlaceIs
    <3> QED
      BY <2>1, <3>2 DEF CallKept
  <2> QED
    BY <2>1, <2>2, <2>3, MoveKeeps DEF Places, OfSet
<1>3. ASSUME NEW u \in User, Sto!Truncate(u)
      PROVE  StorageInv'
  <2> DEFINE place == IF caller[u].at = "save" THEN "write" ELSE "write set"
  <2>1. /\ caller[u].at \in {"save", "save set"} /\ manifest' = Sto!Torn
        /\ Sto!Moves(u, place) /\ UNCHANGED onDisk
    BY <1>3 DEF Sto!Truncate
  <2>2. caller[u] # Idle
    BY <2>1, IdleIsNoPlace DEF Places, OfSet
  <2>3. CallKept(caller[u], onDisk, manifest) =>
           CallKept([caller[u] EXCEPT !.at = place], onDisk', manifest')
    <3>1. CallerSound(caller[u])
      BY DEF StorageInv, StorageTyped
    <3>2. [caller[u] EXCEPT !.at = place] =
             [at |-> place, key |-> caller[u].key, entries |-> caller[u].entries,
              gone |-> caller[u].gone]
      BY <3>1, PlaceIs
    <3> QED
      BY <2>1, <3>2 DEF CallKept
  <2>4. place \in Places /\ (place \in OfSet => caller[u].at \in OfSet)
    BY <2>1 DEF Places, OfSet
  <2> HIDE DEF place
  <2> QED
    BY <2>1, <2>2, <2>3, <2>4, MoveKeeps
<1>4. ASSUME NEW u \in User, Sto!WriteManifest(u)
      PROVE  StorageInv'
  <2>1. /\ caller[u].at \in {"write", "write set"} /\ manifest' = caller[u].entries
        /\ UNCHANGED onDisk
    BY <1>4 DEF Sto!WriteManifest
  <2>2. caller[u] # Idle /\ CallerSound(caller[u])
    BY <2>1, IdleIsNoPlace DEF Places, OfSet, StorageInv, StorageTyped
  <2>3. CASE caller[u].at = "write"
    <3>1. caller' = [caller EXCEPT ![u] = Idle] /\ UNCHANGED raced
      BY <1>4, <2>3 DEF Sto!WriteManifest, Idle
    <3>2. CallKept(caller[u], onDisk, manifest) => Kept(caller[u].entries, {}, onDisk')
      BY <2>1, <2>3 DEF CallKept
    <3>3. onDisk' \subseteq Key
      BY <2>1 DEF StorageInv, StorageTyped
    <3> QED
      BY <2>1, <2>2, <3>1, <3>2, <3>3, ReturnKeeps
  <2>4. CASE caller[u].at # "write"
    <3>1. Sto!Moves(u, "store") /\ caller[u].at = "write set"
      BY <1>4, <2>1, <2>4 DEF Sto!WriteManifest
    <3>2. [caller[u] EXCEPT !.at = "store"] =
             [at |-> "store", key |-> caller[u].key, entries |-> caller[u].entries,
              gone |-> caller[u].gone]
      BY <2>2, PlaceIs
    <3>3. CallKept(caller[u], onDisk, manifest) =>
             CallKept([caller[u] EXCEPT !.at = "store"], onDisk', manifest')
      BY <2>1, <3>1, <3>2 DEF CallKept
    <3> QED
      BY <2>1, <2>2, <3>1, <3>3, MoveKeeps DEF Places, OfSet
  <2> QED
    BY <2>3, <2>4
<1>5. ASSUME NEW u \in User, Sto!WriteEntry(u)
      PROVE  StorageInv'
  <2>1. /\ caller[u].at = "store" /\ caller' = [caller EXCEPT ![u] = Idle]
        /\ UNCHANGED <<manifest, raced>>
        /\ onDisk' = onDisk \cup {caller[u].key} \/ (raced /\ UNCHANGED onDisk)
    BY <1>5 DEF Sto!WriteEntry, Idle
  <2>2. caller[u] # Idle /\ CallerSound(caller[u])
    BY <2>1, IdleIsNoPlace DEF Places, OfSet, StorageInv, StorageTyped
  <2>3. /\ caller[u].key \in Key
        /\ caller[u].key \in Members(caller[u].entries) \/ Size[caller[u].key] > MaxSize
    BY <2>1, <2>2 DEF CallerSound, OfSet
  <2>4. onDisk' \subseteq Key
    BY <2>1, <2>3 DEF StorageInv, StorageTyped
  <2>5. ~raced /\ CallKept(caller[u], onDisk, manifest) =>
           manifest' = caller[u].entries /\ Kept(caller[u].entries, {}, onDisk')
    BY <2>1, <2>3 DEF CallKept, Kept
  <2> QED
    BY <2>1, <2>2, <2>4, <2>5, ReturnKeeps
<1>6. CASE Sto!CacheClear
  <2>1. /\ manifest' = <<>> /\ onDisk' = {} /\ UNCHANGED caller
        /\ raced' = (raced \/ \E u \in User : caller[u] # Idle)
    BY <1>6 DEF Sto!CacheClear, Idle
  <2>2. StorageTyped'
    BY <2>1, NothingFits DEF StorageInv, StorageTyped
  <2>3. Readable' = <<>>
    BY <2>1, ReadableNext
  <2>4. StorageKept'
    BY <2>1, <2>3, NothingFits DEF StorageInv, StorageTyped, StorageKept, Kept
  <2> QED
    BY <2>2, <2>4 DEF StorageInv
<1>7. CASE Sto!StorageCrash
  <2>1. /\ raced' = TRUE /\ caller' = [u \in User |-> Idle] /\ UNCHANGED <<manifest, onDisk>>
    BY <1>7 DEF Sto!StorageCrash, Idle
  <2>2. CallerSound(Idle)
    BY DEF CallerSound, Idle, Sto!Quiet
  <2> QED
    BY <2>1, <2>2 DEF StorageInv, StorageTyped, StorageKept
<1>8. CASE UNCHANGED Sto!storageVars
  BY <1>8 DEF StorageInv, StorageTyped, StorageKept, CallerSound, CallKept, Kept, Fits,
     Readable, Sto!Readable, Sto!storageVars
<1> QED
  BY <1>1, <1>2, <1>3, <1>4, <1>5, <1>6, <1>7, <1>8 DEF Sto!StorageNext

\* The manifest of the storage keeps both limits and lists a key once, however
\* calls overlap and whatever a crash cuts off; and after calls that followed
\* one another it lists the files that are there, but for entries that are
\* larger than the cache (cacheSet, cacheGet, cacheEvict, cacheClear).
THEOREM LimitsAreKept ==
    Sto!StorageInit /\ [][Sto!StorageNext]_(Sto!storageVars) => []Sto!CacheWithinLimits
<1>1. Sto!StorageInit => StorageInv
  <2> SUFFICES ASSUME Sto!StorageInit PROVE StorageInv
    OBVIOUS
  <2>1. /\ manifest = <<>> /\ onDisk = {} /\ raced = FALSE /\ caller = [u \in User |-> Idle]
    BY DEF Sto!StorageInit, Idle
  <2>2. CallerSound(Idle)
    BY DEF CallerSound, Idle, Sto!Quiet
  <2>3. Readable = <<>>
    BY <2>1 DEF Readable, Sto!Readable
  <2> QED
    BY <2>1, <2>2, <2>3, NothingFits
    DEF StorageInv, StorageTyped, StorageKept, Kept
<1>2. StorageInv => Sto!CacheWithinLimits
  <2> SUFFICES ASSUME StorageInv PROVE Sto!CacheWithinLimits
    OBVIOUS
  <2>1. Fits(Readable)
    BY ReadableFits DEF StorageInv
  <2>2. Cardinality(Members(Readable)) = Len(Readable)
    <3> DEFINE list == Readable
    <3>1. list \in Seq(Key) /\ Distinct(list)
      BY <2>1 DEF Fits
    <3> HIDE DEF list
    <3>2. Cardinality(Members(list)) = Len(list)
      <4>1. Len(list) \in Nat /\ DOMAIN list = 1 .. Len(list)
        BY <3>1
      <4>2. list \in Bijection(1 .. Len(list), Members(list))
        <5>1. list \in [1 .. Len(list) -> Members(list)]
          BY <3>1, <4>1 DEF Members
        <5> QED
          BY <3>1, <4>1, <5>1
          DEF Distinct, Members, Bijection, Injection, Surjection, IsInjective
      <4>3. IsFiniteSet(1 .. Len(list)) /\ Cardinality(1 .. Len(list)) = Len(list)
        BY <4>1, FS_Interval
      <4>4. ExistsBijection(1 .. Len(list), Members(list))
        BY <4>2 DEF ExistsBijection
      <4> QED
        BY <4>3, <4>4, FS_Bijection
    <3> QED
      BY <3>2 DEF list
  <2>3. ~raced /\ (\A u \in User : caller[u] = Idle) => Kept(Readable, {}, onDisk)
    BY DEF StorageInv, StorageKept
  <2> QED
    BY <2>1, <2>2, <2>3, KeysAre
    DEF Sto!CacheWithinLimits, Fits, Kept, Readable, Idle, Sto!Cardinality, Cardinality
<1>3. StorageInv /\ [Sto!StorageNext]_(Sto!storageVars) => StorageInv'
  BY StorageStep
<1> QED
  BY <1>1, <1>2, <1>3, PTL

-----------------------------------------------------------------------------
(* The services together: whatever the others do, a service takes its own  *)
(* steps only.                                                             *)

LEMMA EachStartsAlone ==
    ServicesInit =>
        /\ Life!LifecycleInit /\ Net!NetworkInit /\ Rt!RuntimeInit /\ Src!SourcesInit
        /\ Lock!LockInit /\ Wiz!WizardInit /\ Mkt!MarketInit
        /\ Bus!BusInit /\ Sto!StorageInit
  BY DEF ServicesInit

LEMMA EachStepsAlone ==
    [ServicesNext]_servicesVars =>
        /\ [Life!LifecycleNext]_(Life!lifecycleVars)
        /\ [Net!NetworkNext]_(Net!networkVars)
        /\ [Rt!RuntimeNext]_(Rt!runtimeVars)
        /\ [Src!SourcesNext]_(Src!sourceVars)
        /\ [Lock!LockNext]_(Lock!lockVars)
        /\ [Wiz!WizardNext]_(Wiz!wizardVars)
        /\ [Mkt!MarketNext]_(Mkt!marketVars)
        /\ [Bus!BusNext]_(Bus!busVars)
        /\ [Sto!StorageNext]_(Sto!storageVars)
<1> SUFFICES ASSUME [ServicesNext]_servicesVars
             PROVE  /\ Life!LifecycleNext \/ UNCHANGED Life!lifecycleVars
                    /\ Net!NetworkNext \/ UNCHANGED Net!networkVars
                    /\ Rt!RuntimeNext \/ UNCHANGED Rt!runtimeVars
                    /\ Src!SourcesNext \/ UNCHANGED Src!sourceVars
                    /\ Lock!LockNext \/ UNCHANGED Lock!lockVars
                    /\ Wiz!WizardNext \/ UNCHANGED Wiz!wizardVars
                    /\ Mkt!MarketNext \/ UNCHANGED Mkt!marketVars
                    /\ Bus!BusNext \/ UNCHANGED Bus!busVars
                    /\ Sto!StorageNext \/ UNCHANGED Sto!storageVars
  OBVIOUS
<1>1. Life!LifecycleNext \/ UNCHANGED lifeVars
  BY DEF ServicesNext, servicesVars
<1>2. Net!NetworkNext \/ UNCHANGED netVars
  BY DEF ServicesNext, servicesVars
<1>3. Rt!RuntimeNext \/ UNCHANGED rtVars
  BY DEF ServicesNext, servicesVars
<1>4. Src!SourcesNext \/ UNCHANGED srcVars
  BY DEF ServicesNext, servicesVars
<1>5. Lock!LockNext \/ UNCHANGED lockVars
  BY DEF ServicesNext, servicesVars
<1>6. Wiz!WizardNext \/ UNCHANGED wizVars
  BY DEF ServicesNext, servicesVars
<1>7. Mkt!MarketNext \/ UNCHANGED mktVars
  BY DEF ServicesNext, servicesVars
<1>8. Bus!BusNext \/ UNCHANGED busVars
  BY DEF ServicesNext, servicesVars
<1>9. Sto!StorageNext \/ UNCHANGED stoVars
  BY DEF ServicesNext, servicesVars
<1> QED
  BY <1>1, <1>2, <1>3, <1>4, <1>5, <1>6, <1>7, <1>8, <1>9
  DEF lifeVars, netVars, rtVars, srcVars, lockVars, wizVars, mktVars, busVars, stoVars,
      Life!lifecycleVars, Net!networkVars, Rt!runtimeVars, Src!sourceVars, Lock!lockVars,
      Wiz!wizardVars, Mkt!marketVars, Bus!busVars, Sto!storageVars

\* RemovalsAreAnnounced of the services.
THEOREM RemovalsStayAnnounced == ServicesSpec => []RemovalIsAnnounced
<1>1. Life!RemovalIsAnnounced => RemovalIsAnnounced
  BY DEF RemovalIsAnnounced
<1> QED
  BY <1>1, EachStartsAlone, EachStepsAlone, RemovalsAreAnnounced, PTL DEF ServicesSpec

\* NobodyIsStranded, SlotsAreOfTheCategory, LocksComeBack and
\* ListenersAreCalled of the services.
THEOREM WhoWaitsIsReached == ServicesSpec => []NobodyStranded
<1>1. Net!NobodyStranded /\ Rt!SlotsOfOwnCategory /\ Lock!LocksAreGivenBack
      /\ Bus!EmissionsAreComplete /\ Bus!ListenersStay => NobodyStranded
  BY DEF NobodyStranded
<1> QED
  BY <1>1, EachStartsAlone, EachStepsAlone, NobodyIsStranded, SlotsAreOfTheCategory,
     LocksComeBack, ListenersAreCalled, PTL
  DEF ServicesSpec

\* SourcesAreReadSoundly and SearchShowsWhatIsKnown of the services.
THEOREM ReadingIsSound == ServicesSpec => []ReadsAreSound
<1>1. Src!ReadsAreSound /\ Mkt!ShownIsKnown => ReadsAreSound
  BY DEF ReadsAreSound
<1> QED
  BY <1>1, EachStartsAlone, EachStepsAlone, SourcesAreReadSoundly, SearchShowsWhatIsKnown, PTL
  DEF ServicesSpec

\* InstallsAreConfirmed of the services.
THEOREM InstallsStayConfirmed == ServicesSpec => []InstallsWhatWasConfirmed
<1>1. Wiz!InstallsWhatWasConfirmed => InstallsWhatWasConfirmed
  BY DEF InstallsWhatWasConfirmed
<1> QED
  BY <1>1, EachStartsAlone, EachStepsAlone, InstallsAreConfirmed, PTL DEF ServicesSpec

\* LimitsAreKept of the services.
THEOREM CacheStaysWithinLimits == ServicesSpec => []CacheWithinLimits
<1>1. Sto!CacheWithinLimits => CacheWithinLimits
  BY DEF CacheWithinLimits
<1> QED
  BY <1>1, EachStartsAlone, EachStepsAlone, LimitsAreKept, PTL DEF ServicesSpec
=============================================================================
