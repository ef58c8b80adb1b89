------------------------ MODULE DownloadEngineProofs ------------------------
(***************************************************************************)
(* Theorems about DownloadEngine, for any requests, limits and failures.   *)
(* The argument: the queue holds exactly the calls that wait, _activeCount *)
(* is the number of downloads that run, and _downloadDedupe has exactly    *)
(* those that wait or run; the queue is sorted, and what leaves it leaves  *)
(* it sorted.                                                              *)
(***************************************************************************)
EXTENDS DownloadEngine, FiniteSetTheorems, SequenceTheorems, WellFoundedInduction,
        TLAPS

States == {"idle", "shared"} \cup InFlight \cup Settled

Distinct(q) == \A i, j \in 1 .. Len(q) : q[i] = q[j] => i = j
Holds(q, at) ==
    \A r \in Request : at[r] = "queued" <=> \E i \in 1 .. Len(q) : q[i] = r
Busy(at) == {r \in Request : at[r] \in Running}

QueueInv == Distinct(queue) /\ Holds(queue, pc)
FlightInv == \A r \in Request : pc[r] \in InFlight => flight[Key(r)] = r
CountInv == active = Cardinality(Downloads)
LineInv == queue # <<>> => active > 0

\* What _drainQueue and Settle keep, and what they leave alone.
Core ==
    /\ pc \in [Request -> States]
    /\ queue \in Seq(Request)
    /\ active \in Nat
    /\ flight \in [Url \X Dest -> Request \cup {NoCall}]
    /\ QueueInv /\ FlightInv /\ CountInv /\ LineInv
Locals ==
    /\ attempts \in [Request -> Nat]
    /\ strikes \in [Request -> Nat]
    /\ path \in [Request -> Dest \cup {NoPath}]
Shared ==
    /\ limit \in Nat \ {0}
    /\ aborted \subseteq Request
    /\ file \in [Dest -> Content \cup {NoFile}]
    /\ cache \in [Url -> Dest \cup {NoPath}]

Inv == Core /\ Locals /\ Shared

\* What a step may start.
Within == Downloads' \subseteq Downloads \/ active' <= limit'

-----------------------------------------------------------------------------
(* Operators *)

LEMMA StatesDiffer ==
    /\ "queued" \notin Running /\ "idle" \notin InFlight /\ "shared" \notin InFlight
    /\ \A o \in Settled : o \notin InFlight
    /\ Running \subseteq InFlight /\ "queued" \in InFlight /\ "look" \in Running
    /\ InFlight = {"queued"} \cup Running
  BY DEF Running, InFlight, Settled

LEMMA MinOfTwo ==
    ASSUME NEW a \in Int, NEW b \in Int
    PROVE  Min({a, b}) = IF a <= b THEN a ELSE b
<1>1. \E x \in {a, b} : \A y \in {a, b} : x <= y
  OBVIOUS
<1>2. Min({a, b}) \in {a, b} /\ \A y \in {a, b} : Min({a, b}) <= y
  BY <1>1 DEF Min
<1> QED
  BY <1>2

LEMMA MaxOfTwo ==
    ASSUME NEW a \in Int, NEW b \in Int
    PROVE  Max({a, b}) = IF a >= b THEN a ELSE b
<1>1. \E x \in {a, b} : \A y \in {a, b} : x >= y
  OBVIOUS
<1>2. Max({a, b}) \in {a, b} /\ \A y \in {a, b} : Max({a, b}) >= y
  BY <1>1 DEF Max
<1> QED
  BY <1>2

\* What _drainQueue starts is in the queue; what it leaves has no slot.
LEMMA StartableFacts ==
    ASSUME NEW q \in Seq(Request), NEW busy \in Nat, NEW lim \in Nat \ {0}
    PROVE  /\ Startable(q, busy, lim) \in 0 .. Len(q)
           /\ Startable(q, busy, lim) < Len(q) =>
                busy + Startable(q, busy, lim) >= lim
           /\ Startable(q, busy, lim) > 0 =>
                busy + Startable(q, busy, lim) <= lim
<1> DEFINE free == Max({0, lim - busy})
<1>1. free = IF 0 >= lim - busy THEN 0 ELSE lim - busy
  BY MaxOfTwo
<1>2. free \in Nat
  BY <1>1
<1>3. Startable(q, busy, lim) = Min({Len(q), free})
  BY DEF Startable
<1> HIDE DEF free
<1>4. Len(q) \in Nat
  BY LenProperties
<1>5. Min({Len(q), free}) = IF Len(q) <= free THEN Len(q) ELSE free
  BY <1>2, <1>4, MinOfTwo
<1> QED
  BY <1>1, <1>2, <1>3, <1>4, <1>5

\* The first n of a queue are n calls.
LEMMA FirstOfQueue ==
    ASSUME NEW q \in Seq(Request), Distinct(q), NEW n \in 0 .. Len(q)
    PROVE  /\ IsFiniteSet({q[i] : i \in 1 .. n})
           /\ Cardinality({q[i] : i \in 1 .. n}) = n
<1> DEFINE S == {q[i] : i \in 1 .. n}
           f == [i \in 1 .. n |-> q[i]]
<1>1. f \in Surjection(1 .. n, S)
  BY DEF Surjection
<1>2. \A i, j \in 1 .. n : f[i] = f[j] => i = j
  BY DEF Distinct
<1>3. f \in Injection(1 .. n, S)
  BY <1>1, <1>2 DEF Injection, Surjection, IsInjective
<1>4. IsFiniteSet(1 .. n) /\ Cardinality(1 .. n) = n
  BY FS_Interval
<1> HIDE DEF f, S
<1>5. IsFiniteSet(S) /\ Cardinality(S) = Cardinality(1 .. n)
  BY <1>1, <1>3, <1>4, FS_Surjection
<1> QED
  BY <1>4, <1>5 DEF S

\* What is left of a queue without its first n.
LEMMA RestOfQueue ==
    ASSUME NEW q \in Seq(Request), NEW n \in 0 .. Len(q)
    PROVE  /\ SubSeq(q, n + 1, Len(q)) \in Seq(Request)
           /\ Len(SubSeq(q, n + 1, Len(q))) = Len(q) - n
           /\ \A i \in 1 .. Len(q) - n : SubSeq(q, n + 1, Len(q))[i] = q[n + i]
<1> DEFINE k == n + 1
           m == Len(q)
           rest == SubSeq(q, k, m)
<1>1. m \in Nat /\ n \in Nat /\ n <= m
  BY LenProperties
<1>2. k \in Int /\ m \in Int /\ \A i \in k .. m : q[i] \in Request
  BY <1>1, ElementOfSeq
<1> HIDE DEF k, m
<1>3. /\ rest \in Seq(Request)
      /\ Len(rest) = IF k <= m THEN m - k + 1 ELSE 0
      /\ \A i \in 1 .. m - k + 1 : rest[i] = q[k + i - 1]
  BY <1>2, SubSeqProperties
<1> HIDE DEF rest
<1>4. /\ rest \in Seq(Request) /\ Len(rest) = Len(q) - n
      /\ \A i \in 1 .. Len(q) - n : rest[i] = q[n + i]
  BY <1>1, <1>3 DEF k, m
<1> QED
  BY <1>4 DEF rest, k, m

\* A request is placed in the queue, before the first that weighs more, or at
\* its end.
LEMMA PlaceRange ==
    ASSUME NEW r \in Request, NEW q \in Seq(Request)
    PROVE  /\ Place(r, q) \in 1 .. Len(q) + 1
           /\ \A i \in 1 .. Len(q) :
                i < Place(r, q) => ~(WeightOf[q[i]] > WeightOf[r])
           /\ Place(r, q) <= Len(q) => WeightOf[q[Place(r, q)]] > WeightOf[r]
<1> DEFINE later == {i \in DOMAIN q : WeightOf[q[i]] > WeightOf[r]}
<1>1. Len(q) \in Nat /\ DOMAIN q = 1 .. Len(q)
  BY LenProperties
<1>2. CASE later = {}
  BY <1>1, <1>2 DEF Place
<1>3. CASE later # {}
  <2>1. later \subseteq Nat /\ later \subseteq 1 .. Len(q)
    BY <1>1
  <2> HIDE DEF later
  <2>2. \E x \in later : \A y \in later : x <= y
    <3> DEFINE T == {1 .. x : x \in later}
    <3>1. T \subseteq FiniteSubsetsOf(Nat) /\ T # {}
      <4>1. ASSUME NEW x \in later
            PROVE  1 .. x \in SUBSET Nat /\ IsFiniteSet(1 .. x)
        <5>1. x \in Int
          BY <2>1
        <5> QED
          BY <5>1, FS_Interval
      <4>2. T # {}
        BY <1>3
      <4>3. T \subseteq {S \in SUBSET Nat : IsFiniteSet(S)}
        BY <4>1
      <4> QED
        BY <4>2, <4>3 DEF FiniteSubsetsOf
    <3> HIDE DEF T
    <3>2. \E X \in T : \A Y \in T : <<Y, X>> \notin StrictSubsetOrdering(Nat)
      BY <3>1, WFMin, FS_StrictSubsetOrderingWellFounded
    <3>3. PICK x \in later :
            \A y \in later : <<1 .. y, 1 .. x>> \notin StrictSubsetOrdering(Nat)
      BY <3>2 DEF T
    <3>4. ASSUME NEW y \in later, y < x
          PROVE  FALSE
      <4>1. x \in Nat /\ y \in Nat /\ x >= 1
        BY <1>1, <2>1
      <4>2. 1 .. y \subseteq 1 .. x /\ x \in 1 .. x /\ x \notin 1 .. y
        BY <3>4, <4>1
      <4>3. 1 .. y \in SUBSET Nat /\ 1 .. x \in SUBSET Nat /\ 1 .. y # 1 .. x
        BY <4>1, <4>2
      <4>4. <<1 .. y, 1 .. x>> \in StrictSubsetOrdering(Nat)
        BY <4>2, <4>3, Zenon DEF StrictSubsetOrdering
      <4> QED
        BY <3>3, <3>4, <4>4
    <3> QED
      BY <2>1, <3>4
  <2>4. Min(later) \in later /\ \A y \in later : Min(later) <= y
    BY <2>2 DEF Min
  <2>5. Place(r, q) = Min(later)
    BY <1>3 DEF Place, later
  <2> DEFINE least == Min(later)
  <2>6. least \in later /\ \A y \in later : least <= y
    BY <2>4
  <2> HIDE DEF least
  <2>7. \A i \in 1 .. Len(q) : i < least => i \notin later
    BY <1>1, <2>1, <2>6
  <2>8. \A i \in 1 .. Len(q) : i \in later <=> WeightOf[q[i]] > WeightOf[r]
    BY <1>1 DEF later
  <2>9. least \in 1 .. Len(q) /\ Place(r, q) = least
    BY <2>1, <2>5, <2>6 DEF least
  <2> QED
    BY <1>1, <2>6, <2>7, <2>8, <2>9
<1> QED
  BY <1>2, <1>3

\* What a queue holds where, once a request is inserted.
LEMMA InsertedAt ==
    ASSUME NEW q \in Seq(Request), NEW r \in Request, NEW k \in 1 .. Len(q) + 1
    PROVE  /\ InsertAt(q, k, r) \in Seq(Request)
           /\ Len(InsertAt(q, k, r)) = Len(q) + 1
           /\ \A i \in 1 .. Len(q) + 1 :
                InsertAt(q, k, r)[i] = IF i < k THEN q[i]
                                       ELSE IF i = k THEN r ELSE q[i - 1]
<1> DEFINE n == Len(q)
           a == SubSeq(q, 1, k - 1)
           b == SubSeq(q, k, n)
           m == <<r>>
           c == a \o m
           t == c \o b
<1>1. n \in Nat /\ k \in Nat /\ \A i \in 1 .. n : q[i] \in Request
  BY LenProperties, ElementOfSeq
<1>2. /\ a \in Seq(Request) /\ Len(a) = k - 1
      /\ \A i \in 1 .. k - 1 : a[i] = q[i]
  BY <1>1
<1>3. /\ b \in Seq(Request) /\ Len(b) = n - k + 1
      /\ \A i \in 1 .. n - k + 1 : b[i] = q[k + i - 1]
  BY <1>1
<1>4. m \in Seq(Request) /\ Len(m) = 1 /\ m[1] = r
  OBVIOUS
<1> HIDE DEF a, b, m
<1>5. /\ c \in Seq(Request) /\ Len(c) = k
      /\ \A i \in 1 .. k : c[i] = IF i < k THEN a[i] ELSE m[1]
  <2>1. /\ c \in Seq(Request) /\ Len(c) = Len(a) + Len(m)
        /\ \A i \in 1 .. Len(a) + Len(m) :
             c[i] = IF i <= Len(a) THEN a[i] ELSE m[i - Len(a)]
    BY <1>2, <1>4, ConcatProperties, Zenon DEF c
  <2> HIDE DEF c
  <2>2. Len(a) + Len(m) = k
    BY <1>1, <1>2, <1>4
  <2>3. ASSUME NEW i \in 1 .. k
        PROVE  c[i] = IF i < k THEN a[i] ELSE m[1]
    <3>1. c[i] = IF i <= Len(a) THEN a[i] ELSE m[i - Len(a)]
      BY <2>1, <2>2
    <3>2. CASE i < k
      BY <1>1, <1>2, <3>1, <3>2
    <3>3. CASE i = k
      <4>1. ~(i <= Len(a)) /\ i - Len(a) = 1
        BY <1>1, <1>2, <3>3
      <4> QED
        BY <1>1, <3>1, <3>3, <4>1
    <3> QED
      BY <1>1, <3>2, <3>3
  <2> QED
    BY <2>1, <2>2, <2>3
<1>6. /\ t \in Seq(Request) /\ Len(t) = n + 1
      /\ \A i \in 1 .. n + 1 : t[i] = IF i <= k THEN c[i] ELSE b[i - k]
  <2>1. c \in Seq(Request) /\ Len(c) = k
    BY <1>5
  <2> HIDE DEF c
  <2>2. /\ c \o b \in Seq(Request) /\ Len(c \o b) = Len(c) + Len(b)
        /\ \A i \in 1 .. Len(c) + Len(b) :
             (c \o b)[i] = IF i <= Len(c) THEN c[i] ELSE b[i - Len(c)]
    BY <1>3, <2>1, ConcatProperties, Zenon
  <2>3. Len(c) + Len(b) = n + 1
    BY <1>1, <1>3, <2>1
  <2> QED
    BY <2>1, <2>2, <2>3
<1>7. InsertAt(q, k, r) = t
  BY DEF InsertAt, a, b, m
<1> HIDE DEF t, c
<1>8. \A i \in 1 .. n + 1 :
        t[i] = IF i < k THEN q[i] ELSE IF i = k THEN r ELSE q[i - 1]
  <2> SUFFICES ASSUME NEW i \in 1 .. n + 1
               PROVE  t[i] = IF i < k THEN q[i] ELSE IF i = k THEN r ELSE q[i - 1]
    OBVIOUS
  <2>1. CASE i < k
    <3>1. i \in 1 .. k - 1 /\ i \in 1 .. k /\ i <= k
      BY <1>1, <2>1
    <3> QED
      BY <1>2, <1>5, <1>6, <2>1, <3>1
  <2>2. CASE i = k
    <3>1. i \in 1 .. k /\ i <= k /\ ~(i < k)
      BY <1>1, <2>2
    <3> QED
      BY <1>4, <1>5, <1>6, <2>2, <3>1
  <2>3. CASE i > k
    <3>1. i - k \in 1 .. n - k + 1 /\ k + (i - k) - 1 = i - 1
      BY <1>1, <2>3
    <3>2. b[i - k] = q[i - 1]
      BY <1>3, <3>1
    <3>3. t[i] = b[i - k]
      BY <1>1, <1>6, <2>3
    <3> QED
      BY <1>1, <2>3, <3>2, <3>3
  <2> QED
    BY <1>1, <2>1, <2>2, <2>3
<1> QED
  BY <1>6, <1>7, <1>8

\* A request that was not in the queue is in it once.
LEMMA Insertion ==
    ASSUME NEW q \in Seq(Request), Distinct(q), NEW r \in Request,
           \A i \in 1 .. Len(q) : q[i] # r,
           NEW k \in 1 .. Len(q) + 1
    PROVE  /\ InsertAt(q, k, r) \in Seq(Request)
           /\ Distinct(InsertAt(q, k, r))
           /\ \A s \in Request : (\E i \in 1 .. Len(InsertAt(q, k, r)) :
                                     InsertAt(q, k, r)[i] = s)
                                <=> s = r \/ \E i \in 1 .. Len(q) : q[i] = s
<1> DEFINE n == Len(q)
           t == InsertAt(q, k, r)
<1>1. n \in Nat /\ k \in Nat /\ \A i \in 1 .. n : q[i] \in Request
  BY LenProperties, ElementOfSeq
<1>6. t \in Seq(Request) /\ Len(t) = n + 1
  BY InsertedAt
<1>8. \A i \in 1 .. n + 1 :
        t[i] = IF i < k THEN q[i] ELSE IF i = k THEN r ELSE q[i - 1]
  BY InsertedAt
<1> HIDE DEF t
<1>9. Distinct(t)
  <2> SUFFICES ASSUME NEW i \in 1 .. n + 1, NEW j \in 1 .. n + 1, t[i] = t[j]
               PROVE  i = j
    BY <1>6 DEF Distinct
  <2>1. i < k => i \in 1 .. n
    BY <1>1
  <2>2. i > k => i - 1 \in 1 .. n
    BY <1>1
  <2>3. j < k => j \in 1 .. n
    BY <1>1
  <2>4. j > k => j - 1 \in 1 .. n
    BY <1>1
  <2> QED
    BY <1>1, <1>8, <2>1, <2>2, <2>3, <2>4 DEF Distinct
<1>10. ASSUME NEW s \in Request
       PROVE  (\E i \in 1 .. n + 1 : t[i] = s)
                <=> s = r \/ \E i \in 1 .. n : q[i] = s
  <2>1. ASSUME NEW i \in 1 .. n + 1, t[i] = s
        PROVE  s = r \/ \E j \in 1 .. n : q[j] = s
    <3>1. CASE i < k
      BY <1>1, <1>8, <2>1, <3>1
    <3>2. CASE i = k
      BY <1>8, <2>1, <3>2
    <3>3. CASE i > k
      <4>1. i - 1 \in 1 .. n /\ q[i - 1] = s
        BY <1>1, <1>8, <2>1, <3>3
      <4> QED
        BY <4>1
    <3> QED
      BY <1>1, <3>1, <3>2, <3>3
  <2>2. t[k] = r /\ k \in 1 .. n + 1
    BY <1>1, <1>8
  <2>3. ASSUME NEW i \in 1 .. n, q[i] = s
        PROVE  \E j \in 1 .. n + 1 : t[j] = s
    <3>1. CASE i < k
      BY <1>1, <1>8, <2>3, <3>1
    <3>2. CASE i >= k
      <4>1. i + 1 \in 1 .. n + 1 /\ t[i + 1] = q[i]
        BY <1>1, <1>8, <3>2
      <4> QED
        BY <2>3, <4>1
    <3> QED
      BY <1>1, <3>1, <3>2
  <2> QED
    BY <2>1, <2>2, <2>3
<1> QED
  BY <1>6, <1>9, <1>10 DEF t

-----------------------------------------------------------------------------
(* Steps *)

LEMMA BusyFinite ==
    ASSUME NEW at
    PROVE  IsFiniteSet(Busy(at)) /\ Cardinality(Busy(at)) \in Nat
<1>1. Busy(at) \in SUBSET Request
  BY DEF Busy
<1> QED
  BY <1>1, EngineAssumption, FS_Subset, FS_CardinalityType

\* _drainQueue keeps the count and the queue right, and leaves nobody waiting
\* beside free slots.
LEMMA DrainFacts ==
    ASSUME NEW q \in Seq(Request), NEW busy \in Nat, NEW lim \in Nat \ {0},
           NEW at \in [Request -> States],
           Distinct(q), Holds(q, at), busy = Cardinality(Busy(at)),
           Drain(q, busy, lim, at)
    PROVE  /\ queue' \in Seq(Request) /\ active' \in Nat
           /\ pc' \in [Request -> States]
           /\ QueueInv' /\ CountInv' /\ LineInv'
           /\ \A r \in Request : pc'[r] \in InFlight <=> at[r] \in InFlight
           /\ \A r \in Request :
                pc'[r] = at[r] \/ (at[r] = "queued" /\ pc'[r] = "look")
           /\ Downloads' = Busy(at) \/ active' <= lim
<1> DEFINE n == Startable(q, busy, lim)
           started == {q[i] : i \in 1 .. n}
<1>1. /\ n \in 0 .. Len(q) /\ Len(q) \in Nat
      /\ n < Len(q) => busy + n >= lim
      /\ n > 0 => busy + n <= lim
  BY StartableFacts, LenProperties
<1>2. /\ queue' = SubSeq(q, n + 1, Len(q))
      /\ active' = busy + n
      /\ pc' = [r \in Request |-> IF r \in started THEN "look" ELSE at[r]]
  BY DEF Drain
<1>3. IsFiniteSet(started) /\ Cardinality(started) = n
  BY <1>1, FirstOfQueue
<1>4. \A i \in 1 .. Len(q) : q[i] \in Request /\ at[q[i]] = "queued"
  BY ElementOfSeq DEF Holds
<1>5. started \subseteq Request /\ \A r \in started : at[r] = "queued"
  BY <1>1, <1>4
<1> HIDE DEF n
<1>6. /\ queue' \in Seq(Request) /\ Len(queue') = Len(q) - n
      /\ \A i \in 1 .. Len(q) - n : queue'[i] = q[n + i]
  BY <1>1, <1>2, RestOfQueue
<1>7. pc' \in [Request -> States] /\ active' \in Nat
  BY <1>1, <1>2, StatesDiffer DEF States
<1>8. \A r \in Request :
        /\ r \in started => at[r] = "queued" /\ pc'[r] = "look"
        /\ r \notin started => pc'[r] = at[r]
  BY <1>2, <1>5
<1> HIDE DEF started
<1>9. \A r \in Request : pc'[r] \in InFlight <=> at[r] \in InFlight
  BY <1>8, StatesDiffer
<1>10. Distinct(queue')
  <2> SUFFICES ASSUME NEW i \in 1 .. Len(q) - n, NEW j \in 1 .. Len(q) - n,
                      queue'[i] = queue'[j]
               PROVE  i = j
    BY <1>6 DEF Distinct
  <2>1. n + i \in 1 .. Len(q) /\ n + j \in 1 .. Len(q)
    BY <1>1
  <2>2. q[n + i] = q[n + j]
    BY <1>6
  <2>3. n + i = n + j
    BY <2>1, <2>2 DEF Distinct
  <2> QED
    BY <1>1, <2>3
<1>11. Holds(queue', pc')
  <2> SUFFICES ASSUME NEW r \in Request
               PROVE  pc'[r] = "queued"
                        <=> \E i \in 1 .. Len(q) - n : queue'[i] = r
    BY <1>6 DEF Holds
  <2>1. ASSUME pc'[r] = "queued"
        PROVE  \E i \in 1 .. Len(q) - n : queue'[i] = r
    <3>1. at[r] = "queued" /\ r \notin started
      BY <1>8, <2>1
    <3>2. PICK j \in 1 .. Len(q) : q[j] = r
      BY <3>1 DEF Holds
    <3>3. j \notin 1 .. n
      BY <3>1, <3>2 DEF started
    <3>4. j - n \in 1 .. Len(q) - n /\ n + (j - n) = j
      BY <1>1, <3>3
    <3> QED
      BY <1>6, <3>2, <3>4
  <2>2. ASSUME NEW i \in 1 .. Len(q) - n, queue'[i] = r
        PROVE  pc'[r] = "queued"
    <3>1. n + i \in 1 .. Len(q) /\ q[n + i] = r
      BY <1>1, <1>6, <2>2
    <3>2. r \notin started
      <4>1. ASSUME r \in started
            PROVE  FALSE
        <5>1. PICK j \in 1 .. n : q[j] = r
          BY <4>1 DEF started
        <5>2. j \in 1 .. Len(q) /\ j # n + i
          BY <1>1, <5>1
        <5> QED
          BY <3>1, <5>1, <5>2 DEF Distinct
      <4> QED
        BY <4>1
    <3> QED
      BY <1>4, <1>8, <3>1, <3>2
  <2> QED
    BY <2>1, <2>2
<1>12. Downloads' = Busy(at) \cup started /\ Busy(at) \cap started = {}
  <2>1. \A r \in started : r \in Request
    BY <1>5
  <2> QED
    BY <1>8, <2>1, StatesDiffer DEF Downloads, Busy
<1>13. Cardinality(Downloads') = busy + n
  <2>1. Cardinality(Busy(at) \cup started) =
          Cardinality(Busy(at)) + Cardinality(started)
            - Cardinality(Busy(at) \cap started)
    BY <1>3, BusyFinite, FS_Union
  <2>2. Cardinality(Busy(at) \cap started) = 0
    BY <1>12, FS_EmptySet
  <2> QED
    BY <1>1, <1>3, <1>12, <2>1, <2>2
<1>14. LineInv'
  <2>1. ASSUME queue' # <<>>
        PROVE  active' > 0
    <3>1. Len(queue') # 0
      BY <1>6, <2>1, EmptySeq
    <3>2. n < Len(q)
      BY <1>1, <1>6, <3>1
    <3> QED
      BY <1>1, <1>2, <3>2
  <2> QED
    BY <2>1 DEF LineInv
<1>15. Downloads' = Busy(at) \/ active' <= lim
  <2>1. CASE n = 0
    <3>1. started = {}
      BY <2>1 DEF started
    <3> QED
      BY <1>12, <3>1
  <2>2. CASE n # 0
    BY <1>1, <1>2, <2>2
  <2> QED
    BY <2>1, <2>2
<1>16. CountInv'
  BY <1>2, <1>13 DEF CountInv
<1>17. QueueInv'
  BY <1>10, <1>11 DEF QueueInv
<1>18. \A r \in Request :
         pc'[r] = at[r] \/ (at[r] = "queued" /\ pc'[r] = "look")
  BY <1>8
<1> QED
  BY <1>6, <1>7, <1>9, <1>14, <1>15, <1>16, <1>17, <1>18

LEMMA KeyType == \A r \in Request : Key(r) \in Url \X Dest
  BY EngineAssumption DEF Key

LEMMA GotoKeeps ==
    ASSUME Core, NEW r \in Request, pc[r] \in Running, NEW next \in Running,
           Goto(r, next)
    PROVE  Core' /\ Downloads' = Downloads
<1>1. /\ pc' = [pc EXCEPT ![r] = next] /\ UNCHANGED <<queue, active, flight>>
      /\ pc \in [Request -> States]
  BY DEF Goto, Core
<1>2. pc' \in [Request -> States]
  BY <1>1, StatesDiffer DEF States
<1>3. \A s \in Request :
        /\ pc'[s] \in Running <=> pc[s] \in Running
        /\ pc'[s] = "queued" <=> pc[s] = "queued"
  BY <1>1, StatesDiffer
<1>4. Downloads' = Downloads
  BY <1>3 DEF Downloads
<1>5. QueueInv'
  BY <1>1, <1>3 DEF Core, QueueInv, Holds, Distinct
<1>6. FlightInv'
  <2>1. \A s \in Request : pc'[s] \in InFlight => pc[s] \in InFlight
    BY <1>3, StatesDiffer
  <2> QED
    BY <1>1, <2>1 DEF Core, FlightInv
<1>7. CountInv' /\ LineInv'
  BY <1>1, <1>4 DEF Core, CountInv, LineInv
<1> QED
  BY <1>1, <1>2, <1>4, <1>5, <1>6, <1>7 DEF Core

\* The end of a download frees its slot and its key.
LEMMA SettleKeeps ==
    ASSUME Core, Locals, NEW r \in Request, pc[r] \in Running,
           NEW outcome \in Settled, NEW where \in Dest \cup {NoPath},
           NEW lim \in Nat \ {0}, Settle(r, outcome, where, lim)
    PROVE  /\ Core' /\ Locals'
           /\ Downloads' \subseteq Downloads \/ active' <= lim
<1> DEFINE mine == {r} \cup {s \in Request : pc[s] = "shared" /\ Key(s) = Key(r)}
           at == [s \in Request |-> IF s \in mine THEN outcome ELSE pc[s]]
<1>1. /\ flight' = [flight EXCEPT ![Key(r)] = NoCall]
      /\ path' = [s \in Request |-> IF s \in mine THEN where ELSE path[s]]
      /\ attempts' = [attempts EXCEPT ![r] = 0]
      /\ strikes' = [strikes EXCEPT ![r] = 0]
      /\ Drain(queue, active - 1, lim, at)
  BY Zenon DEF Settle
<1>2. Locals'
  BY <1>1 DEF Locals
<1>3. at \in [Request -> States]
  BY DEF Core, States
<1>4. \A s \in Request :
        /\ s = r => at[s] \in Settled
        /\ pc[s] \in InFlight /\ s # r => at[s] = pc[s]
        /\ at[s] \in InFlight => s # r /\ pc[s] \in InFlight /\ at[s] = pc[s]
  BY StatesDiffer
<1> HIDE DEF at, mine
<1>5. Busy(at) = Downloads \ {r} /\ r \in Downloads
  BY <1>4, StatesDiffer DEF Busy, Downloads
<1>6. active - 1 \in Nat /\ active - 1 = Cardinality(Busy(at))
  <2>1. IsFiniteSet(Downloads) /\ Cardinality(Downloads) = active
    BY BusyFinite DEF Core, CountInv, Busy, Downloads
  <2>2. Cardinality(Busy(at)) = active - 1
    BY <1>5, <2>1, FS_RemoveElement
  <2> QED
    BY <2>2, BusyFinite
<1>7. Distinct(queue) /\ Holds(queue, at)
  <2>1. \A s \in Request : at[s] = "queued" <=> pc[s] = "queued"
    BY <1>4, StatesDiffer
  <2> QED
    BY <2>1 DEF Core, QueueInv, Holds
<1>8. /\ queue' \in Seq(Request) /\ active' \in Nat
      /\ pc' \in [Request -> States]
      /\ QueueInv' /\ CountInv' /\ LineInv'
      /\ \A s \in Request : pc'[s] \in InFlight <=> at[s] \in InFlight
      /\ Downloads' = Busy(at) \/ active' <= lim
  <2>1. queue \in Seq(Request)
    BY DEF Core
  <2> QED
    BY <1>1, <1>3, <1>6, <1>7, <2>1, DrainFacts
<1>9. FlightInv'
  <2> SUFFICES ASSUME NEW s \in Request, pc'[s] \in InFlight
               PROVE  flight'[Key(s)] = s
    BY DEF FlightInv
  <2>1. s # r /\ pc[s] \in InFlight
    BY <1>4, <1>8
  <2>2. flight[Key(s)] = s /\ flight[Key(r)] = r
    BY <2>1, StatesDiffer DEF Core, FlightInv
  <2>3. Key(s) # Key(r)
    BY <2>1, <2>2
  <2> QED
    BY <1>1, <2>2, <2>3, KeyType DEF Core
<1>10. flight' \in [Url \X Dest -> Request \cup {NoCall}]
  BY <1>1 DEF Core
<1> QED
  BY <1>2, <1>5, <1>8, <1>9, <1>10 DEF Core

LEMMA LoweredType == \A lim \in Nat \ {0} : Lowered(lim) \in Nat \ {0}
  BY EngineAssumption DEF Lowered

LEMMA Names ==
    /\ "done" \in Settled /\ "failed" \in Settled /\ "cancelled" \in Settled
    /\ "lookup" \in Running /\ "cached" \in Running /\ "attempt" \in Running
    /\ "fetch" \in Running /\ "record" \in Running /\ "finish" \in Running
    /\ "delay" \in Running /\ "failing" \in Running /\ "look" \in Running
  BY DEF Settled, Running

\* An attempt that fails ends the download or leads to a delay.
LEMMA ErrorKeeps ==
    ASSUME Inv, NEW r \in Request, pc[r] \in Running, NEW kind, Error(r, kind)
    PROVE  Core' /\ Locals' /\ limit' \in Nat \ {0} /\ Within
<1> DEFINE lim == IF kind = "limit" THEN Lowered(limit) ELSE limit
           struck == IF kind = "limit" THEN strikes[r] + 1 ELSE 0
           isLast == attempts[r] = AttemptsOf[r] \/ struck >= 2 \/ kind = "fatal"
<1>1. lim \in Nat \ {0} /\ limit' = lim
  BY LoweredType DEF Error, Inv, Shared
<1>2. CASE r \in aborted
  <2>1. Settle(r, "cancelled", NoPath, lim)
    BY <1>2 DEF Error
  <2> HIDE DEF lim
  <2> QED
    BY <1>1, <2>1, Names, SettleKeeps DEF Inv, Within
<1>3. CASE r \notin aborted
  <2>1. /\ strikes' = [strikes EXCEPT ![r] = struck]
        /\ Goto(r, IF isLast THEN "failing" ELSE "delay")
        /\ UNCHANGED <<attempts, path>>
    BY <1>3 DEF Error
  <2>2. struck \in Nat
    BY DEF Inv, Locals
  <2> HIDE DEF struck
  <2>3. Locals'
    BY <2>1, <2>2 DEF Inv, Locals
  <2>4. (IF isLast THEN "failing" ELSE "delay") \in Running
    BY Names
  <2>5. Core' /\ Downloads' = Downloads
    BY <2>1, <2>4, GotoKeeps DEF Inv
  <2> QED
    BY <1>1, <2>3, <2>5 DEF Within
<1> QED
  BY <1>2, <1>3

LEMMA LookKeeps ==
    ASSUME Inv, NEW r \in Request, Look(r)
    PROVE  Inv' /\ Within
<1>1. pc[r] \in Running /\ UNCHANGED <<limit, aborted, file, cache>>
  BY Names DEF Look
<1>2. Shared' /\ limit' = limit /\ limit \in Nat \ {0}
  BY <1>1 DEF Inv, Shared
<1>3. DestOf[r] \in Dest
  BY EngineAssumption
<1>4. CASE Settle(r, "failed", NoPath, limit)
  BY <1>1, <1>2, <1>4, Names, SettleKeeps DEF Inv, Within
<1>5. CASE Settle(r, "done", DestOf[r], limit)
  BY <1>1, <1>2, <1>3, <1>5, Names, SettleKeeps DEF Inv, Within
<1>6. CASE Goto(r, "lookup") /\ UNCHANGED <<attempts, strikes, path>>
  <2>1. Core' /\ Downloads' = Downloads
    BY <1>1, <1>6, Names, GotoKeeps DEF Inv
  <2>2. Locals'
    BY <1>6 DEF Inv, Locals
  <2> QED
    BY <1>2, <2>1, <2>2 DEF Inv, Within
<1> QED
  BY <1>4, <1>5, <1>6 DEF Look

LEMMA LookupKeeps ==
    ASSUME Inv, NEW r \in Request, Lookup(r)
    PROVE  Inv' /\ Within
<1>1. /\ pc[r] \in Running
      /\ path' = [path EXCEPT ![r] = cache[UrlOf[r]]]
      /\ Goto(r, IF cache[UrlOf[r]] = NoPath THEN "attempt" ELSE "cached")
      /\ UNCHANGED <<limit, attempts, strikes, aborted, file, cache>>
  BY Names DEF Lookup
<1>2. (IF cache[UrlOf[r]] = NoPath THEN "attempt" ELSE "cached") \in Running
  BY Names
<1>3. Core' /\ Downloads' = Downloads
  BY <1>1, <1>2, GotoKeeps DEF Inv
<1>4. cache[UrlOf[r]] \in Dest \cup {NoPath}
  BY EngineAssumption DEF Inv, Shared
<1>5. Locals' /\ Shared'
  BY <1>1, <1>4 DEF Inv, Locals, Shared
<1> QED
  BY <1>3, <1>5 DEF Inv, Within

LEMMA ServeCachedKeeps ==
    ASSUME Inv, NEW r \in Request, ServeCached(r)
    PROVE  Inv' /\ Within
<1>1. pc[r] \in Running /\ UNCHANGED <<limit, aborted, file>>
  BY Names DEF ServeCached
<1>2. path[r] \in Dest \cup {NoPath} /\ UrlOf[r] \in Url
  BY EngineAssumption DEF Inv, Locals
<1>3. limit' = limit /\ limit \in Nat \ {0}
  BY <1>1 DEF Inv, Shared
<1>4. CASE Settle(r, "done", path[r], limit) /\ UNCHANGED cache
  <2>1. Shared'
    BY <1>1, <1>4 DEF Inv, Shared
  <2> QED
    BY <1>1, <1>2, <1>3, <1>4, <2>1, Names, SettleKeeps DEF Inv, Within
<1>5. CASE /\ cache' = [cache EXCEPT ![UrlOf[r]] = NoPath]
           /\ path' = [path EXCEPT ![r] = NoPath]
           /\ Goto(r, "attempt")
           /\ UNCHANGED <<attempts, strikes>>
  <2>1. Core' /\ Downloads' = Downloads
    BY <1>1, <1>5, Names, GotoKeeps DEF Inv
  <2>2. Locals' /\ Shared'
    BY <1>1, <1>5 DEF Inv, Locals, Shared
  <2> QED
    BY <2>1, <2>2 DEF Inv, Within
<1> QED
  BY <1>4, <1>5 DEF ServeCached

LEMMA AttemptKeeps ==
    ASSUME Inv, NEW r \in Request, Attempt(r)
    PROVE  Inv' /\ Within
<1>1. pc[r] \in Running /\ UNCHANGED <<limit, aborted, file, cache>>
  BY Names DEF Attempt
<1>2. Shared' /\ limit' = limit /\ limit \in Nat \ {0}
  BY <1>1 DEF Inv, Shared
<1>3. CASE Settle(r, "cancelled", NoPath, limit)
  BY <1>1, <1>2, <1>3, Names, SettleKeeps DEF Inv, Within
<1>4. CASE /\ attempts' = [attempts EXCEPT ![r] = @ + 1]
           /\ Goto(r, "fetch")
           /\ UNCHANGED <<strikes, path>>
  <2>1. Core' /\ Downloads' = Downloads
    BY <1>1, <1>4, Names, GotoKeeps DEF Inv
  <2>2. Locals'
    BY <1>4 DEF Inv, Locals
  <2> QED
    BY <1>2, <2>1, <2>2 DEF Inv, Within
<1> QED
  BY <1>3, <1>4 DEF Attempt

LEMMA FetchKeeps ==
    ASSUME Inv, NEW r \in Request, Fetch(r)
    PROVE  Inv' /\ Within
<1>1. pc[r] \in Running /\ UNCHANGED <<aborted, cache>>
  BY Names DEF Fetch
<1>2. limit \in Nat \ {0} /\ UrlOf[r] \in Url /\ DestOf[r] \in Dest
  BY EngineAssumption DEF Inv, Shared
<1>3. ASSUME NEW genuine \in BOOLEAN,
             file' = [file EXCEPT ![DestOf[r]] = [url |-> UrlOf[r], genuine |-> genuine]],
             Goto(r, "record"), UNCHANGED <<limit, attempts, strikes, path>>
      PROVE  Inv' /\ Within
  <2>1. Core' /\ Downloads' = Downloads
    BY <1>1, <1>3, Names, GotoKeeps DEF Inv
  <2>2. [url |-> UrlOf[r], genuine |-> genuine] \in Content
    BY <1>2 DEF Content
  <2>3. Locals'
    BY <1>3 DEF Inv, Locals
  <2>4. Shared'
    BY <1>1, <1>2, <1>3, <2>2 DEF Inv, Shared
  <2> QED
    BY <2>1, <2>3, <2>4 DEF Inv, Within
<1>4. ASSUME Settle(r, "failed", NoPath, limit), UNCHANGED <<limit, file>>
      PROVE  Inv' /\ Within
  <2>1. Shared' /\ limit' = limit
    BY <1>1, <1>4 DEF Inv, Shared
  <2> QED
    BY <1>1, <1>2, <1>4, <2>1, Names, SettleKeeps DEF Inv, Within
<1>5. ASSUME NEW kind, Error(r, kind), UNCHANGED file
      PROVE  Inv' /\ Within
  <2>1. Core' /\ Locals' /\ limit' \in Nat \ {0} /\ Within
    BY <1>1, <1>5, ErrorKeeps
  <2>2. Shared'
    BY <1>1, <1>5, <2>1 DEF Inv, Shared
  <2> QED
    BY <2>1, <2>2 DEF Inv
<1>6. \/ \E genuine \in BOOLEAN :
            /\ file' = [file EXCEPT ![DestOf[r]] = [url |-> UrlOf[r], genuine |-> genuine]]
            /\ Goto(r, "record") /\ UNCHANGED <<limit, attempts, strikes, path>>
      \/ Settle(r, "failed", NoPath, limit) /\ UNCHANGED <<limit, file>>
      \/ \E kind \in {"transient", "fatal", "limit"} : Error(r, kind) /\ UNCHANGED file
  BY Zenon DEF Fetch
<1> QED
  BY <1>3, <1>4, <1>5, <1>6

LEMMA RecordKeeps ==
    ASSUME Inv, NEW r \in Request, Record(r)
    PROVE  Inv' /\ Within
<1>1. pc[r] \in Running /\ UNCHANGED <<aborted, file>>
  BY Names DEF Record
<1>2. CASE /\ cache' = [cache EXCEPT ![UrlOf[r]] = DestOf[r]]
           /\ Goto(r, "finish")
           /\ UNCHANGED <<limit, attempts, strikes, path>>
  <2>1. Core' /\ Downloads' = Downloads
    BY <1>1, <1>2, Names, GotoKeeps DEF Inv
  <2>2. Locals' /\ Shared'
    BY <1>1, <1>2, EngineAssumption DEF Inv, Locals, Shared
  <2> QED
    BY <2>1, <2>2 DEF Inv, Within
<1>3. CASE Error(r, "transient") /\ UNCHANGED cache
  <2>1. Core' /\ Locals' /\ limit' \in Nat \ {0} /\ Within
    BY <1>1, <1>3, ErrorKeeps
  <2>2. Shared'
    BY <1>1, <1>3, <2>1 DEF Inv, Shared
  <2> QED
    BY <2>1, <2>2 DEF Inv
<1> QED
  BY <1>2, <1>3 DEF Record

LEMMA FinishKeeps ==
    ASSUME Inv, NEW r \in Request, Finish(r)
    PROVE  Inv' /\ Within
<1>1. pc[r] \in Running /\ UNCHANGED <<aborted, file, cache>>
  BY Names DEF Finish
<1>2. CASE Settle(r, "done", DestOf[r], limit) /\ UNCHANGED limit
  <2>1. Shared' /\ limit' = limit /\ limit \in Nat \ {0} /\ DestOf[r] \in Dest
    BY <1>1, <1>2, EngineAssumption DEF Inv, Shared
  <2> QED
    BY <1>1, <1>2, <2>1, Names, SettleKeeps DEF Inv, Within
<1>3. CASE Error(r, "transient")
  <2>1. Core' /\ Locals' /\ limit' \in Nat \ {0} /\ Within
    BY <1>1, <1>3, ErrorKeeps
  <2>2. Shared'
    BY <1>1, <1>3, <2>1 DEF Inv, Shared
  <2> QED
    BY <2>1, <2>2 DEF Inv
<1> QED
  BY <1>2, <1>3 DEF Finish

LEMMA WakeKeeps ==
    ASSUME Inv, NEW r \in Request, Wake(r)
    PROVE  Inv' /\ Within
<1>1. /\ pc[r] \in Running /\ Goto(r, "attempt")
      /\ UNCHANGED <<limit, attempts, strikes, path, aborted, file, cache>>
  BY Names DEF Wake
<1>2. Core' /\ Downloads' = Downloads
  BY <1>1, Names, GotoKeeps DEF Inv
<1>3. Locals' /\ Shared'
  BY <1>1 DEF Inv, Locals, Shared
<1> QED
  BY <1>2, <1>3 DEF Inv, Within

LEMMA GiveUpKeeps ==
    ASSUME Inv, NEW r \in Request, GiveUp(r)
    PROVE  Inv' /\ Within
<1>1. /\ pc[r] \in Running /\ Settle(r, "failed", NoPath, limit)
      /\ UNCHANGED <<limit, aborted, file, cache>>
  BY Names DEF GiveUp
<1>2. Shared' /\ limit' = limit /\ limit \in Nat \ {0}
  BY <1>1 DEF Inv, Shared
<1> QED
  BY <1>1, <1>2, Names, SettleKeeps DEF Inv, Within

\* A call joins, is turned away or enters the queue, which is drained.
LEMMA CallKeeps ==
    ASSUME Inv, NEW r \in Request, Call(r)
    PROVE  Inv' /\ Within
<1>1. /\ pc[r] = "idle"
      /\ UNCHANGED <<limit, attempts, strikes, path, aborted, file, cache>>
  BY DEF Call
<1>2. Locals' /\ Shared' /\ limit' = limit /\ limit \in Nat \ {0}
  BY <1>1 DEF Inv, Locals, Shared
<1>3. ASSUME NEW next \in {"shared", "failed"},
             pc' = [pc EXCEPT ![r] = next], UNCHANGED <<queue, active, flight>>
      PROVE  Core' /\ Downloads' = Downloads
  <2>1. \A s \in Request :
          /\ pc'[s] \in Running <=> pc[s] \in Running
          /\ pc'[s] \in InFlight <=> pc[s] \in InFlight
          /\ pc'[s] = "queued" <=> pc[s] = "queued"
    BY <1>1, <1>3 DEF Inv, Core, Running, InFlight
  <2>2. Downloads' = Downloads
    BY <2>1 DEF Downloads
  <2>3. pc' \in [Request -> States]
    BY <1>3 DEF Inv, Core, States, Settled
  <2>4. QueueInv'
    BY <1>3, <2>1 DEF Inv, Core, QueueInv, Holds, Distinct
  <2>5. FlightInv'
    BY <1>3, <2>1 DEF Inv, Core, FlightInv
  <2>6. CountInv' /\ LineInv'
    BY <1>3, <2>2 DEF Inv, Core, CountInv, LineInv
  <2> QED
    BY <1>3, <2>2, <2>3, <2>4, <2>5, <2>6 DEF Inv, Core
<1>4. CASE flight[Key(r)] # NoCall
  BY <1>2, <1>3, <1>4 DEF Call, Inv, Within
<1>5. CASE flight[Key(r)] = NoCall /\ Len(queue) >= MaxQueueSize
  BY <1>2, <1>3, <1>5 DEF Call, Inv, Within
<1>6. CASE flight[Key(r)] = NoCall /\ ~(Len(queue) >= MaxQueueSize)
  <2> DEFINE q == InsertAt(queue, Place(r, queue), r)
             at == [pc EXCEPT ![r] = "queued"]
  <2>1. flight' = [flight EXCEPT ![Key(r)] = r] /\ Drain(q, active, limit, at)
    BY <1>6 DEF Call
  <2>2. /\ queue \in Seq(Request) /\ Distinct(queue)
        /\ \A i \in 1 .. Len(queue) : queue[i] # r
    BY <1>1 DEF Inv, Core, QueueInv, Holds
  <2>3. /\ q \in Seq(Request) /\ Distinct(q)
        /\ \A s \in Request : (\E i \in 1 .. Len(q) : q[i] = s)
                               <=> s = r \/ \E i \in 1 .. Len(queue) : queue[i] = s
    BY <2>2, PlaceRange, Insertion
  <2> HIDE DEF q
  <2>4. /\ at \in [Request -> States] /\ at[r] = "queued"
        /\ \A s \in Request : s # r => at[s] = pc[s]
    BY StatesDiffer DEF Inv, Core, States
  <2> HIDE DEF at
  <2>5. Holds(q, at)
    BY <2>3, <2>4 DEF Inv, Core, QueueInv, Holds
  <2>6. Busy(at) = Downloads
    BY <1>1, <2>4, StatesDiffer DEF Busy, Downloads
  <2>7. active \in Nat /\ active = Cardinality(Busy(at))
    BY <2>6 DEF Inv, Core, CountInv
  <2>8. /\ queue' \in Seq(Request) /\ active' \in Nat
        /\ pc' \in [Request -> States]
        /\ QueueInv' /\ CountInv' /\ LineInv'
        /\ \A s \in Request : pc'[s] \in InFlight <=> at[s] \in InFlight
        /\ Downloads' = Busy(at) \/ active' <= limit
    BY <1>2, <2>1, <2>3, <2>4, <2>5, <2>7, DrainFacts
  <2>9. FlightInv'
    <3> SUFFICES ASSUME NEW s \in Request, pc'[s] \in InFlight
                 PROVE  flight'[Key(s)] = s
      BY DEF FlightInv
    <3>1. CASE s = r
      BY <2>1, <3>1, KeyType DEF Inv, Core
    <3>2. CASE s # r
      <4>1. pc[s] \in InFlight
        BY <2>4, <2>8, <3>2
      <4>2. flight[Key(s)] = s
        BY <4>1 DEF Inv, Core, FlightInv
      <4>3. Key(s) # Key(r)
        BY <1>6, <4>2, EngineAssumption
      <4> QED
        BY <2>1, <4>2, <4>3, KeyType DEF Inv, Core
    <3> QED
      BY <3>1, <3>2
  <2>10. flight' \in [Url \X Dest -> Request \cup {NoCall}]
    BY <2>1 DEF Inv, Core
  <2> QED
    BY <1>2, <2>6, <2>8, <2>9, <2>10 DEF Inv, Core, Within
<1> QED
  BY <1>4, <1>5, <1>6

\* What happens beside the downloads.
LEMMA OthersKeep ==
    ASSUME Inv,
           \/ \E r \in Request : Abort(r)
           \/ \E u \in Url : InvalidateCache(u)
           \/ AdaptOnSuccess
           \/ UNCHANGED vars
    PROVE  Inv' /\ Within
<1>1. UNCHANGED <<pc, queue, active, flight, attempts, strikes, path>>
  BY DEF Abort, InvalidateCache, AdaptOnSuccess, vars
<1>2. Core' /\ Locals' /\ Within
  BY <1>1 DEF Inv, Core, Locals, Within, QueueInv, Holds, Distinct, FlightInv,
              CountInv, LineInv, Downloads
<1>3. Shared'
  <2>1. ASSUME NEW r \in Request, Abort(r)
        PROVE  Shared'
    BY <2>1 DEF Abort, Inv, Shared
  <2>2. ASSUME NEW u \in Url, InvalidateCache(u)
        PROVE  Shared'
    BY <2>2 DEF InvalidateCache, Inv, Shared
  <2>3. CASE AdaptOnSuccess
    BY <2>3 DEF AdaptOnSuccess, Inv, Shared
  <2>4. CASE UNCHANGED vars
    BY <2>4 DEF vars, Inv, Shared
  <2> QED
    BY <2>1, <2>2, <2>3, <2>4
<1> QED
  BY <1>2, <1>3 DEF Inv

LEMMA InitInv == Init => Inv
<1> SUFFICES ASSUME Init
             PROVE  Inv
  OBVIOUS
<1>1. pc = [r \in Request |-> "idle"] /\ queue = <<>> /\ active = 0
  BY DEF Init
<1>2. pc \in [Request -> States] /\ queue \in Seq(Request) /\ Len(queue) = 0
  BY <1>1, EmptySeq DEF States
<1>3. QueueInv /\ LineInv
  BY <1>1, <1>2 DEF QueueInv, Distinct, Holds, LineInv
<1>4. FlightInv
  BY <1>1, StatesDiffer DEF FlightInv
<1>5. CountInv
  <2>1. Downloads = {}
    BY <1>1, StatesDiffer DEF Downloads
  <2> QED
    BY <1>1, <2>1, FS_EmptySet DEF CountInv
<1>6. Locals
  BY DEF Init, Locals
<1>7. Shared
  <2>1. file \in [Dest -> Content \cup {NoFile}]
    BY DEF Init, Content
  <2>2. cache \in [Url -> Dest \cup {NoPath}]
    BY EngineAssumption DEF Init
  <2> QED
    BY <2>1, <2>2, EngineAssumption DEF Init, Shared
<1>8. flight \in [Url \X Dest -> Request \cup {NoCall}]
  BY DEF Init
<1> QED
  BY <1>1, <1>2, <1>3, <1>4, <1>5, <1>6, <1>7, <1>8 DEF Inv, Core

LEMMA NextKeeps ==
    ASSUME Inv, [Next]_vars
    PROVE  Inv' /\ Within
<1>1. ASSUME NEW r \in Request, Call(r)
      PROVE  Inv' /\ Within
  BY <1>1, CallKeeps
<1>2. ASSUME NEW r \in Request, Step(r)
      PROVE  Inv' /\ Within
  BY <1>2, LookKeeps, LookupKeeps, ServeCachedKeeps, AttemptKeeps, FetchKeeps,
     RecordKeeps, FinishKeeps, WakeKeeps, GiveUpKeeps DEF Step
<1>3. CASE \/ \E r \in Request : Abort(r)
           \/ \E u \in Url : InvalidateCache(u)
           \/ AdaptOnSuccess
           \/ UNCHANGED vars
  BY <1>3, OthersKeep
<1> QED
  BY <1>1, <1>2, <1>3 DEF Next

LEMMA Invariance == Spec => []Inv
<1>1. Inv /\ [Next]_vars => Inv'
  BY NextKeeps
<1> QED
  BY <1>1, InitInv, PTL DEF Spec

-----------------------------------------------------------------------------
(* The order of the queue *)

Sorted(q) ==
    \A i, j \in 1 .. Len(q) : i < j => WeightOf[q[i]] <= WeightOf[q[j]]

\* _drainQueue takes from the front of q.
Shortens(q) == \E n \in 0 .. Len(q) : queue' = SubSeq(q, n + 1, Len(q))

LEMMA DrainShortens ==
    ASSUME NEW q \in Seq(Request), NEW busy \in Int, NEW lim \in Int,
           NEW at, Drain(q, busy, lim, at)
    PROVE  Shortens(q)
<1> DEFINE free == Max({0, lim - busy})
<1>1. free = IF 0 >= lim - busy THEN 0 ELSE lim - busy
  BY MaxOfTwo
<1>2. free \in Nat /\ Len(q) \in Nat
  BY <1>1, LenProperties
<1>3. Startable(q, busy, lim) = Min({Len(q), free})
  BY DEF Startable
<1> HIDE DEF free
<1>4. Min({Len(q), free}) = IF Len(q) <= free THEN Len(q) ELSE free
  BY <1>2, MinOfTwo
<1>5. Startable(q, busy, lim) \in 0 .. Len(q)
  BY <1>2, <1>3, <1>4
<1> QED
  BY <1>5 DEF Drain, Shortens

LEMMA ShortenedQueue ==
    ASSUME NEW q \in Seq(Request), Sorted(q), Shortens(q)
    PROVE  /\ queue' \in Seq(Request) /\ Sorted(queue')
           /\ \E n \in 0 .. Len(q) :
                 /\ Len(queue') = Len(q) - n
                 /\ \A i \in 1 .. Len(q) - n : queue'[i] = q[n + i]
<1>1. PICK n \in 0 .. Len(q) : queue' = SubSeq(q, n + 1, Len(q))
  BY DEF Shortens
<1>2. /\ queue' \in Seq(Request) /\ Len(queue') = Len(q) - n
      /\ \A i \in 1 .. Len(q) - n : queue'[i] = q[n + i]
  BY <1>1, RestOfQueue
<1>3. Sorted(queue')
  <2> SUFFICES ASSUME NEW i \in 1 .. Len(q) - n, NEW j \in 1 .. Len(q) - n, i < j
               PROVE  WeightOf[queue'[i]] <= WeightOf[queue'[j]]
    BY <1>2 DEF Sorted
  <2>1. n + i \in 1 .. Len(q) /\ n + j \in 1 .. Len(q) /\ n + i < n + j
    BY LenProperties
  <2> QED
    BY <1>2, <2>1 DEF Sorted
<1> QED
  BY <1>2, <1>3

\* A call of _enqueue keeps the queue sorted, and lets the request in behind
\* those of its weight.
LEMMA EnqueueIsFair ==
    ASSUME NEW q \in Seq(Request), Sorted(q), NEW r \in Request
    PROVE  /\ InsertAt(q, Place(r, q), r) \in Seq(Request)
           /\ Sorted(InsertAt(q, Place(r, q), r))
           /\ \A i, j \in 1 .. Len(InsertAt(q, Place(r, q), r)) :
                 /\ i < j
                 /\ WeightOf[InsertAt(q, Place(r, q), r)[i]]
                      = WeightOf[InsertAt(q, Place(r, q), r)[j]]
                 => \E k \in 1 .. Len(q) : InsertAt(q, Place(r, q), r)[i] = q[k]
<1> DEFINE p == Place(r, q)
           t == InsertAt(q, p, r)
<1>1. /\ Len(q) \in Nat /\ p \in 1 .. Len(q) + 1
      /\ \A i \in 1 .. Len(q) : q[i] \in Request /\ WeightOf[q[i]] \in Nat
      /\ WeightOf[r] \in Nat
  BY LenProperties, ElementOfSeq, PlaceRange, EngineAssumption
<1>2. \A i \in 1 .. Len(q) : i < p => WeightOf[q[i]] <= WeightOf[r]
  <2>1. \A i \in 1 .. Len(q) : i < p => ~(WeightOf[q[i]] > WeightOf[r])
    BY PlaceRange
  <2> QED
    BY <1>1, <2>1
<1>3. \A i \in 1 .. Len(q) : i >= p => WeightOf[q[i]] > WeightOf[r]
  <2> SUFFICES ASSUME NEW i \in 1 .. Len(q), i >= p
               PROVE  WeightOf[q[i]] > WeightOf[r]
    OBVIOUS
  <2>1. p \in 1 .. Len(q) /\ WeightOf[q[p]] > WeightOf[r]
    BY <1>1, PlaceRange
  <2>2. WeightOf[q[p]] <= WeightOf[q[i]]
    BY <1>1, <2>1 DEF Sorted
  <2> QED
    BY <1>1, <2>1, <2>2
<1>4. /\ t \in Seq(Request) /\ Len(t) = Len(q) + 1
      /\ \A i \in 1 .. Len(q) + 1 :
           t[i] = IF i < p THEN q[i] ELSE IF i = p THEN r ELSE q[i - 1]
  BY <1>1, InsertedAt
<1> HIDE DEF t, p
<1>5. ASSUME NEW i \in 1 .. Len(q) + 1, NEW j \in 1 .. Len(q) + 1, i < j
      PROVE  /\ WeightOf[t[i]] <= WeightOf[t[j]]
             /\ WeightOf[t[i]] = WeightOf[t[j]]
                  => \E k \in 1 .. Len(q) : t[i] = q[k]
  <2>1. CASE i < p
    <3>1. i \in 1 .. Len(q) /\ t[i] = q[i]
      BY <1>1, <1>4, <2>1
    <3>2. CASE j < p
      <4>1. j \in 1 .. Len(q) /\ t[j] = q[j]
        BY <1>1, <1>4, <3>2
      <4> QED
        BY <1>5, <3>1, <4>1 DEF Sorted
    <3>3. CASE j = p
      BY <1>2, <1>4, <2>1, <3>1, <3>3
    <3>4. CASE j > p
      <4>1. j - 1 \in 1 .. Len(q) /\ t[j] = q[j - 1] /\ i < j - 1
        BY <1>1, <1>4, <2>1, <3>4
      <4> QED
        BY <3>1, <4>1 DEF Sorted
    <3> QED
      BY <1>1, <3>2, <3>3, <3>4
  <2>2. CASE i = p
    <3>1. j - 1 \in 1 .. Len(q) /\ j - 1 >= p /\ t[j] = q[j - 1] /\ t[i] = r
      BY <1>1, <1>4, <1>5, <2>2
    <3>2. WeightOf[q[j - 1]] > WeightOf[r]
      BY <1>3, <3>1
    <3>3. WeightOf[q[j - 1]] \in Nat
      BY <1>1, <3>1
    <3> QED
      BY <1>1, <3>1, <3>2, <3>3
  <2>3. CASE i > p
    <3>1. /\ i - 1 \in 1 .. Len(q) /\ t[i] = q[i - 1]
          /\ j - 1 \in 1 .. Len(q) /\ t[j] = q[j - 1] /\ i - 1 < j - 1
      BY <1>1, <1>4, <1>5, <2>3
    <3> QED
      BY <3>1 DEF Sorted
  <2> QED
    BY <1>1, <2>1, <2>2, <2>3
<1>6. Sorted(t)
  BY <1>4, <1>5 DEF Sorted
<1> QED
  BY <1>4, <1>5, <1>6 DEF t, p

\* What a step of a download does to the queue.
LEMMA StepShortens ==
    ASSUME Inv, NEW r \in Request, Step(r)
    PROVE  UNCHANGED queue \/ Shortens(queue)
<1>1. queue \in Seq(Request) /\ active \in Int /\ limit \in Int
  BY DEF Inv, Core, Shared
<1>2. ASSUME NEW outcome, NEW where, NEW lim \in Int, Settle(r, outcome, where, lim)
      PROVE  Shortens(queue)
  <2>1. \E at : Drain(queue, active - 1, lim, at)
    BY <1>2 DEF Settle
  <2> QED
    BY <1>1, <2>1, DrainShortens
<1>3. ASSUME NEW kind, Error(r, kind)
      PROVE  UNCHANGED queue \/ Shortens(queue)
  <2> DEFINE lim == IF kind = "limit" THEN Lowered(limit) ELSE limit
  <2>1. lim \in Int
    BY <1>1 DEF Lowered
  <2>2. (\E next : Goto(r, next)) \/ Settle(r, "cancelled", NoPath, lim)
    BY <1>3 DEF Error
  <2> HIDE DEF lim
  <2> QED
    BY <1>2, <2>1, <2>2 DEF Goto
<1>4. CASE Look(r) \/ Lookup(r) \/ ServeCached(r) \/ Attempt(r) \/ Wake(r) \/ GiveUp(r)
  BY <1>1, <1>2, <1>4
  DEF Look, Lookup, ServeCached, Attempt, Wake, GiveUp, Goto
<1>5. CASE Fetch(r) \/ Record(r) \/ Finish(r)
  BY <1>1, <1>2, <1>3, <1>5 DEF Fetch, Record, Finish, Goto
<1> QED
  BY <1>4, <1>5 DEF Step

\* No step breaks the order, or lets a request in before one of its weight.
LEMMA NextIsFair ==
    ASSUME Inv, Sorted(queue), [Next]_vars
    PROVE  /\ Sorted(queue')
           /\ \A i, j \in DOMAIN queue' : i < j =>
                \/ WeightOf[queue'[i]] < WeightOf[queue'[j]]
                \/ /\ WeightOf[queue'[i]] = WeightOf[queue'[j]]
                   /\ queue'[i] \in {queue[k] : k \in DOMAIN queue}
<1>1. queue \in Seq(Request) /\ queue' \in Seq(Request)
  <2>1. Inv'
    BY NextKeeps
  <2> QED
    BY <2>1 DEF Inv, Core
<1>2. /\ Len(queue) \in Nat /\ DOMAIN queue = 1 .. Len(queue)
      /\ Len(queue') \in Nat /\ DOMAIN queue' = 1 .. Len(queue')
      /\ \A i \in 1 .. Len(queue') : WeightOf[queue'[i]] \in Nat
  BY <1>1, LenProperties, ElementOfSeq, EngineAssumption
<1>3. ASSUME NEW q \in Seq(Request), Sorted(q), Shortens(q),
             \A i, j \in 1 .. Len(q) :
                i < j /\ WeightOf[q[i]] = WeightOf[q[j]]
                  => \E k \in 1 .. Len(queue) : q[i] = queue[k]
      PROVE  /\ Sorted(queue')
             /\ \A i, j \in 1 .. Len(queue') :
                   i < j /\ WeightOf[queue'[i]] = WeightOf[queue'[j]]
                     => \E k \in 1 .. Len(queue) : queue'[i] = queue[k]
  <2>1. PICK n \in 0 .. Len(q) :
           /\ Sorted(queue')
           /\ Len(queue') = Len(q) - n
           /\ \A i \in 1 .. Len(q) - n : queue'[i] = q[n + i]
    BY <1>3, ShortenedQueue
  <2> SUFFICES ASSUME NEW i \in 1 .. Len(queue'), NEW j \in 1 .. Len(queue'), i < j,
                      WeightOf[queue'[i]] = WeightOf[queue'[j]]
               PROVE  \E k \in 1 .. Len(queue) : queue'[i] = queue[k]
    BY <2>1
  <2>2. /\ n + i \in 1 .. Len(q) /\ n + j \in 1 .. Len(q) /\ n + i < n + j
        /\ queue'[i] = q[n + i] /\ queue'[j] = q[n + j]
    BY <2>1, LenProperties
  <2>3. WeightOf[q[n + i]] = WeightOf[q[n + j]]
    BY <2>2
  <2>4. \E k \in 1 .. Len(queue) : q[n + i] = queue[k]
    BY <1>3, <2>2, <2>3
  <2> QED
    BY <2>2, <2>4
<1>4. \A i, j \in 1 .. Len(queue) : i < j /\ WeightOf[queue[i]] = WeightOf[queue[j]]
         => \E k \in 1 .. Len(queue) : queue[i] = queue[k]
  OBVIOUS
<1>5. /\ Sorted(queue')
      /\ \A i, j \in 1 .. Len(queue') :
            i < j /\ WeightOf[queue'[i]] = WeightOf[queue'[j]]
              => \E k \in 1 .. Len(queue) : queue'[i] = queue[k]
  <2>1. CASE UNCHANGED queue
    BY <1>4, <2>1
  <2>2. CASE Shortens(queue)
    BY <1>1, <1>3, <1>4, <2>2
  <2>3. ASSUME NEW r \in Request, Call(r), ~UNCHANGED queue
        PROVE  /\ Sorted(queue')
               /\ \A i, j \in 1 .. Len(queue') :
                     i < j /\ WeightOf[queue'[i]] = WeightOf[queue'[j]]
                       => \E k \in 1 .. Len(queue) : queue'[i] = queue[k]
    <3> DEFINE q == InsertAt(queue, Place(r, queue), r)
    <3>1. \E at : Drain(q, active, limit, at)
      BY <2>3, Zenon DEF Call
    <3>2. /\ q \in Seq(Request) /\ Sorted(q)
          /\ \A i, j \in 1 .. Len(q) : i < j /\ WeightOf[q[i]] = WeightOf[q[j]]
               => \E k \in 1 .. Len(queue) : q[i] = queue[k]
      BY <1>1, EnqueueIsFair
    <3> HIDE DEF q
    <3>3. Shortens(q)
      <4>1. active \in Int /\ limit \in Int
        BY DEF Inv, Core, Shared
      <4> QED
        BY <3>1, <3>2, <4>1, DrainShortens
    <3> QED
      BY <1>3, <3>2, <3>3
  <2>4. CASE \/ \E r \in Request : Abort(r)
             \/ \E u \in Url : InvalidateCache(u)
             \/ AdaptOnSuccess
             \/ UNCHANGED vars
    BY <2>1, <2>4 DEF Abort, InvalidateCache, AdaptOnSuccess, vars
  <2> QED
    BY <2>1, <2>2, <2>3, <2>4, StepShortens DEF Next
<1>6. ASSUME NEW i \in 1 .. Len(queue'), NEW j \in 1 .. Len(queue'), i < j
      PROVE  \/ WeightOf[queue'[i]] < WeightOf[queue'[j]]
             \/ /\ WeightOf[queue'[i]] = WeightOf[queue'[j]]
                /\ \E k \in 1 .. Len(queue) : queue'[i] = queue[k]
  <2>1. WeightOf[queue'[i]] <= WeightOf[queue'[j]]
    BY <1>5, <1>6 DEF Sorted
  <2>2. CASE WeightOf[queue'[i]] = WeightOf[queue'[j]]
    BY <1>5, <1>6, <2>2
  <2> QED
    BY <1>2, <2>1, <2>2
<1> QED
  BY <1>2, <1>5, <1>6

-----------------------------------------------------------------------------
(* Theorems *)

\* All variables keep their types (the state of the engine and of every call).
THEOREM TypeCorrect == Spec => []TypeOK
<1>1. Inv => TypeOK
  BY DEF Inv, Core, Locals, Shared, TypeOK, States
<1> QED
  BY <1>1, Invariance, PTL

\* A URL is never downloaded twice to the same destination at the same time
\* (_downloadDedupe).
THEOREM SingleFlight == Spec => []OneFlight
<1>1. Inv => OneFlight
  BY DEF Inv, Core, FlightInv, OneFlight
<1> QED
  BY <1>1, Invariance, PTL

\* Whenever a download waits, one runs whose end will drain the queue
\* (_drainQueue).
THEOREM QueueIsServed == Spec => []NoStrandedQueue
<1>1. Inv => NoStrandedQueue
  <2> SUFFICES ASSUME Inv, queue # <<>>, Downloads = {}
               PROVE  FALSE
    BY DEF NoStrandedQueue
  <2>1. active > 0 /\ active = Cardinality(Downloads)
    BY DEF Inv, Core, LineInv, CountInv
  <2> QED
    BY <2>1, FS_EmptySet
<1> QED
  BY <1>1, Invariance, PTL

\* No download starts beyond maxConcurrency, lowered or raised meanwhile
\* (_drainQueue, adaptOnRateLimit).
THEOREM LimitIsRespected == Spec => StartsWithinLimit
<1>1. Inv /\ [Next]_vars =>
        [Downloads' \ Downloads # {} => Cardinality(Downloads') <= limit']_vars
  <2> SUFFICES ASSUME Inv, [Next]_vars, Downloads' \ Downloads # {}
               PROVE  Cardinality(Downloads') <= limit'
    OBVIOUS
  <2>1. Inv' /\ Within
    BY NextKeeps
  <2>2. active' = Cardinality(Downloads')
    BY <2>1 DEF Inv, Core, CountInv
  <2> QED
    BY <2>1, <2>2 DEF Within
<1> QED
  BY <1>1, Invariance, PTL DEF Spec, StartsWithinLimit

\* The queue stays in the order of its priorities, and a request enters it
\* behind those of its own (_enqueue, PRIORITY_WEIGHTS).
THEOREM OrderIsKept == Spec => QueueIsFair
<1> DEFINE InOrder == Sorted(queue)
<1>1. Init => InOrder
  BY EmptySeq DEF Init, Sorted
<1>2. Inv /\ InOrder /\ [Next]_vars => InOrder'
  BY NextIsFair
<1>3. Inv /\ InOrder /\ [Next]_vars =>
        [ \A i, j \in DOMAIN queue' : i < j =>
            \/ WeightOf[queue'[i]] < WeightOf[queue'[j]]
            \/ /\ WeightOf[queue'[i]] = WeightOf[queue'[j]]
               /\ queue'[i] \in {queue[k] : k \in DOMAIN queue} ]_vars
  BY NextIsFair
<1> HIDE DEF InOrder
<1> QED
  BY <1>1, <1>2, <1>3, Invariance, PTL DEF Spec, QueueIsFair

\* A destination where every request expects a checksum never holds anything
\* else (_downloadSingle verifies before _atomicFinalize).
THEOREM ContentsAreVerified == Spec => []VerifiedLands
<1>1. Init => VerifiedLands
  BY DEF Init, VerifiedLands
<1>2. ASSUME Inv, VerifiedLands, [Next]_vars
      PROVE  VerifiedLands'
  <2>1. CASE UNCHANGED file
    BY <1>2, <2>1 DEF VerifiedLands
  <2>2. ASSUME NEW r \in Request, Fetch(r), file' # file
        PROVE  VerifiedLands'
    <3>1. PICK genuine \in BOOLEAN :
            /\ file' = [file EXCEPT ![DestOf[r]] =
                           [url |-> UrlOf[r], genuine |-> genuine]]
            /\ r \in Expecting => genuine
      BY <2>2, Zenon DEF Fetch, Accepts
    <3>2. file \in [Dest -> Content \cup {NoFile}]
      BY <1>2 DEF Inv, Shared
    <3> SUFFICES ASSUME NEW d \in Dest,
                        \A s \in Request \ Expecting : DestOf[s] # d
                 PROVE  file'[d] = NoFile \/ file'[d].genuine
      BY DEF VerifiedLands
    <3>3. CASE d = DestOf[r]
      BY <3>1, <3>2, <3>3
    <3>4. CASE d # DestOf[r]
      <4>1. file'[d] = file[d]
        BY <3>1, <3>2, <3>4
      <4> QED
        BY <1>2, <4>1 DEF VerifiedLands
    <3> QED
      BY <3>3, <3>4
  <2>3. ASSUME NEW r \in Request, Call(r) \/ Step(r) \/ Abort(r), ~Fetch(r)
        PROVE  UNCHANGED file
    BY <2>3 DEF Call, Step, Abort, Look, Lookup, ServeCached, Attempt, Record,
                Finish, Wake, GiveUp
  <2>4. CASE \/ \E u \in Url : InvalidateCache(u)
             \/ AdaptOnSuccess
             \/ UNCHANGED vars
    BY <2>1, <2>4 DEF InvalidateCache, AdaptOnSuccess, vars
  <2> QED
    BY <1>2, <2>1, <2>2, <2>3, <2>4 DEF Next, Step
<1> QED
  BY <1>1, <1>2, Invariance, PTL DEF Spec
=============================================================================
