------------------------- MODULE ConcurrencyLimiter -------------------------
(***************************************************************************)
(* ConcurrencyLimiter (src/src/registry/concurrency-limiter.ts): run takes *)
(* a slot, calls its function and releases the slot.  A call that finds no *)
(* slot waits in a queue for at most queueTimeoutMs.                       *)
(*                                                                         *)
(* The timeout looks for its own entry in the queue by comparing the       *)
(* entry's resolve, a wrapper, with the promise's resolve: it never finds  *)
(* it.  The call is rejected and its entry stays.                          *)
(***************************************************************************)
EXTENDS Naturals, Sequences, FiniteSets

CONSTANTS
    Task,            \* calls of run
    MaxConcurrent,   \* the limiter's number of slots
    MayTimeOut       \* calls for which a wait can exceed queueTimeoutMs

ASSUME LimiterAssumption ==
    /\ IsFiniteSet(Task)
    /\ MaxConcurrent \in Nat \ {0}
    /\ MayTimeOut \subseteq Task

VARIABLES
    pc,        \* pc[t]: idle, queued, active, rejected or finished
    running,   \* the limiter's count of slots taken
    queue,     \* the limiter's queue of entries
    cleared    \* history: clear has been called

vars == <<pc, running, queue, cleared>>

TypeOK ==
    /\ pc \in [Task -> {"idle", "queued", "active", "rejected", "finished"}]
    /\ running \in 0 .. MaxConcurrent
    /\ queue \in Seq(Task)
    /\ cleared \in BOOLEAN

Init ==
    /\ pc = [t \in Task |-> "idle"]
    /\ running = 0
    /\ queue = <<>>
    /\ cleared = FALSE

Active == {t \in Task : pc[t] = "active"}

-----------------------------------------------------------------------------
\* Mutant of Acquire: one slot too many.
AcquireOneMore(t) ==
    /\ pc[t] = "idle"
    /\ UNCHANGED cleared
    /\ IF running <= MaxConcurrent
       THEN /\ running' = running + 1
            /\ pc' = [pc EXCEPT ![t] = "active"]
            /\ UNCHANGED queue
       ELSE /\ queue' = Append(queue, t)
            /\ pc' = [pc EXCEPT ![t] = "queued"]
            /\ UNCHANGED running

Acquire(t) ==
    /\ pc[t] = "idle"
    /\ UNCHANGED cleared
    /\ IF running < MaxConcurrent
       THEN /\ running' = running + 1
            /\ pc' = [pc EXCEPT ![t] = "active"]
            /\ UNCHANGED queue
       ELSE /\ queue' = Append(queue, t)
            /\ pc' = [pc EXCEPT ![t] = "queued"]
            /\ UNCHANGED running

\* Mutant of TimeOut: deadlines are looked at when a function ends.
TimeOutBusy(t) ==
    /\ t \in MayTimeOut
    /\ pc[t] = "queued"
    /\ Active # {}
    /\ pc' = [pc EXCEPT ![t] = "rejected"]
    /\ UNCHANGED <<running, queue, cleared>>

\* The call is rejected; its entry stays in the queue.
TimeOut(t) ==
    /\ t \in MayTimeOut
    /\ pc[t] = "queued"
    /\ pc' = [pc EXCEPT ![t] = "rejected"]
    /\ UNCHANGED <<running, queue, cleared>>

Less(n) == IF n > 0 THEN n - 1 ELSE n

\* Mutant of Release: the next call is resumed without counting its slot.
ReleaseUncounted(t) ==
    /\ pc[t] = "active"
    /\ UNCHANGED cleared
    /\ running' = Less(running)
    /\ IF queue = <<>>
       THEN /\ pc' = [pc EXCEPT ![t] = "finished"]
            /\ UNCHANGED queue
       ELSE /\ queue' = Tail(queue)
            /\ pc' = [pc EXCEPT
                  ![t] = "finished",
                  ![Head(queue)] = IF @ = "queued" THEN "active" ELSE @]

\* The function settles, in whatever way.  The entry that is taken from the
\* queue counts a slot, whether or not its call still waits.
Release(t) ==
    /\ pc[t] = "active"
    /\ UNCHANGED cleared
    /\ IF queue = <<>>
       THEN /\ running' = Less(running)
            /\ pc' = [pc EXCEPT ![t] = "finished"]
            /\ UNCHANGED queue
       ELSE /\ running' = Less(running) + 1
            /\ queue' = Tail(queue)
            /\ pc' = [pc EXCEPT
                  ![t] = "finished",
                  ![Head(queue)] = IF @ = "queued" THEN "active" ELSE @]

\* The slots are forgotten, not taken from the calls that have them.
Clear ==
    /\ pc' = [t \in Task |-> IF pc[t] = "queued" THEN "rejected" ELSE pc[t]]
    /\ running' = 0
    /\ queue' = <<>>
    /\ cleared' = TRUE

Next ==
    \/ \E t \in Task : Acquire(t) \/ TimeOut(t) \/ Release(t)
    \/ Clear

\* The functions that run is given settle, and timers fire.
Fairness == \A t \in Task : WF_vars(Release(t)) /\ WF_vars(TimeOut(t))

Spec == Init /\ [][Next]_vars
FairSpec == Spec /\ Fairness

-----------------------------------------------------------------------------
\* However calls wait, time out and release, no more than MaxConcurrent
\* functions run at a time, until clear forgets those that run (acquire,
\* release).
NeverOverLimit == ~cleared => Cardinality(Active) <= MaxConcurrent

\* Nobody waits while the limiter believes that a slot is free, so that a new
\* call cannot overtake the queue (acquire takes a slot without looking at the
\* queue).
QueuedOnlyWhenFull == queue # <<>> => running = MaxConcurrent

\* No call of run waits for ever, although slots get lost to the entries of
\* calls that timed out and no function may be left to release one (acquire
\* starts a timer for every call that waits).
WaitsEnd == \A t \in MayTimeOut : pc[t] = "queued" ~> pc[t] # "queued"
=============================================================================
