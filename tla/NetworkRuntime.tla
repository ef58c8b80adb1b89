--------------------------- MODULE NetworkRuntime ---------------------------
(***************************************************************************)
(* src/src/network/runtime.ts: the slots of each category of requests      *)
(* (CategoryConcurrencyLimiter), the retries of an endpoint (RetryBudget)  *)
(* and a value that is refreshed behind its readers                        *)
(* (StaleWhileRevalidate).                                                 *)
(***************************************************************************)
EXTENDS Naturals, Sequences, FiniteSets

CONSTANTS
    Run, Category, categoryOf,   \* calls of run, and their categories
    Limit,                       \* Limit[k]: slots of a category
    Getter,                      \* calls of get
    FreshTTL, StaleTTL,          \* options of the value
    MaxBudget, Window,           \* options of the budget
    MaxTime                      \* bound on the clock

NoValue == [version |-> 0, fetchedAt |-> 0]

VARIABLES
    now,
    slot, busy, waiting,     \* per call; per category: active, queue
    used, windowStart,       \* the budget of one endpoint
    record, refreshing,      \* the value, and whether it is being refreshed
    getter, source           \* per call of get; the version of the source

runtimeVars == <<now, slot, busy, waiting, used, windowStart, record,
                 refreshing, getter, source>>
limiterVars == <<slot, busy, waiting>>
budgetVars == <<used, windowStart>>
valueVars == <<record, refreshing, getter, source>>

RuntimeInit ==
    /\ now = 1
    /\ slot = [r \in Run |-> "new"]
    /\ busy = [k \in Category |-> 0]
    /\ waiting = [k \in Category |-> << >>]
    /\ used = 0
    /\ windowStart = 1
    /\ record = NoValue
    /\ refreshing = FALSE
    /\ getter = [c \in Getter |-> "idle"]
    /\ source = 1

-----------------------------------------------------------------------------
\* Mutant of AcquireSlot: all categories share the slots of each.
AcquireShared(r) ==
    LET k == categoryOf[r]
    IN  /\ slot[r] = "new"
        /\ IF \A o \in Category : busy[o] < Limit[o]
           THEN /\ busy' = [busy EXCEPT ![k] = @ + 1]
                /\ slot' = [slot EXCEPT ![r] = "running"]
                /\ UNCHANGED waiting
           ELSE /\ waiting' = [waiting EXCEPT ![k] = Append(@, r)]
                /\ slot' = [slot EXCEPT ![r] = "waiting"]
                /\ UNCHANGED busy
        /\ UNCHANGED <<now, budgetVars, valueVars>>

AcquireSlot(r) ==
    LET k == categoryOf[r]
    IN  /\ slot[r] = "new"
        /\ IF busy[k] < Limit[k]
           THEN /\ busy' = [busy EXCEPT ![k] = @ + 1]
                /\ slot' = [slot EXCEPT ![r] = "running"]
                /\ UNCHANGED waiting
           ELSE /\ waiting' = [waiting EXCEPT ![k] = Append(@, r)]
                /\ slot' = [slot EXCEPT ![r] = "waiting"]
                /\ UNCHANGED busy
        /\ UNCHANGED <<now, budgetVars, valueVars>>

\* The function settles; the next call of the category has its slot.
ReleaseSlot(r) ==
    LET k == categoryOf[r]
    IN  /\ slot[r] = "running"
        /\ IF waiting[k] = << >>
           THEN /\ busy' = [busy EXCEPT ![k] = @ - 1]
                /\ slot' = [slot EXCEPT ![r] = "done"]
                /\ UNCHANGED waiting
           ELSE /\ slot' = [slot EXCEPT ![r] = "done", ![Head(waiting[k])] = "running"]
                /\ waiting' = [waiting EXCEPT ![k] = Tail(@)]
                /\ UNCHANGED busy
        /\ UNCHANGED <<now, budgetVars, valueVars>>

-----------------------------------------------------------------------------
\* tryConsume; when the budget of the window is spent it changes nothing.
Consume ==
    LET over == now - windowStart >= Window
        spent == IF over THEN 0 ELSE used
    IN  /\ spent < MaxBudget
        /\ used' = spent + 1
        /\ windowStart' = IF over THEN now ELSE windowStart
        /\ UNCHANGED <<now, limiterVars, valueVars>>

-----------------------------------------------------------------------------
Age ==
    IF record = NoValue \/ now - record.fetchedAt >= StaleTTL THEN "expired"
    ELSE IF now - record.fetchedAt < FreshTTL THEN "fresh"
    ELSE "stale"

\* A fresh or stale value is served at once, a stale one starts a refresh.
Get(c) ==
    /\ getter[c] = "idle"
    /\ getter' = [getter EXCEPT ![c] = IF Age = "expired" THEN "fetching" ELSE "served"]
    /\ refreshing' = (refreshing \/ Age = "stale")
    /\ UNCHANGED <<now, limiterVars, budgetVars, record, source>>

\* Whatever was invalidated or stored meanwhile; the value may have been
\* read from the source at any time since the fetch began.
Store(version) == record' = [version |-> version, fetchedAt |-> now]

RefreshEnds ==
    /\ refreshing
    /\ refreshing' = FALSE
    /\ \/ \E v \in 1 .. source : Store(v)
       \/ UNCHANGED record
    /\ UNCHANGED <<now, limiterVars, budgetVars, getter, source>>

FetchEnds(c) ==
    /\ getter[c] = "fetching"
    /\ getter' = [getter EXCEPT ![c] = "served"]
    /\ \/ \E v \in 1 .. source : Store(v)
       \/ UNCHANGED record
    /\ UNCHANGED <<now, limiterVars, budgetVars, refreshing, source>>

\* The source changes and the holder is told to forget.
Invalidate ==
    /\ record # NoValue
    /\ source = 1
    /\ source' = 2
    /\ record' = NoValue
    /\ UNCHANGED <<now, limiterVars, budgetVars, refreshing, getter>>

Tick ==
    /\ now < MaxTime
    /\ now' = now + 1
    /\ UNCHANGED <<limiterVars, budgetVars, valueVars>>

RuntimeNext ==
    \/ \E r \in Run : AcquireSlot(r) \/ ReleaseSlot(r)
    \/ Consume
    \/ \E c \in Getter : Get(c) \/ FetchEnds(c)
    \/ RefreshEnds \/ Invalidate \/ Tick

-----------------------------------------------------------------------------
(* A category's slots are its own: a call waits only while all slots of    *)
(* its category are taken by calls of it, and never more than those run.   *)
SlotsOfOwnCategory ==
    \A k \in Category :
        LET running == {r \in Run : slot[r] = "running" /\ categoryOf[r] = k}
        IN  /\ busy[k] = Cardinality(running)
            /\ busy[k] <= Limit[k]
            /\ waiting[k] # << >> => busy[k] = Limit[k]
=============================================================================
