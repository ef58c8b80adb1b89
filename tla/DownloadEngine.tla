--------------------------- MODULE DownloadEngine ---------------------------
(***************************************************************************)
(* DownloadEngine (src/src/download/DownloadEngine.ts): download(request)  *)
(* joins a download of the same URL to the same destination that is under  *)
(* way, or enters a queue ordered by priority.  _drainQueue starts the     *)
(* first of the queue while fewer than maxConcurrency downloads run.  A    *)
(* download looks at its destination, then at the cache, then fetches, with *)
(* retries; a rate-limited response lowers maxConcurrency.                 *)
(*                                                                         *)
(* An action is the code from one await to the next that matters.  A       *)
(* response is streamed to a temporary file of its own and renamed into    *)
(* place, so that a destination changes in one step.  Nothing is ever      *)
(* resumed: the file that _streamDownload would resume is only written by  *)
(* a download that resumes.                                                *)
(***************************************************************************)
EXTENDS Integers, Sequences, FiniteSets, SequencesExt, FiniteSetsExt

CONSTANTS
    Request,         \* calls of download
    Url, Dest,       \* URLs and destinations
    OldDest,         \* destinations that earlier runs have downloaded to
    UrlOf, DestOf,   \* what a request asks for, and where to
    WeightOf,        \* its weight in PRIORITY_WEIGHTS: the smaller the sooner
    Expecting,       \* requests with an expectedChecksum
    Overwriting,     \* requests with overwrite
    Abortable,       \* requests whose signal may be aborted
    AttemptsOf,      \* the retries of a request, plus one
    MaxConcurrency,  \* as configured
    MaxQueueSize,    \* as configured
    Floor, Cap,      \* 2 and 6: where adapting maxConcurrency ends
    MayFail,         \* what can fail for a request: "files", file operations;
                     \* "transient", "fatal", "limit", responses; "corrupt", contents
    NoPath, NoCall, NoFile

ASSUME EngineAssumption ==
    /\ IsFiniteSet(Request)
    /\ OldDest \subseteq Dest
    /\ UrlOf \in [Request -> Url]
    /\ DestOf \in [Request -> Dest]
    /\ WeightOf \in [Request -> Nat]
    /\ MayFail \in
         [Request -> SUBSET {"files", "transient", "fatal", "limit", "corrupt"}]
    /\ AttemptsOf \in [Request -> Nat \ {0}]
    /\ MaxConcurrency \in Nat \ {0}
    /\ MaxQueueSize \in Nat
    /\ Floor \in Nat \ {0}
    /\ Cap \in Nat
    /\ NoPath \notin Dest
    /\ NoCall \notin Request

\* What a file holds: what a URL serves, as its checksum says or not.
Content == [url : Url, genuine : BOOLEAN]

ASSUME ContentAssumption == NoFile \notin Content

VARIABLES
    pc,        \* where a call is
    queue,     \* _queue
    active,    \* _activeCount
    limit,     \* _config.maxConcurrency
    flight,    \* _downloadDedupe: the call that has a URL and a destination
    attempts,  \* attempts of a call
    strikes,   \* its consecutiveRateLimits
    path,      \* the path a call found in the cache, later that of its result
    aborted,   \* requests whose signal is aborted
    file,      \* the content of a destination
    cache      \* the filePath the cache has for a URL

vars == <<pc, queue, active, limit, flight, attempts, strikes, path,
          aborted, file, cache>>

Running == {"look", "lookup", "cached", "attempt", "fetch", "record",
            "finish", "delay", "failing"}
Settled == {"done", "failed", "cancelled"}
InFlight == {"queued"} \cup Running

Key(r) == <<UrlOf[r], DestOf[r]>>
Downloads == {r \in Request : pc[r] \in Running}

TypeOK ==
    /\ pc \in [Request -> {"idle", "shared"} \cup InFlight \cup Settled]
    /\ queue \in Seq(Request)
    /\ active \in Nat
    /\ limit \in Nat \ {0}
    /\ flight \in [Url \X Dest -> Request \cup {NoCall}]
    /\ attempts \in [Request -> Nat]
    /\ strikes \in [Request -> Nat]
    /\ path \in [Request -> Dest \cup {NoPath}]
    /\ aborted \subseteq Request
    /\ file \in [Dest -> Content \cup {NoFile}]
    /\ cache \in [Url -> Dest \cup {NoPath}]

\* Files and cache entries are those of earlier runs.
Init ==
    /\ pc = [r \in Request |-> "idle"]
    /\ queue = <<>>
    /\ active = 0
    /\ limit = MaxConcurrency
    /\ flight = [k \in Url \X Dest |-> NoCall]
    /\ attempts = [r \in Request |-> 0]
    /\ strikes = [r \in Request |-> 0]
    /\ path = [r \in Request |-> NoPath]
    /\ aborted = {}
    /\ file \in [Dest -> [url : Url, genuine : {TRUE}] \cup {NoFile}]
    /\ \A d \in Dest \ OldDest : file[d] = NoFile
    /\ cache \in [Url -> OldDest \cup {NoPath}]

-----------------------------------------------------------------------------
(* The queue *)

\* Mutant of Place: a request goes before those of the same priority.
PlaceFirst(r, q) ==
    LET later == {i \in DOMAIN q : WeightOf[q[i]] >= WeightOf[r]}
    IN  IF later = {} THEN Len(q) + 1 ELSE Min(later)

\* A request goes before the first of a lower priority, else to the end.
Place(r, q) ==
    LET later == {i \in DOMAIN q : WeightOf[q[i]] > WeightOf[r]}
    IN  IF later = {} THEN Len(q) + 1 ELSE Min(later)

\* Mutant of Startable: one more.
StartableMore(q, busy, lim) == Min({Len(q), Max({0, lim + 1 - busy})})

\* Mutant of Startable: one slot is never used.
StartableLess(q, busy, lim) == Min({Len(q), Max({0, lim - 1 - busy})})

\* How many of queue q _drainQueue starts beside busy running downloads.
Startable(q, busy, lim) == Min({Len(q), Max({0, lim - busy})})

\* _drainQueue: the first of q start; "others" says where all calls are
\* otherwise.
Drain(q, busy, lim, others) ==
    LET n == Startable(q, busy, lim)
        started == {q[i] : i \in 1 .. n}
    IN  /\ queue' = SubSeq(q, n + 1, Len(q))
        /\ active' = busy + n
        /\ pc' = [r \in Request |-> IF r \in started THEN "look" ELSE others[r]]

\* Mutant of Call: a call does not join one that is under way.
CallAnyway(r) ==
    /\ pc[r] = "idle"
    /\ UNCHANGED <<limit, attempts, strikes, path, aborted, file, cache>>
    /\ IF Len(queue) >= MaxQueueSize
       THEN /\ pc' = [pc EXCEPT ![r] = "failed"]
            /\ UNCHANGED <<queue, active, flight>>
       ELSE /\ flight' = [flight EXCEPT ![Key(r)] = r]
            /\ Drain(InsertAt(queue, Place(r, queue), r), active, limit,
                     [pc EXCEPT ![r] = "queued"])

\* download and _enqueue.
Call(r) ==
    /\ pc[r] = "idle"
    /\ UNCHANGED <<limit, attempts, strikes, path, aborted, file, cache>>
    /\ IF flight[Key(r)] # NoCall
       THEN /\ pc' = [pc EXCEPT ![r] = "shared"]
            /\ UNCHANGED <<queue, active, flight>>
       ELSE IF Len(queue) >= MaxQueueSize
       THEN /\ pc' = [pc EXCEPT ![r] = "failed"]
            /\ UNCHANGED <<queue, active, flight>>
       ELSE /\ flight' = [flight EXCEPT ![Key(r)] = r]
            /\ Drain(InsertAt(queue, Place(r, queue), r), active, limit,
                     [pc EXCEPT ![r] = "queued"])

\* A download is over: those who joined it get its outcome, the entry in
\* _downloadDedupe goes, the slot is free and the queue drained, before
\* anybody who waits for the outcome goes on.
Settle(r, outcome, where, lim) ==
    LET mine == {r} \cup {s \in Request : pc[s] = "shared" /\ Key(s) = Key(r)}
    IN  /\ flight' = [flight EXCEPT ![Key(r)] = NoCall]
        /\ path' = [s \in Request |-> IF s \in mine THEN where ELSE path[s]]
        /\ attempts' = [attempts EXCEPT ![r] = 0]
        /\ strikes' = [strikes EXCEPT ![r] = 0]
        /\ Drain(queue, active - 1, lim,
                 [s \in Request |-> IF s \in mine THEN outcome ELSE pc[s]])

\* A download goes on to its next step.
Goto(r, next) ==
    /\ pc' = [pc EXCEPT ![r] = next]
    /\ UNCHANGED <<queue, active, flight>>

-----------------------------------------------------------------------------
(* A download *)

\* The destination answers a request: it has a file, which is what is expected.
Answers(r) ==
    /\ r \notin Overwriting
    /\ file[DestOf[r]] # NoFile
    /\ r \in Expecting => file[DestOf[r]] = [url |-> UrlOf[r], genuine |-> TRUE]

\* Directories are made, then the destination is looked at.
Look(r) ==
    /\ pc[r] = "look"
    /\ UNCHANGED <<limit, aborted, file, cache>>
    /\ \/ /\ "files" \in MayFail[r]
          /\ Settle(r, "failed", NoPath, limit)
       \/ /\ Answers(r)
          /\ Settle(r, "done", DestOf[r], limit)
       \/ /\ ~Answers(r)
          /\ Goto(r, "lookup")
          /\ UNCHANGED <<attempts, strikes, path>>

Lookup(r) ==
    /\ pc[r] = "lookup"
    /\ path' = [path EXCEPT ![r] = cache[UrlOf[r]]]
    /\ Goto(r, IF cache[UrlOf[r]] = NoPath THEN "attempt" ELSE "cached")
    /\ UNCHANGED <<limit, attempts, strikes, aborted, file, cache>>

\* Whatever the file at the cached path holds is the result, whatever the
\* request expects and wherever it wants it.
ServeCached(r) ==
    /\ pc[r] = "cached"
    /\ UNCHANGED <<limit, aborted, file>>
    /\ IF file[path[r]] # NoFile
       THEN /\ Settle(r, "done", path[r], limit)
            /\ UNCHANGED cache
       ELSE /\ cache' = [cache EXCEPT ![UrlOf[r]] = NoPath]
            /\ path' = [path EXCEPT ![r] = NoPath]
            /\ Goto(r, "attempt")
            /\ UNCHANGED <<attempts, strikes>>

Attempt(r) ==
    /\ pc[r] = "attempt"
    /\ UNCHANGED <<limit, aborted, file, cache>>
    /\ IF r \in aborted
       THEN Settle(r, "cancelled", NoPath, limit)
       ELSE /\ attempts' = [attempts EXCEPT ![r] = @ + 1]
            /\ Goto(r, "fetch")
            /\ UNCHANGED <<strikes, path>>

\* Mutant of Lowered: there is no floor.
LoweredToZero(lim) == lim - 1

\* adaptOnRateLimit.
Lowered(lim) == IF lim > Floor THEN lim - 1 ELSE lim

\* The catch clause of an attempt.
Error(r, kind) ==
    LET limited == kind = "limit"
        lim == IF limited THEN Lowered(limit) ELSE limit
        struck == IF limited THEN strikes[r] + 1 ELSE 0
        isLast == attempts[r] = AttemptsOf[r] \/ struck >= 2 \/ kind = "fatal"
    IN  /\ limit' = lim
        /\ IF r \in aborted
           THEN Settle(r, "cancelled", NoPath, lim)
           ELSE /\ strikes' = [strikes EXCEPT ![r] = struck]
                /\ Goto(r, IF isLast THEN "failing" ELSE "delay")
                /\ UNCHANGED <<attempts, path>>

\* Mutant of Accepts: contents are not verified.
AcceptsAll(r, content) == TRUE

Accepts(r, content) == r \in Expecting => content.genuine

\* The response has come and, when it is accepted, is renamed into place.
Fetch(r) ==
    /\ pc[r] = "fetch"
    /\ UNCHANGED <<aborted, cache>>
    /\ \/ \E genuine \in IF "corrupt" \in MayFail[r] THEN BOOLEAN ELSE {TRUE} :
            LET content == [url |-> UrlOf[r], genuine |-> genuine]
            IN  /\ UNCHANGED limit
                /\ IF Accepts(r, content)
                   THEN /\ file' = [file EXCEPT ![DestOf[r]] = content]
                        /\ Goto(r, "record")
                        /\ UNCHANGED <<attempts, strikes, path>>
                   ELSE /\ Settle(r, "failed", NoPath, limit)
                        /\ UNCHANGED file
       \/ \E kind \in {"transient", "fatal", "limit"} \cap MayFail[r] :
            /\ Error(r, kind)
            /\ UNCHANGED file
       \/ /\ r \in aborted
          /\ Error(r, "transient")
          /\ UNCHANGED file

\* cache.set.
Record(r) ==
    /\ pc[r] = "record"
    /\ UNCHANGED <<aborted, file>>
    /\ \/ /\ cache' = [cache EXCEPT ![UrlOf[r]] = DestOf[r]]
          /\ Goto(r, "finish")
          /\ UNCHANGED <<limit, attempts, strikes, path>>
       \/ /\ "files" \in MayFail[r]
          /\ Error(r, "transient")
          /\ UNCHANGED cache

\* The metadata is written, the result returned.
Finish(r) ==
    /\ pc[r] = "finish"
    /\ UNCHANGED <<aborted, file, cache>>
    /\ \/ /\ Settle(r, "done", DestOf[r], limit)
          /\ UNCHANGED limit
       \/ /\ "files" \in MayFail[r]
          /\ Error(r, "transient")

Wake(r) ==
    /\ pc[r] = "delay"
    /\ Goto(r, "attempt")
    /\ UNCHANGED <<limit, attempts, strikes, path, aborted, file, cache>>

GiveUp(r) ==
    /\ pc[r] = "failing"
    /\ Settle(r, "failed", NoPath, limit)
    /\ UNCHANGED <<limit, aborted, file, cache>>

-----------------------------------------------------------------------------
(* What happens beside the downloads *)

Abort(r) ==
    /\ r \in Abortable \ aborted
    /\ pc[r] \in InFlight \cup {"shared"}
    /\ aborted' = aborted \cup {r}
    /\ UNCHANGED <<pc, queue, active, limit, flight, attempts, strikes,
                   path, file, cache>>

\* invalidateCache; the cache may forget on its own, too.
InvalidateCache(u) ==
    /\ cache[u] # NoPath
    /\ cache' = [cache EXCEPT ![u] = NoPath]
    /\ UNCHANGED <<pc, queue, active, limit, flight, attempts, strikes,
                   path, aborted, file>>

\* Whoever uses the engine may call this; it does not drain the queue.  That
\* the rate limits of the last minute forbid it is left out.
AdaptOnSuccess ==
    /\ limit < Cap
    /\ limit' = limit + 1
    /\ UNCHANGED <<pc, queue, active, flight, attempts, strikes, path,
                   aborted, file, cache>>

Step(r) ==
    \/ Look(r) \/ Lookup(r) \/ ServeCached(r) \/ Attempt(r) \/ Fetch(r)
    \/ Record(r) \/ Finish(r) \/ Wake(r) \/ GiveUp(r)

Next ==
    \/ \E r \in Request : Call(r) \/ Step(r) \/ Abort(r)
    \/ \E u \in Url : InvalidateCache(u)
    \/ AdaptOnSuccess

\* Responses have a timeout, timers fire.
Fairness == \A r \in Request : WF_vars(Step(r))

Spec == Init /\ [][Next]_vars
FairSpec == Spec /\ Fairness

-----------------------------------------------------------------------------
(* Properties *)

\* No download waits while none runs, however limits are lowered and raised
\* and calls fail: there is always one whose end drains the queue
\* (_drainQueue, called when a request enters and when one ends).
NoStrandedQueue == queue # <<>> => Downloads # {}

\* A download only starts when no more run than maxConcurrency says by then,
\* even when it was lowered while more were running.
StartsWithinLimit ==
    [][ Downloads' \ Downloads # {} => Cardinality(Downloads') <= limit' ]_vars

\* A request that enters the queue is not placed before one of its own or a
\* higher priority, and those in the queue keep their order.
QueueIsFair ==
    [][ \A i, j \in DOMAIN queue' : i < j =>
          \/ WeightOf[queue'[i]] < WeightOf[queue'[j]]
          \/ /\ WeightOf[queue'[i]] = WeightOf[queue'[j]]
             /\ queue'[i] \in {queue[k] : k \in DOMAIN queue} ]_vars

\* A URL is not downloaded twice to the same destination at the same time:
\* the entry in _downloadDedupe stays until the download is over.
OneFlight ==
    \A r, s \in Request :
        pc[r] \in InFlight /\ pc[s] \in InFlight /\ Key(r) = Key(s) => r = s

\* What lands where checksums are expected is what they say, whoever shares a
\* destination and however often it is tried (checksum before _atomicFinalize).
VerifiedLands ==
    \A d \in Dest :
        \/ \E r \in Request \ Expecting : DestOf[r] = d
        \/ file[d] = NoFile
        \/ file[d].genuine

\* Every call settles: those in the queue, those that wait out a delay and
\* those that joined another's download.  (A call is made once.)
EveryCallSettles ==
    <>[](\A r \in Request : pc[r] \in {"idle"} \cup Settled)
=============================================================================
