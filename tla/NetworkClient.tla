--------------------------- MODULE NetworkClient ---------------------------
(***************************************************************************)
(* NetworkClient (src/src/network/client.ts): fetch joins a request for    *)
(* the same URL, else waits for a slot and runs the request with retries.  *)
(*                                                                         *)
(* Even a call that finds a free slot goes on in a later step: calls that  *)
(* come meanwhile find the same slot free, and the same URL not under way. *)
(***************************************************************************)
EXTENDS Naturals, Sequences, FiniteSets

CONSTANTS
    Fetch,            \* calls of fetch
    Url, urlOf,       \* urlOf[c]: what a call asks for
    MaxConcurrency,   \* config.maxConcurrency
    MaxRetries        \* config.retry.maxRetries

NoRequest == [by |-> "none", refs |-> 0]

VARIABLES
    at,           \* at[c]: where the call is
    joined,       \* joined[c]: the call whose request it shares
    inFlight,     \* inFlight[u]: the request under way and its references
    slots,        \* activeRequests
    line,         \* the calls that wait for a slot
    attempt,      \* attempt[c]: retries made
    etag          \* URLs with an entry of the conditional cache

networkVars == <<at, joined, inFlight, slots, line, attempt, etag>>

NetworkInit ==
    /\ at = [c \in Fetch |-> "new"]
    /\ joined = [c \in Fetch |-> c]
    /\ inFlight = [u \in Url |-> NoRequest]
    /\ slots = 0
    /\ line = << >>
    /\ attempt = [c \in Fetch |-> 0]
    /\ etag = {}

\* The call waits for the request, whoever else has joined it.
Join(c) ==
    /\ at[c] = "new"
    /\ LET url == urlOf[c]
       IN  /\ inFlight[url] # NoRequest
           /\ inFlight' = [inFlight EXCEPT ![url].refs = @ + 1]
           /\ joined' = [joined EXCEPT ![c] = inFlight[url].by]
    /\ at' = [at EXCEPT ![c] = "joined"]
    /\ UNCHANGED <<slots, line, attempt, etag>>

WaitForSlot(c) ==
    /\ at[c] = "new"
    /\ inFlight[urlOf[c]] = NoRequest
    /\ IF slots < MaxConcurrency
       THEN at' = [at EXCEPT ![c] = "admitted"] /\ UNCHANGED line
       ELSE at' = [at EXCEPT ![c] = "waiting"] /\ line' = Append(line, c)
    /\ UNCHANGED <<joined, inFlight, slots, attempt, etag>>

\* An entry of another request for the URL is overwritten.
Start(c) ==
    /\ at[c] = "admitted"
    /\ at' = [at EXCEPT ![c] = "running"]
    /\ inFlight' = [inFlight EXCEPT ![urlOf[c]] = [by |-> c, refs |-> 1]]
    /\ slots' = slots + 1
    /\ UNCHANGED <<joined, line, attempt, etag>>

\* 2xx; an answer may carry an etag.
Succeed(c) ==
    /\ at[c] = "running"
    /\ at' = [at EXCEPT ![c] = "answered"]
    /\ etag' \in {etag, etag \cup {urlOf[c]}}
    /\ UNCHANGED <<joined, inFlight, slots, line, attempt>>

\* A status that may be retried, a timeout, a network error; and every other
\* status than 401, 403 and 404, since its error is a network error too.
FailTransient(c) ==
    /\ at[c] = "running"
    /\ IF attempt[c] < MaxRetries
       THEN attempt' = [attempt EXCEPT ![c] = @ + 1] /\ UNCHANGED at
       ELSE at' = [at EXCEPT ![c] = "answered"] /\ UNCHANGED attempt
    /\ UNCHANGED <<joined, inFlight, slots, line, etag>>

\* 304, for a request that carried an etag, or 401, 403 or 404.
Refuse(c) ==
    /\ at[c] = "running"
    /\ at' = [at EXCEPT ![c] = "answered"]
    /\ UNCHANGED <<joined, inFlight, slots, line, attempt, etag>>

\* The entry is the URL's, not the request's that ended.
Less(u) ==
    IF inFlight[u].refs <= 1 THEN NoRequest ELSE [inFlight[u] EXCEPT !.refs = @ - 1]

\* Nobody takes a slot while the line is drained: all of it is admitted.
Drained(n) == IF n < MaxConcurrency THEN << >> ELSE line

\* Mutant of Settle: the line is looked at before the slot is given back.
SettleLate(c) ==
    /\ at[c] = "answered"
    /\ inFlight' = [inFlight EXCEPT ![urlOf[c]] = Less(urlOf[c])]
    /\ slots' = slots - 1
    /\ line' = Drained(slots)
    /\ at' = [o \in Fetch |->
                 IF o = c THEN "done"
                 ELSE IF at[o] = "waiting" /\ slots < MaxConcurrency THEN "admitted"
                 ELSE at[o]]
    /\ UNCHANGED <<joined, attempt, etag>>

Settle(c) ==
    /\ at[c] = "answered"
    /\ inFlight' = [inFlight EXCEPT ![urlOf[c]] = Less(urlOf[c])]
    /\ slots' = slots - 1
    /\ line' = Drained(slots')
    /\ at' = [o \in Fetch |->
                 IF o = c THEN "done"
                 ELSE IF at[o] = "waiting" /\ slots' < MaxConcurrency THEN "admitted"
                 ELSE at[o]]
    /\ UNCHANGED <<joined, attempt, etag>>

SettleJoined(c) ==
    /\ at[c] = "joined"
    /\ at[joined[c]] \in {"answered", "done"}
    /\ at' = [at EXCEPT ![c] = "done"]
    /\ inFlight' = [inFlight EXCEPT ![urlOf[c]] = Less(urlOf[c])]
    /\ UNCHANGED <<joined, slots, line, attempt, etag>>

ClearCache ==
    /\ etag # {}
    /\ etag' = {}
    /\ UNCHANGED <<at, joined, inFlight, slots, line, attempt>>

NetworkNext ==
    \/ ClearCache
    \/ \E c \in Fetch :
        \/ Join(c) \/ WaitForSlot(c) \/ Start(c)
        \/ Succeed(c) \/ FailTransient(c) \/ Refuse(c)
        \/ Settle(c) \/ SettleJoined(c)

-----------------------------------------------------------------------------
(* A call waits for a slot only while another holds one and will look at   *)
(* the line when it ends, although more calls than slots can be admitted   *)
(* at once; the count of slots is that of the calls that hold one.         *)
NobodyStranded ==
    /\ line # << >> => slots > 0
    /\ slots = Cardinality({c \in Fetch : at[c] \in {"running", "answered"}})
=============================================================================
