----------------------------- MODULE RepoSources -----------------------------
(***************************************************************************)
(* How text files of the repository are read: RepoFetchClient              *)
(* (src/src/registry/repo-fetch-client.ts) first, and, when it has failed, *)
(* GitHubRepositoryTransport (src/src/transport/github-repository.ts).     *)
(* Each shares one request, a flight, among the calls for one file (the    *)
(* listing of the former excepted, which one reader asks for).  Their      *)
(* users are RegistryDiscovery (src/src/registry/discovery.ts) and           *)
(* Downloader (src/src/downloader/index.ts).                               *)
(***************************************************************************)
EXTENDS Naturals, Sequences, FiniteSets

CONSTANTS
    Path,          \* files, with RegistryFile and Tree, the listing, among them
    RegistryFile, Tree,
    Manifests,     \* the manifests that the listing names, in its order
    NameOf, IsValid,   \* what a manifest declares; whether validation passes
    RegistryText,  \* what registry.json is: registry, garbage or invalid
    HasToken,      \* a token is configured
    MaxRetries,    \* MAX_RETRIES of the transport
    Reader,        \* calls of downloadFile and discover
    Wants,         \* Wants[r]: the file it reads, or "discover"
    MaxVersion     \* bound on the versions of a file; 0 is no file

Error == {"missing", "limit", "denied", "network"}
NoFlight == [on |-> FALSE, attempt |-> 0, asked |-> 0, tokenless |-> FALSE]
NewFlight == [NoFlight EXCEPT !.on = TRUE]

VARIABLES
    remote,       \* remote[p]: the version of a file
    primary,      \* primary[p]: the flight of RepoFetchClient
    native,       \* native[p]: the flight of the transport
    cached,       \* the downloader's cache
    reader        \* per call

sourceVars == <<remote, primary, native, cached, reader>>

SourcesInit ==
    /\ remote \in [Path -> 0 .. 1]
    /\ remote[Tree] = 1
    /\ primary = [p \in Path |-> NoFlight]
    /\ native = [p \in Path |-> NoFlight]
    /\ cached = [p \in Path |-> 0]
    /\ reader = [r \in Reader |->
          [at |-> "new", path |-> IF Wants[r] = "discover" THEN RegistryFile ELSE Wants[r],
           scan |-> Wants[r] = "discover", todo |-> << >>, found |-> << >>, warned |-> << >>,
           limited |-> FALSE]]

-----------------------------------------------------------------------------
(* RegistryDiscovery: what it does with the answer for its file. *)

ReadNext(d, todo) ==
    IF todo = << >>
    THEN [d EXCEPT !.at = IF d.found = << >> THEN "failed" ELSE "done", !.todo = << >>]
    ELSE [d EXCEPT !.at = "ready", !.path = Head(todo), !.todo = Tail(todo)]

Scan(d) == [d EXCEPT !.at = "ready", !.path = Tree]

FromRegistry(d, text) ==
    CASE text = RegistryFile /\ RegistryText = "registry" -> [d EXCEPT !.at = "done"]
      [] text = RegistryFile /\ RegistryText = "garbage" -> Scan(d)
      [] text = "missing" -> Scan(d)
      [] OTHER -> [d EXCEPT !.at = "failed"]

FromTree(d, text) ==
    IF text \in Error THEN [d EXCEPT !.at = "failed"] ELSE ReadNext(d, Manifests)

Named(d, name) == \E i \in DOMAIN d.found : NameOf[d.found[i]] = name

\* A manifest that cannot be read is a warning, as one that cannot be parsed.
FromManifest(d, text) ==
    LET p == d.path
    IN  IF text \notin Error /\ IsValid[p] /\ ~Named(d, NameOf[p])
        THEN ReadNext([d EXCEPT !.found = Append(@, p)], d.todo)
        ELSE ReadNext([d EXCEPT !.warned = Append(@, p)], d.todo)

Receive(d, text) ==
    CASE ~d.scan -> [d EXCEPT !.at = IF text \in Error THEN "failed" ELSE "done"]
      [] d.scan /\ d.path = RegistryFile -> FromRegistry(d, text)
      [] d.scan /\ d.path = Tree -> FromTree(d, text)
      [] OTHER -> FromManifest(d, text)

Waiting(at, p) == {r \in Reader : reader[r].at = at /\ reader[r].path = p}

\* The downloader caches what it reads.
Caches(at, p, text) ==
    cached' = IF text \notin Error /\ \E r \in Waiting(at, p) : ~reader[r].scan
              THEN [cached EXCEPT ![p] = remote[p]] ELSE cached

-----------------------------------------------------------------------------
\* downloadFile looks in its cache first.
Begin(r) ==
    /\ reader[r].at = "new"
    /\ reader' = [reader EXCEPT ![r].at =
          IF ~reader[r].scan /\ cached[reader[r].path] > 0 THEN "done" ELSE "ready"]
    /\ UNCHANGED <<remote, primary, native, cached>>

AskPrimary(r) ==
    /\ reader[r].at = "ready"
    /\ reader' = [reader EXCEPT ![r].at = "primary"]
    /\ primary' = [primary EXCEPT ![reader[r].path] = IF @.on THEN @ ELSE NewFlight]
    /\ UNCHANGED <<remote, native, cached>>

\* Mutant of AfterPrimary: a rate limit is an error like another.
AfterPrimaryAny(d, text) ==
    IF text \in Error THEN [d EXCEPT !.at = "fallback", !.limited = (text = "limit")]
    ELSE Receive(d, text)

\* The error of a rate limit is the answer; after another the transport is asked.
AfterPrimary(d, text) ==
    IF text = "limit" THEN Receive([d EXCEPT !.limited = TRUE], text)
    ELSE IF text \in Error THEN [d EXCEPT !.at = "fallback", !.limited = FALSE]
    ELSE Receive([d EXCEPT !.limited = FALSE], text)

\* The retries of the package are its own; it ends by its timeout at the latest.
PrimaryEnds(p, text) ==
    /\ primary[p].on
    /\ (text = p) <=> (text \notin Error)
    /\ text = p => remote[p] > 0
    /\ text = "missing" => remote[p] = 0
    /\ primary' = [primary EXCEPT ![p] = NoFlight]
    /\ reader' = [r \in Reader |-> IF r \in Waiting("primary", p)
                                   THEN AfterPrimary(reader[r], text) ELSE reader[r]]
    /\ Caches("primary", p, text)
    /\ UNCHANGED <<remote, native>>

AskNative(r) ==
    /\ reader[r].at = "fallback"
    /\ reader' = [reader EXCEPT ![r].at = "native"]
    /\ native' = [native EXCEPT ![reader[r].path] = IF @.on THEN @ ELSE NewFlight]
    /\ UNCHANGED <<remote, primary, cached>>

NativeEnds(p, text) ==
    /\ native' = [native EXCEPT ![p] = NoFlight]
    /\ reader' = [r \in Reader |-> IF r \in Waiting("native", p)
                                   THEN Receive(reader[r], text) ELSE reader[r]]
    /\ Caches("native", p, text)

\* 200, or 304 for the text that the conditional cache has; or 404.
Answer(p) ==
    /\ native[p].on
    /\ IF remote[p] = 0
       THEN NativeEnds(p, IF native[p].tokenless THEN "denied" ELSE "missing")
       ELSE NativeEnds(p, p)
    /\ UNCHANGED <<remote, primary>>

\* 401 or 403 with a token: asked again without it, within the attempt.
DenyToken(p) ==
    /\ native[p].on /\ HasToken /\ ~native[p].tokenless
    /\ native' = [native EXCEPT ![p].tokenless = TRUE, ![p].asked = @ + 1]
    /\ UNCHANGED <<remote, primary, cached, reader>>

\* 401 or 403 without a token, another status that is not retried, or any
\* failure without the token that was denied.
Deny(p) ==
    /\ native[p].on
    /\ NativeEnds(p, "denied")
    /\ UNCHANGED <<remote, primary>>

Retry(p, error) ==
    IF native[p].attempt < MaxRetries
    THEN /\ native' = [native EXCEPT ![p].attempt = @ + 1, ![p].asked = @ + 1,
                                     ![p].tokenless = FALSE]
         /\ UNCHANGED <<reader, cached>>
    ELSE NativeEnds(p, error)

\* A status that is retried, no body, a timeout, a lost connection.
Fail(p) ==
    /\ native[p].on
    /\ Retry(p, "network")
    /\ UNCHANGED <<remote, primary>>

\* A rate limit that is far from its reset is not retried.
Throttle(p, far) ==
    /\ native[p].on
    /\ IF far THEN NativeEnds(p, "limit") ELSE Retry(p, "limit")
    /\ UNCHANGED <<remote, primary>>

-----------------------------------------------------------------------------
Publish(p) ==
    /\ p # Tree
    /\ remote[p] < MaxVersion
    /\ remote' = [remote EXCEPT ![p] = @ + 1]
    /\ UNCHANGED <<primary, native, cached, reader>>

Expire(p) ==
    /\ cached[p] > 0
    /\ cached' = [cached EXCEPT ![p] = 0]
    /\ UNCHANGED <<remote, primary, native, reader>>

SourcesNext ==
    \/ \E r \in Reader : Begin(r) \/ AskPrimary(r) \/ AskNative(r)
    \/ \E p \in Path :
        \/ \E text \in Error \cup {p} : PrimaryEnds(p, text)
        \/ Answer(p) \/ DenyToken(p) \/ Deny(p) \/ Fail(p)
        \/ \E far \in BOOLEAN : Throttle(p, far)
        \/ Publish(p) \/ Expire(p)

-----------------------------------------------------------------------------
\* A call whose file the primary client has found rate-limited does not go
\* to the transport, and the requests of a flight of the transport are those
\* of its own retries: nothing multiplies them.
SourcesInOrder ==
    /\ \A r \in Reader : reader[r].limited => reader[r].at \notin {"fallback", "native"}
    /\ \A p \in Path : native[p].asked <= 2 * MaxRetries + 1

\* A scan ends with every manifest of the listing either a resource or a
\* warning, and no two resources of one name.
ScanIsComplete ==
    \A r \in Reader :
        LET d == reader[r]
            listed == {Manifests[i] : i \in DOMAIN Manifests}
            found == {d.found[i] : i \in DOMAIN d.found}
            warned == {d.warned[i] : i \in DOMAIN d.warned}
        IN  /\ found \cap warned = {}
            /\ d.at = "done" /\ d.scan /\ d.found # << >> => found \cup warned = listed
            /\ \A p, q \in found : NameOf[p] = NameOf[q] => p = q

(* The reads of the sources are sound. *)
ReadsAreSound == SourcesInOrder /\ ScanIsComplete
=============================================================================
