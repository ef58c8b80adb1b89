----------------------------- MODULE Marketplace -----------------------------
(***************************************************************************)
(* The facade (src/src/marketplace/index.ts): load reads a configuration,  *)
(* replaces the parts that depend on it, and hands the registry that the   *)
(* new registry client answers with to the search engine and the resolver; *)
(* the operations run on whatever parts are in place at each of their      *)
(* steps.  Loads and operations of several callers interleave at the       *)
(* awaits.  Each load makes a generation of parts; the constructor makes   *)
(* the first, and it alone makes the network guard.                        *)
(*                                                                         *)
(* What a registry client does inside is the subject of RegistryClient;    *)
(* here it answers from the disk, or from the network if it may.           *)
(***************************************************************************)
EXTENDS Naturals, Sequences

CONSTANTS
    Visitor,       \* the calls of load, update and the operations
    Project,       \* the default destination
    Inputs,        \* what the constructor and load are given, see Resolve
    Ambient        \* what the environment or a file configures

Absent == [offline |-> FALSE, mode |-> "absent", project |-> Project]

VARIABLES
    initial,       \* the input of the constructor
    managed,       \* the configuration of the manager
    built,         \* built[g]: the configuration of generation g
    holds,         \* holds[g]: its registry client has a registry
    loaded,        \* _loaded
    catalog,       \* whose registry search engine and resolver have, or 0
    disk,          \* projects with a local index or a cached registry
    visitor,       \* per call
    mixed,         \* history: the last load overlapped another, or was rejected
    contacted      \* history: generations whose parts have asked the network

marketVars == <<initial, managed, built, holds, loaded, catalog, disk, visitor,
                mixed, contacted>>

-----------------------------------------------------------------------------
\* Every option has a default; the mode follows from offline when it is not given.
Resolve(input) ==
    [input EXCEPT !.mode = CASE input.mode # "absent" -> @
                             [] input.offline -> "offline"
                             [] OTHER -> "online"]

\* What load is called with, the input of the constructor, or else the ambient one.
Chosen(input) ==
    Resolve(IF input # Absent THEN input ELSE IF initial # Absent THEN initial ELSE Ambient)

Made == Len(built)
Place(at) == [at |-> at, part |-> 0, config |-> Resolve(Absent)]

MarketInit ==
    /\ initial \in Inputs \cup {Absent}
    /\ managed = Resolve(initial)
    /\ built = <<managed>>
    /\ holds = <<FALSE>>
    /\ loaded = FALSE
    /\ catalog = 0
    /\ disk \in SUBSET {Project}
    /\ visitor = [v \in Visitor |-> Place("idle")]
    /\ mixed = FALSE
    /\ contacted = {}

Goes(v, at) == visitor' = [visitor EXCEPT ![v] = Place(at)]
At(places) == {v \in Visitor : visitor[v].at \in places}

-----------------------------------------------------------------------------
(* load and update *)

LoadBegins(v, input) ==
    /\ v \in At({"idle"})
    /\ managed' = Chosen(input)
    /\ visitor' = [visitor EXCEPT ![v] = [@ EXCEPT !.at = "configured", !.config = managed']]
    /\ UNCHANGED <<initial, built, holds, loaded, catalog, disk, mixed, contacted>>

\* A configuration that does not pass validation; no part has been replaced.
LoadIsInvalid(v) ==
    /\ v \in At({"idle"})
    /\ Goes(v, "rejected")
    /\ UNCHANGED <<initial, managed, built, holds, loaded, catalog, disk, mixed, contacted>>

\* The client that is invalidated is the one that the load replaces.
UpdateBegins(v) ==
    /\ v \in At({"idle"})
    /\ holds' = [holds EXCEPT ![Made] = FALSE]
    /\ loaded' = FALSE
    /\ visitor' = [visitor EXCEPT ![v] = [@ EXCEPT !.at = "configured", !.config = managed]]
    /\ UNCHANGED <<initial, managed, built, catalog, disk, mixed, contacted>>

RebuildComponents(v) ==
    /\ v \in At({"configured"})
    /\ built' = Append(built, visitor[v].config)
    /\ holds' = Append(holds, FALSE)
    /\ mixed' = (At({"preparing", "asking"}) # {})
    /\ Goes(v, "preparing")
    /\ UNCHANGED <<initial, managed, loaded, catalog, disk, contacted>>

\* Cache, state directory, recovery and database; then the client is asked
\* that is in place by now.
Prepare(v) ==
    /\ v \in At({"preparing"})
    /\ visitor' = [visitor EXCEPT ![v] = [@ EXCEPT !.at = "asking", !.part = Made]]
    /\ UNCHANGED <<initial, managed, built, holds, loaded, catalog, disk, mixed, contacted>>

\* One of them throws: the parts are replaced, the rest is as it was.
PrepareFails(v) ==
    /\ v \in At({"preparing"})
    /\ mixed' = TRUE
    /\ Goes(v, "rejected")
    /\ UNCHANGED <<initial, managed, built, holds, loaded, catalog, disk, contacted>>

\* The client of generation g answers with what it has, with what is on disk
\* or, if its configuration is not offline, with what it reads from the
\* network and puts on disk.  It fails only when there is nothing on disk.
Ask(g, found) ==
    LET online == ~built[g].offline
        project == built[g].project
    IN  /\ IF found THEN holds[g] \/ online \/ project \in disk ELSE project \notin disk
        /\ holds' = [holds EXCEPT ![g] = @ \/ found]
        /\ disk' = IF found /\ online THEN disk \cup {project} ELSE disk
        /\ contacted' = IF online /\ ~holds[g] THEN contacted \cup {g} ELSE contacted

\* Mutant of Given: the engine keeps what an earlier load gave it.
GivenOrKept(g, found) == IF found THEN g ELSE catalog

\* An error leaves nothing to search in, in each of the three modes.
Given(g, found) == IF found THEN g ELSE 0

LoadEnds(v, found) ==
    /\ v \in At({"asking"})
    /\ Ask(visitor[v].part, found)
    /\ catalog' = Given(visitor[v].part, found)
    /\ loaded' = TRUE
    /\ Goes(v, "done")
    /\ UNCHANGED <<initial, managed, built, mixed>>

-----------------------------------------------------------------------------
(* The operations.  All of them are refused before the first load, and *)
(* ask the registry client of the moment; an install goes on with the  *)
(* installer that is in place when the client has answered.            *)

OperationBegins(v) ==
    /\ v \in At({"idle"})
    /\ visitor' = [visitor EXCEPT ![v] =
          IF loaded THEN [@ EXCEPT !.at = "resolving", !.part = Made] ELSE Place("rejected")]
    /\ UNCHANGED <<initial, managed, built, holds, loaded, catalog, disk, mixed, contacted>>

\* There is no answer, it is all that was asked for, or it is installed.
Resolved(v, found, installs) ==
    /\ v \in At({"resolving"})
    /\ Ask(visitor[v].part, found)
    /\ installs => found
    /\ visitor' = [visitor EXCEPT ![v] =
          CASE installs -> [@ EXCEPT !.at = "installing", !.part = Made]
            [] found /\ ~installs -> Place("done")
            [] OTHER -> Place("rejected")]
    /\ UNCHANGED <<initial, managed, built, loaded, catalog, mixed>>

\* The files come from the repository client, which refuses when its
\* configuration is offline, or else through the download engine, from its
\* cache or over the transport, whose guard follows the constructor.
InstallEnds(v, cached) ==
    LET made == visitor[v].part
        mayFetch == ~built[made].offline \/ built[1].mode # "offline"
    IN  /\ v \in At({"installing"})
        /\ contacted' = IF ~cached /\ mayFetch THEN contacted \cup {made} ELSE contacted
        /\ Goes(v, IF cached \/ mayFetch THEN "done" ELSE "rejected")
        /\ UNCHANGED <<initial, managed, built, holds, loaded, catalog, disk, mixed>>

MarketNext ==
    \E v \in Visitor :
        \/ \E input \in Inputs \cup {Absent} : LoadBegins(v, input)
        \/ LoadIsInvalid(v) \/ UpdateBegins(v) \/ RebuildComponents(v)
        \/ Prepare(v) \/ PrepareFails(v) \/ OperationBegins(v)
        \/ \E found \in BOOLEAN :
            \/ LoadEnds(v, found)
            \/ \E installs \in BOOLEAN : Resolved(v, found, installs)
        \/ \E cached \in BOOLEAN : InstallEnds(v, cached)

-----------------------------------------------------------------------------
\* What search shows is known to the operations: unless the last load was
\* rejected or overlapped another, and while none is under way, it is the
\* registry of the client that they ask; and a load that found no registry
\* leaves nothing of an earlier one.
ShownIsKnown ==
    ~mixed /\ At({"configured", "preparing", "asking"}) = {} =>
        catalog = 0 \/ (catalog = Made /\ holds[Made])

\* docs/api.md:17, "cache/index only, never network": the parts that a load
\* with offline made do not ask the network.
OfflineAsksNobody == \A g \in contacted : ~built[g].offline
=============================================================================
