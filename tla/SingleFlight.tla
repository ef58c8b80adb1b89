---------------------------- MODULE SingleFlight ----------------------------
(***************************************************************************)
(* SingleFlight (src/src/registry/single-flight.ts): calls of the same key *)
(* share one flight, the promise of a function that is under way.  The     *)
(* module has the table of flights; who waits for a flight is up to the    *)
(* module that uses it.  The negative cache is left out: nothing reads it. *)
(***************************************************************************)
EXTENDS Naturals, FiniteSets

CONSTANTS
    FlightKey,  \* keys
    Flight,     \* flights that can be under way at a time; a bound
    NoFlight

ASSUME FlightAssumption == NoFlight \notin Flight

VARIABLES
    inflight,   \* _inflight: the flight that calls of a key join
    flight,     \* what a flight is about: its key, and how far it is
    cleared     \* history: clear was called in this process

flightVars == <<inflight, flight, cleared>>

\* A flight has read nothing yet, or has what it will end with; since is the
\* version that could be read when it started.
Grounded == [key |-> "none", phase |-> "none", value |-> 0, since |-> 0]

FlightTypeOK ==
    /\ inflight \in [FlightKey -> Flight \cup {NoFlight}]
    /\ flight \in [Flight -> [key : FlightKey \cup {"none"},
                              phase : {"none", "running", "read", "failed"},
                              value : Nat, since : Nat]]
    /\ cleared \in BOOLEAN

NoFlights ==
    /\ inflight = [k \in FlightKey |-> NoFlight]
    /\ flight = [f \in Flight |-> Grounded]
    /\ cleared = FALSE

Flying(f) == flight[f] # Grounded

-----------------------------------------------------------------------------
\* do: join the flight f of a key, or start f and enter it.
Join(k, f) == /\ inflight[k] = f
              /\ f # NoFlight
              /\ UNCHANGED flightVars

Launch(k, f, now) ==
    /\ inflight[k] = NoFlight
    /\ f = CHOOSE g \in Flight : ~Flying(g)
    /\ ~Flying(f)
    /\ inflight' = [inflight EXCEPT ![k] = f]
    /\ flight' = [flight EXCEPT ![f] = [key |-> k, phase |-> "running",
                                        value |-> 0, since |-> now]]
    /\ UNCHANGED cleared

Do(k, f, now) == Join(k, f) \/ Launch(k, f, now)

\* The function has what it was after, or an error.
Arrive(f, v) ==
    /\ flight[f].phase = "running"
    /\ flight' = [flight EXCEPT ![f].value = v,
                                ![f].phase = IF v = 0 THEN "failed" ELSE "read"]
    /\ UNCHANGED <<inflight, cleared>>

\* A mutant: only the then callback deletes the entry.
SettleLanded(f) ==
    /\ flight[f].phase \in {"read", "failed"}
    /\ inflight' = IF flight[f].phase = "failed" THEN inflight
                   ELSE [inflight EXCEPT ![flight[f].key] = NoFlight]
    /\ flight' = [flight EXCEPT ![f] = Grounded]
    /\ UNCHANGED cleared

\* The then and catch callbacks: they delete the entry of the key, whichever
\* flight it has.
Settle(f) ==
    /\ flight[f].phase \in {"read", "failed"}
    /\ inflight' = [inflight EXCEPT ![flight[f].key] = NoFlight]
    /\ flight' = [flight EXCEPT ![f] = Grounded]
    /\ UNCHANGED cleared

Clear ==
    /\ inflight' = [k \in FlightKey |-> NoFlight]
    /\ cleared' = TRUE
    /\ UNCHANGED flight

-----------------------------------------------------------------------------
\* Nobody joins a flight that is over, and unless clear was called, no two
\* flights of one key are under way (single-flight.ts:18-38).
FlightsShared ==
    /\ \A k \in FlightKey : inflight[k] # NoFlight =>
           Flying(inflight[k]) /\ flight[inflight[k]].key = k
    /\ ~cleared => \A f, g \in Flight :
           Flying(f) /\ Flying(g) /\ flight[f].key = flight[g].key => f = g
=============================================================================
