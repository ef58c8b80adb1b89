------------------------------- MODULE EventBus -------------------------------
(***************************************************************************)
(* EventBus (src/src/events/index.ts), for one event: listeners come and   *)
(* go while emissions await one listener after the other.                  *)
(*                                                                         *)
(* The listeners of the event are an array in a map.  An emission goes     *)
(* through the array that it found, and puts another one into the map when *)
(* it has called listeners that wanted one call only; the function that    *)
(* unsubscribes a listener keeps to the array into which it was put.  So   *)
(* arrays are numbered here, and others than the one in the map go on      *)
(* being used.                                                             *)
(***************************************************************************)
EXTENDS Naturals, FiniteSets, SequencesExt

CONSTANTS
    Listener,
    OnceOnly,    \* those registered with once
    Emission,
    MaxRemovals  \* bound: calls of unsubscribe, off and removeAllListeners

VARIABLES
    arrays,      \* every array there has been
    mapped,      \* the one in _listeners, 0 if there is none
    home,        \* home[l]: the array that its unsubscribe knows, 0 before it is registered
    emission,
    removals,
    \* History
    removed,     \* listeners of which someone asked to remove them
    crossed      \* during an emission, another began or all listeners were removed

busVars == <<arrays, mapped, home, emission, removals, removed, crossed>>

Unemitted == [status |-> "none", array |-> 0, next |-> 1, called |-> <<>>, over |-> {},
              found |-> <<>>, undisturbed |-> TRUE]

BusInit ==
    /\ arrays = <<>>
    /\ mapped = 0
    /\ home = [l \in Listener |-> 0]
    /\ emission = [m \in Emission |-> Unemitted]
    /\ removals = 0
    /\ removed = {}
    /\ crossed = FALSE

Registered == IF mapped = 0 THEN <<>> ELSE arrays[mapped]
Emitting == {m \in Emission : emission[m].status = "calling"}

\* The elements of list at the positions, in order.
At(list, positions) ==
    [n \in 1 .. Cardinality(positions) |->
        list[CHOOSE i \in positions : Cardinality({j \in positions : j <= i}) = n]]

\* An array has an entry once, so its first place is all its places.
Without(array, ls) == At(array, {i \in DOMAIN array : array[i] \notin ls})

-----------------------------------------------------------------------------
\* on, once.
AddListener(l) ==
    /\ home[l] = 0
    /\ IF mapped = 0
       THEN arrays' = Append(arrays, <<l>>) /\ mapped' = Len(arrays) + 1
       ELSE arrays' = [arrays EXCEPT ![mapped] = Append(arrays[mapped], l)] /\ UNCHANGED mapped
    /\ home' = [home EXCEPT ![l] = mapped']
    /\ UNCHANGED <<emission, removals, removed, crossed>>

RemoveFrom(array, l) ==
    arrays' = IF array = 0 THEN arrays
              ELSE [arrays EXCEPT ![array] = Without(arrays[array], {l})]

RemovalOf(ls) ==
    /\ removals < MaxRemovals
    /\ removals' = removals + 1
    /\ removed' = removed \cup ls
    /\ emission' = [m \in Emission |-> [emission[m] EXCEPT !.undisturbed = FALSE]]
    /\ UNCHANGED home

Unsubscribe(l) ==
    /\ home[l] # 0
    /\ RemoveFrom(home[l], l)
    /\ RemovalOf({l})
    /\ UNCHANGED <<mapped, crossed>>

Off(l) ==
    /\ home[l] # 0
    /\ RemoveFrom(mapped, l)
    /\ RemovalOf({l})
    /\ UNCHANGED <<mapped, crossed>>

RemoveAllListeners ==
    /\ mapped # 0
    /\ mapped' = 0
    /\ RemovalOf(ToSet(Registered))
    /\ crossed' = (crossed \/ Emitting # {})
    /\ UNCHANGED arrays

-----------------------------------------------------------------------------
(* emit *)

Call(e, i) == [e EXCEPT !.next = i, !.called = Append(@, arrays[e.array][i])]

Emit(m) ==
    /\ emission[m].status = "none"
    /\ LET begun == [Unemitted EXCEPT !.status = "calling", !.array = mapped,
                                      !.found = Registered]
       IN  emission' = [emission EXCEPT ![m] =
               IF Registered = <<>> THEN [begun EXCEPT !.status = "done"] ELSE Call(begun, 1)]
    /\ crossed' = (crossed \/ Emitting # {})
    /\ UNCHANGED <<arrays, mapped, home, removals, removed>>

\* Mutant of Remaining: what is left is what was there when it began.
RemainingOfFound(m, over) == Without(emission[m].found, over)

\* The listeners that stay, of the array as it is by now.
Remaining(m, over) == Without(arrays[emission[m].array], over)

\* A listener returns or throws: the next one is called, or the emission ends.
ListenerEnds(m) ==
    LET e == emission[m]
        over == e.over \cup ({Last(e.called)} \cap OnceOnly)
        goesOn == e.next < Len(arrays[e.array])
    IN  /\ e.status = "calling"
        /\ emission' = [emission EXCEPT ![m] =
               IF goesOn THEN [Call(e, e.next + 1) EXCEPT !.over = over]
               ELSE [e EXCEPT !.status = "done", !.over = over]]
        /\ IF goesOn \/ over = {} THEN UNCHANGED <<arrays, mapped>>
           ELSE /\ arrays' = Append(arrays, Remaining(m, over))
                /\ mapped' = Len(arrays) + 1
        /\ UNCHANGED <<home, removals, removed, crossed>>

BusNext ==
    \/ \E l \in Listener : AddListener(l) \/ Unsubscribe(l) \/ Off(l)
    \/ RemoveAllListeners
    \/ \E m \in Emission : Emit(m) \/ ListenerEnds(m)

-----------------------------------------------------------------------------
\* An emission calls nobody twice, and when it is over it has called all that
\* it found, in their order, unless a listener was removed meanwhile; those
\* that came meanwhile follow.
EmissionsAreComplete ==
    \A m \in Emission :
        LET e == emission[m] IN
        /\ IsInjective(e.called)
        /\ e.status = "done" /\ e.undisturbed => IsPrefix(e.found, e.called)

\* As long as emissions do not overlap, nor meet a removeAllListeners: who
\* registered and was not removed is called by the emissions to come, unless it
\* wanted one call only and had it; it has none after that.
ListenersStay ==
    ~crossed =>
        LET hadCall == UNION {ToSet(emission[m].called) : m \in Emission} IN
        /\ \A l \in Listener : home[l] # 0 =>
              \/ l \in removed
              \/ l \in OnceOnly \cap hadCall
              \/ l \in ToSet(Registered)
        /\ Emitting = {} => ToSet(Registered) \cap OnceOnly \cap hadCall = {}
=============================================================================
