-------------------------- MODULE InstallLifecycle --------------------------
(***************************************************************************)
(* What the transaction of an install promises, with nothing of how it is  *)
(* kept: an install becomes active, then committed or failed for ever; it  *)
(* commits after all installs it needs, answers its caller in agreement    *)
(* with its transaction, and stays active when its process dies.           *)
(***************************************************************************)
CONSTANTS
    Tx,      \* installs
    Roots,   \* the installs asked for by the user
    Needs    \* Needs[a]: the installs that a needs

VARIABLES
    phase,   \* phase[a]: none, active, committed or failed
    answer,  \* answer[a]: none, ok or failed
    lost     \* installs whose process died

vars == <<phase, answer, lost>>

Init ==
    /\ phase = [a \in Tx |-> "none"]
    /\ answer = [a \in Tx |-> "none"]
    /\ lost = {}

Alive(a) == answer[a] = "none" /\ a \notin lost

Begin(a) ==
    /\ Alive(a)
    /\ phase[a] = "none"
    /\ a \in Roots \/ \E p \in Tx : /\ a \in Needs[p]
                                    /\ phase[p] = "active"
                                    /\ Alive(p)
    /\ phase' = [phase EXCEPT ![a] = "active"]
    /\ UNCHANGED <<answer, lost>>

Commit(a) ==
    /\ Alive(a)
    /\ phase[a] = "active"
    /\ \A d \in Needs[a] : phase[d] = "committed"
    /\ phase' = [phase EXCEPT ![a] = "committed"]
    /\ UNCHANGED <<answer, lost>>

Fail(a) ==
    /\ Alive(a)
    /\ phase[a] = "active"
    /\ phase' = [phase EXCEPT ![a] = "failed"]
    /\ UNCHANGED <<answer, lost>>

\* A rejected install may have left its transaction active, when the journal
\* could not be written.
Answer(a) ==
    /\ Alive(a)
    /\ \E how \in {"ok", "failed"} :
          /\ how = "ok" <=> phase[a] = "committed"
          /\ answer' = [answer EXCEPT ![a] = how]
    /\ UNCHANGED <<phase, lost>>

Die(installs) ==
    /\ \A a \in installs : Alive(a)
    /\ lost' = lost \cup installs
    /\ UNCHANGED <<phase, answer>>

Next ==
    \/ \E a \in Tx : Begin(a) \/ Commit(a) \/ Fail(a) \/ Answer(a)
    \/ \E installs \in SUBSET Tx : Die(installs)

Spec == Init /\ [][Next]_vars
=============================================================================
