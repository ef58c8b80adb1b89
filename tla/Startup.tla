------------------------------- MODULE Startup -------------------------------
(***************************************************************************)
(* The start of the terminal interface (src/src/cli/tui/core/              *)
(* StartupEngine.ts): stages one after the other, those that call the      *)
(* marketplace under a timer (TimeoutController.ts), some tried again.     *)
(*                                                                         *)
(* A timer ends the wait, not the call: what timed out goes on, next to    *)
(* the call of the next attempt, and its result is dropped.                *)
(***************************************************************************)
EXTENDS Naturals, Sequences

CONSTANT MaxTries       \* [stage -> 1 + maxRetries]

Stages == << "config", "cache", "github", "registry", "search", "project", "ready" >>

\* What a stage waits for, in order; the other stages wait for nothing.
Waits == [github |-> << "load", "list" >>, project |-> << "detect" >>]
Calling == {"github", "project"}

VARIABLES
    stage,        \* the stage under way, an index of Stages
    try,          \* its attempt
    waitFor,      \* which of its calls it waits for; 0 between attempts
    passed,       \* some stage has succeeded
    result,       \* running, ready or failed
    late,         \* calls that timed out and are still under way
    shown,        \* what was dispatched
    aborted       \* the signal

startupVars == <<stage, try, waitFor, passed, result, late, shown, aborted>>

StartupInit ==
    /\ stage = 1
    /\ try = 1
    /\ waitFor = 0
    /\ passed = FALSE
    /\ result = "running"
    /\ late = {}
    /\ shown = {}
    /\ aborted = FALSE

Running == result = "running"
Current == Stages[stage]

\* The pipeline goes on with the next stage, or ends: one stage that was not
\* skipped makes it a success, also when the signal skipped all others.
Advance(skipped) ==
    /\ try' = 1
    /\ waitFor' = 0
    /\ passed' = (passed \/ ~skipped)
    /\ IF stage = Len(Stages)
       THEN result' = (IF passed' THEN "ready" ELSE "failed") /\ UNCHANGED stage
       ELSE stage' = stage + 1 /\ UNCHANGED result

\* A stage whose work was done elsewhere.
PassStage ==
    /\ Running /\ ~aborted /\ Current \notin Calling
    /\ Advance(FALSE)
    /\ UNCHANGED <<late, shown, aborted>>

\* The signal is looked at before a stage ...
SkipStage ==
    /\ Running /\ aborted /\ waitFor = 0 /\ try = 1
    /\ Advance(TRUE)
    /\ UNCHANGED <<late, shown, aborted>>

\* ... not again when the delay before another attempt is over.
StartCall ==
    /\ Running /\ Current \in Calling /\ waitFor = 0
    /\ aborted => try > 1
    /\ waitFor' = 1
    /\ UNCHANGED <<stage, try, passed, result, late, shown, aborted>>

InTime == Running /\ waitFor > 0

CallSucceeds ==
    /\ InTime
    /\ IF waitFor < Len(Waits[Current])
       THEN waitFor' = waitFor + 1 /\ UNCHANGED <<stage, try, passed, result, shown>>
       ELSE Advance(FALSE) /\ shown' = shown \cup {Current}
    /\ UNCHANGED <<late, aborted>>

\* Another attempt, unless the signal says that the stage is skipped, or the
\* end; a project that cannot be detected is none.
GiveUp ==
    \/ /\ Current = "project"
       /\ Advance(FALSE)
       /\ shown' = shown \cup {"project"}
    \/ /\ Current # "project" /\ try < MaxTries[Current]
       /\ IF aborted
          THEN Advance(TRUE)
          ELSE /\ try' = try + 1
               /\ waitFor' = 0
               /\ UNCHANGED <<stage, passed, result>>
       /\ UNCHANGED shown
    \/ /\ Current # "project" /\ try = MaxTries[Current]
       /\ waitFor' = 0
       /\ result' = "failed"
       /\ UNCHANGED <<stage, try, passed, shown>>

CallFails ==
    /\ InTime
    /\ GiveUp
    /\ UNCHANGED <<late, aborted>>

\* Mutant of TimesOut: the second call of a stage has no timer.
TimesOutOnce ==
    /\ InTime /\ waitFor = 1
    /\ GiveUp
    /\ late' = late \cup {<<Current, try, waitFor>>}
    /\ UNCHANGED aborted

TimesOut ==
    /\ InTime
    /\ GiveUp
    /\ late' = late \cup {<<Current, try, waitFor>>}
    /\ UNCHANGED aborted

\* Its result is nobody's.
LateCallEnds ==
    /\ \E call \in late : late' = late \ {call}
    /\ UNCHANGED <<stage, try, waitFor, passed, result, shown, aborted>>

Abort ==
    /\ Running /\ ~aborted
    /\ aborted' = TRUE
    /\ UNCHANGED <<stage, try, waitFor, passed, result, late, shown>>

StartupNext ==
    \/ PassStage \/ SkipStage \/ StartCall
    \/ CallSucceeds \/ CallFails \/ TimesOut \/ LateCallEnds \/ Abort

\* What the event loop does by itself.
Turns == PassStage \/ SkipStage \/ StartCall

-----------------------------------------------------------------------------
\* The start ends, whichever calls never answer, fail or answer late; and,
\* unless it was cancelled, what it reports is what it has shown: a success
\* the registry and a project, a failure nothing.
StartupEnds ==
    <>[](/\ ~Running
         /\ ~aborted => shown = IF result = "ready" THEN {"github", "project"} ELSE {})
=============================================================================
