------------------------------- MODULE Wizard -------------------------------
(***************************************************************************)
(* The terminal interface (src/src/cli/tui): a stack of screens, the data  *)
(* of the reducer, and the install that its progress screen runs.          *)
(*                                                                         *)
(* A screen does not read the data: it reads the value of a context that   *)
(* App.tsx computes again only when another screen comes to the top        *)
(* (App.tsx:110).  data is the state of the reducer, seen what the screen  *)
(* on top was given.                                                       *)
(*                                                                         *)
(* Cursors are left out, a key chooses any entry.  No screen leads to      *)
(* projectDetection, marketplaceConnection and error.                      *)
(***************************************************************************)
EXTENDS Naturals, Sequences, SequencesExt

CONSTANTS
    Resource, Category,
    categoryOf,         \* [Resource -> Category]
    Recommended,        \* the resources that suit the project
    Setting,            \* the toggles of installConfig, in their order
    DefaultConfig,      \* [setting -> BOOLEAN]
    None,
    MaxDepth            \* bound: screens on the stack

VARIABLES
    live,            \* the application is mounted
    stack,              \* screens, the one that is shown last
    data, seen,
    local,              \* what the mounted screen keeps for itself
    install,            \* the effect of the progress screen
    confirmed           \* history: what the last confirmation showed

wizardVars == <<live, stack, data, seen, local, install, confirmed>>

Top == Last(stack)

InitialData ==
    [loaded |-> FALSE, category |-> None, resource |-> None,
     config |-> DefaultConfig, result |-> None]

Mounted == [step |-> 1, phase |-> "idle"]
NoInstall == [phase |-> "none", of |-> None]

WizardInit ==
    /\ live = TRUE
    /\ stack = <<"splash">>
    /\ data = InitialData
    /\ seen = InitialData
    /\ local = Mounted
    /\ install = NoInstall
    /\ confirmed = None

-----------------------------------------------------------------------------
(* NavigationController.ts                                                 *)

Push(screen) == Append(stack, screen)
Pop == IF Len(stack) > 1 THEN Front(stack) ELSE stack
Goto(screen) == Append(Front(stack), screen)
Home == <<"mainMenu">>

\* Mutant of Context: the value is computed when the application starts.
ContextOnce(screens, newData) == IF data.loaded THEN seen ELSE newData

\* What the screen on top reads after the data and the stack have changed.
Context(screens, newData) == IF Last(screens) = Top THEN seen ELSE newData

\* The application renders: another screen on top is mounted, and the mount
\* of the progress screen starts its effect.
Render(screens, newData, effect) ==
    /\ live
    /\ Len(screens) <= MaxDepth
    /\ stack' = screens
    /\ data' = newData
    /\ seen' = Context(screens, newData)
    /\ local' = IF Last(screens) = Top THEN local ELSE Mounted
    /\ install' = IF Last(screens) = "installProgress" /\ Top # "installProgress"
                  THEN [NoInstall EXCEPT !.phase = "waiting"]
                  ELSE effect

\* wizardReducer
Set(field, value) == [data EXCEPT ![field] = value]

Show(screens) == Render(screens, data, install)

-----------------------------------------------------------------------------
(* The screens, each a handler of keys                                     *)

\* splash: a start that fails leaves its message, from which there is no way
\* but out.
BootEnds ==
    /\ Top = "splash"
    /\ Render(Goto("mainMenu"), Set("loaded", TRUE), install)
    /\ UNCHANGED <<live, confirmed>>

OpenFromMenu ==
    /\ Top = "mainMenu"
    /\ \E screen \in {"categorySelection", "search", "installed", "recommended",
                      "doctor", "settings"} : Show(Push(screen))
    /\ UNCHANGED <<live, confirmed>>

SelectCategory ==
    /\ Top = "categorySelection"
    /\ \E c \in Category :
         Render(Push("resourceList"), Set("category", c), install)
    /\ UNCHANGED <<live, confirmed>>

\* The category chosen last goes for the search, too.
OfCategory ==
    IF seen.category = None THEN Resource
    ELSE {r \in Resource : categoryOf[r] = seen.category}

SelectOf(resources) ==
    \E r \in resources : Render(Push("resourcePreview"), Set("resource", r), install)

SelectFromList ==
    /\ Top = "resourceList"
    /\ SelectOf(OfCategory)
    /\ UNCHANGED <<live, confirmed>>

\* Some query finds each of them.
SelectFromSearch ==
    /\ Top = "search"
    /\ SelectOf(OfCategory)
    /\ UNCHANGED <<live, confirmed>>

SelectRecommended ==
    /\ Top = "recommended"
    /\ SelectOf(Recommended)
    /\ UNCHANGED <<live, confirmed>>

OpenFromPreview ==
    /\ Top = "resourcePreview"
    /\ \E screen \in {"installConfig", "dependencyPreview"} : Show(Push(screen))
    /\ UNCHANGED <<live, confirmed>>

\* The new value is the opposite of what the context says, and the context
\* does not follow while the screen stays.
Toggle ==
    /\ Top = "installConfig"
    /\ local.step <= Len(Setting)
    /\ LET s == Setting[local.step] IN
         Render(stack, Set("config", [data.config EXCEPT ![s] = ~seen.config[s]]), install)
    /\ UNCHANGED <<live, confirmed>>

NextStep ==
    /\ Top = "installConfig"
    /\ live
    /\ IF local.step <= Len(Setting)
       THEN /\ local' = [local EXCEPT !.step = @ + 1]
            /\ UNCHANGED <<stack, data, seen, install>>
       ELSE Show(Push("dependencyPreview"))
    /\ UNCHANGED <<live, confirmed>>

PreviousStep ==
    /\ Top = "installConfig"
    /\ live
    /\ local.step > 1
    /\ local' = [local EXCEPT !.step = @ - 1]
    /\ UNCHANGED <<live, stack, data, seen, install, confirmed>>

Confirm ==
    /\ Top = "dependencyPreview"
    /\ confirmed' = seen.resource
    /\ Show(Push("installProgress"))
    /\ UNCHANGED live

Back ==
    /\ Top \in {"categorySelection", "resourceList", "search", "recommended", "installed",
                "doctor", "settings", "resourcePreview", "installConfig", "dependencyPreview"}
    /\ Top = "installConfig" => local.step = 1
    /\ Show(Pop)
    /\ UNCHANGED <<live, confirmed>>

\* Of what was chosen, the category and the resource stay.
Leave ==
    /\ Top = "success"
    /\ \E screens \in {Goto("categorySelection"), Home} :
         Render(screens, [data EXCEPT !.config = DefaultConfig, !.result = None], install)
    /\ UNCHANGED <<live, confirmed>>

RunDoctor ==
    /\ live
    /\ Top = "doctor"
    /\ local.phase \in {"idle", "asking"}
    /\ local' = [local EXCEPT !.phase = IF @ = "idle" THEN "asking" ELSE "done"]
    /\ UNCHANGED <<live, stack, data, seen, install, confirmed>>

\* An answer that comes after the timer had given up is still shown.
LoadInstalled ==
    /\ live
    /\ Top = "installed"
    /\ \/ /\ local.phase = "idle"
          /\ local' = [local EXCEPT !.phase = "error"]
       \/ /\ local.phase \in {"idle", "error"}
          /\ local' = [local EXCEPT !.phase = "loaded"]
    /\ UNCHANGED <<live, stack, data, seen, install, confirmed>>

\* Ctrl+C on any screen, or Quit.
Exit ==
    /\ live
    /\ live' = FALSE
    /\ UNCHANGED <<stack, data, seen, local, install, confirmed>>

-----------------------------------------------------------------------------
(* The progress screen, which no key leaves                                *)

\* The bars have been filled: the marketplace is called.
CallInstall ==
    /\ live
    /\ install.phase = "waiting"
    /\ install' = [phase |-> "calling", of |-> seen.resource]
    /\ UNCHANGED <<live, stack, data, seen, local, confirmed>>

\* The answer, good or bad; nobody takes it once the screen is gone.
InstallEnds ==
    /\ install.phase = "calling"
    /\ \/ /\ ~live
          /\ install' = NoInstall
          /\ UNCHANGED <<stack, data, seen, local>>
       \/ \E success \in BOOLEAN :
            Render(stack, Set("result", [of |-> install.of, success |-> success]),
                   [install EXCEPT !.phase = "answered"])
    /\ UNCHANGED <<live, confirmed>>

\* Mutant of ShowResult: an install that failed leaves the screen as it is.
ShowSuccess ==
    /\ install.phase = "answered"
    /\ data.result.success
    /\ Render(Goto("success"), data, NoInstall)
    /\ UNCHANGED <<live, confirmed>>

ShowResult ==
    /\ install.phase = "answered"
    /\ Render(Goto("success"), data, NoInstall)
    /\ UNCHANGED <<live, confirmed>>

Progress == CallInstall \/ InstallEnds \/ ShowResult

WizardNext ==
    \/ BootEnds \/ OpenFromMenu \/ SelectCategory
    \/ SelectFromList \/ SelectFromSearch \/ SelectRecommended \/ OpenFromPreview
    \/ Toggle \/ NextStep \/ PreviousStep \/ Confirm
    \/ Back \/ Leave \/ RunDoctor \/ LoadInstalled \/ Exit \/ Progress

-----------------------------------------------------------------------------
\* What is installed is the resource that the confirmed preview showed, the
\* result that is shown is the one of this install, and no way back leads to a
\* screen that installs again or shows a result that was left
\* (InstallProgressScreen.tsx:71, App.tsx:102).
InstallsWhatWasConfirmed ==
    /\ install.phase \in {"calling", "answered"} => install.of = confirmed
    /\ Top = "installProgress" => install.phase # "none" \/ ~live
    /\ Top = "success" => seen.result # None /\ seen.result.of = confirmed
    /\ Top \in {"resourcePreview", "installConfig", "dependencyPreview"} => seen.resource # None
    /\ \A i \in 1..Len(stack) - 1 : stack[i] \notin {"splash", "installProgress", "success"}

\* An install whose call is answered comes to the screen with its result, on
\* which the user goes on (InstallProgressScreen.tsx:86).
InstallIsShown == Top = "installProgress" ~> Top = "success" \/ ~live
=============================================================================
