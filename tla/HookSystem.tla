----------------------------- MODULE HookSystem -----------------------------
(***************************************************************************)
(* HookSystem (src/src/hooks/index.ts): plugins register handlers of a     *)
(* hook, and an execution of the hook awaits one handler after the other.  *)
(*                                                                         *)
(* The handlers of a hook are an array that an execution goes through      *)
(* while others change it.  register pushes to that array and sorts it in  *)
(* place, so that a handler can get in before one that is running;         *)
(* unregister puts another array in its place, and the executions under    *)
(* way keep the old one.                                                   *)
(***************************************************************************)
EXTENDS Integers, FiniteSets, SequencesExt

CONSTANTS
    Plugin,     \* ids of plugins
    HookName,   \* hooks
    HooksOf,    \* the hooks that a plugin handles
    Priority,   \* of handlers: the lower ones first
    Execution   \* bound: executions

ASSUME HookAssumption ==
    /\ HooksOf \in [Plugin -> SUBSET HookName]
    /\ Priority \subseteq Int /\ 0 \in Priority

VARIABLES
    hooks,      \* _hooks: the handlers of a hook, in order
    execution,  \* executions: the array each goes through, and where it is
    registered  \* history: how many handlers were registered

hookVars == <<hooks, execution, registered>>

\* What becomes of an error of a handler; "log" is "ignore" with a message.
ErrorPolicy == {"throw", "ignore"}

\* A handler, told apart from the same plugin's earlier ones.
Handler == [plugin : Plugin, serial : Nat, priority : Priority, errorPolicy : ErrorPolicy]

\* An execution that goes through the array in _hooks has own = FALSE.  found
\* is what that array held when it started, ran what it has called, and shifted
\* tells that a handler got in among those that it had called by then.
Unstarted == [status |-> "none", hook |-> "none", own |-> FALSE, list |-> <<>>,
              next |-> 1, found |-> <<>>, ran |-> <<>>, shifted |-> FALSE]

HookTypeOK ==
    /\ hooks \in [HookName -> Seq(Handler)]
    /\ registered \in Nat
    /\ \A x \in Execution :
          /\ DOMAIN execution[x] = DOMAIN Unstarted
          /\ execution[x].status \in {"none", "handler", "done", "threw"}

-----------------------------------------------------------------------------
\* register pushes the handler and sorts: it comes after those of its priority,
\* in an array that was in order.
Place(list, e) == 1 + Cardinality({i \in DOMAIN list : list[i].priority <= e.priority})
Sorted(list, e) == InsertAt(list, Place(list, e), e)

\* register, of handler e for each of the hooks hs: the array that executions
\* may be going through changes under them.
WithHandler(hs, e) ==
    /\ hooks' = [h \in HookName |-> IF h \in hs THEN Sorted(hooks[h], e) ELSE hooks[h]]
    /\ registered' = registered + 1
    /\ execution' = [x \in Execution |->
           LET r == execution[x]
           IN  IF /\ r.status = "handler" /\ ~r.own /\ r.hook \in hs
                  /\ Place(hooks[r.hook], e) <= r.next
               THEN [r EXCEPT !.shifted = TRUE]
               ELSE r]

New(p, priority, errorPolicy) ==
    [plugin |-> p, serial |-> registered + 1,
     priority |-> priority, errorPolicy |-> errorPolicy]

\* _registerPluginHooks: a handler of each hook that the plugin has one for.
WithHandlersOf(p) == WithHandler(HooksOf[p], New(p, 0, "throw"))

\* What a list has at the positions, in order.
At(list, positions) ==
    LET before(i) == {j \in positions : j <= i}
    IN  [n \in 1 .. Cardinality(positions) |->
            list[CHOOSE i \in positions : Cardinality(before(i)) = n]]

Others(p, list) == At(list, {i \in DOMAIN list : list[i].plugin # p})

\* A mutant: unregisterAll takes the handlers out of the array itself.
SplicedHandlersOf(p) ==
    /\ hooks' = [h \in HookName |-> Others(p, hooks[h])]
    /\ UNCHANGED <<execution, registered>>

\* Executions that go through an array of the hooks hs keep it.
Keeping(hs) ==
    execution' = [x \in Execution |->
        LET r == execution[x]
        IN  IF r.status = "handler" /\ ~r.own /\ r.hook \in hs
            THEN [r EXCEPT !.own = TRUE, !.list = hooks[r.hook]]
            ELSE r]

\* unregisterAll: an array without the handlers of a plugin, where it has any.
WithoutHandlersOf(p) ==
    /\ hooks' = [h \in HookName |-> Others(p, hooks[h])]
    /\ Keeping({h \in HookName : hooks'[h] # hooks[h]})
    /\ UNCHANGED registered

\* unregister, of one hook: another array even if the plugin has none in it.
WithoutHandlers(h, p) ==
    /\ hooks' = [hooks EXCEPT ![h] = Others(p, @)]
    /\ Keeping({h})
    /\ UNCHANGED registered

-----------------------------------------------------------------------------
(* execute *)

ListOf(x) == IF execution[x].own THEN execution[x].list
             ELSE hooks[execution[x].hook]

\* Without handlers the default one returns the input.
Execute(x, h) ==
    /\ execution[x].status = "none"
    /\ execution' = [execution EXCEPT ![x] =
           IF hooks[h] = <<>>
           THEN [Unstarted EXCEPT !.status = "done", !.hook = h]
           ELSE [Unstarted EXCEPT !.status = "handler", !.hook = h,
                                  !.found = hooks[h], !.ran = <<hooks[h][1]>>]]
    /\ UNCHANGED <<hooks, registered>>

\* The next handler of the array, as it is by then, is called.
CallNext(x) ==
    /\ LET e == execution[x]
           i == e.next + 1
       IN  execution' = [execution EXCEPT ![x] =
               IF i <= Len(ListOf(x))
               THEN [e EXCEPT !.next = i, !.ran = Append(e.ran, ListOf(x)[i])]
               ELSE [e EXCEPT !.status = "done"]]
    /\ UNCHANGED <<hooks, registered>>

HandlerReturns(x) == execution[x].status = "handler" /\ CallNext(x)

\* A handler throws, and with it the execution, if that is its policy.
HandlerThrows(x) ==
    /\ execution[x].status = "handler"
    /\ IF Last(execution[x].ran).errorPolicy = "throw"
       THEN /\ execution' = [execution EXCEPT ![x].status = "threw"]
            /\ UNCHANGED <<hooks, registered>>
       ELSE CallNext(x)

-----------------------------------------------------------------------------
\* By priority, and by registration where that is the same.
Precedes(d, e) == d.priority < e.priority \/ (d.priority = e.priority /\ d.serial < e.serial)
=============================================================================
