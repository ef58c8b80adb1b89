---------------------------- MODULE PluginManager ----------------------------
(***************************************************************************)
(* PluginManager (src/src/plugins/index.ts) with its hook system and the   *)
(* store of the plugins' states.  register, unregister, enable and disable *)
(* are synchronous; initialize and dispose await one plugin after another  *)
(* from a list of entries that they made when they were called.            *)
(***************************************************************************)
EXTENDS HookSystem, PluginStateStore, Functions, FiniteSetsExt

CONSTANTS
    Caller,     \* who calls initialize and dispose
    Scenarios   \* plugins and events of a behaviour, and the bound on events

Event == {"initialize", "dispose", "register", "unregister", "enable", "disable",
          "execute", "handle", "set", "clear", "fail", "crash"}

ASSUME PluginAssumption ==
    /\ Owner \subseteq Plugin
    /\ \A s \in Scenarios :
          /\ s.plugins \in Seq(Plugin) /\ s.deps \in [Plugin -> Seq(Plugin)]
          /\ s.priority \in [Plugin -> Int]
          /\ {s.stop, s.disabled} \subseteq SUBSET Plugin
          /\ s.ops \subseteq Event /\ s.events \in Nat

VARIABLES
    order,      \* _plugins: the ids of its entries, in the order of the map
    entry,      \* _plugins: what the entries hold
    initialized, \* _initialized
    call,       \* what a caller is doing
    known,      \* plugins that were given a context
    scenario, events

managerVars == <<order, entry, initialized, call, known>>
vars == <<managerVars, scenario, events, hookVars, storeVars>>

State == {"discovered", "loading", "ready", "failed", "disposed"}
NoEntry == [state |-> "none", enabled |-> FALSE]
NewEntry(p) == [state |-> "discovered", enabled |-> p \notin scenario.disabled]

\* A call: the plugins that it has yet to go through, the first of which is
\* under way.  missing: that one lacks a dependency.  enabled: the plugins that
\* were when it was called.  upto: the saves that its flush waits for.  tried, a
\* history: those that were ready when it was called, or that it is done with.
Idle == [pc |-> "idle", todo |-> <<>>, missing |-> FALSE, enabled |-> {},
         upto |-> [o \in Owner |-> 0], tried |-> {}]

TypeOK ==
    /\ order \in Seq(Plugin)
    /\ \A p \in Plugin : entry[p] \in [state : State \cup {"none"}, enabled : BOOLEAN]
    /\ \A c \in Caller : call[c].pc \in {"idle", "initialize", "dispose", "flush"}
    /\ HookTypeOK /\ StoreTypeOK

Registered(p) == p \in Range(order)
Deps(p) == Range(scenario.deps[p])

\* What a process has that has registered the plugins of the scenario.
FirstEntry(p) == IF p \in Range(scenario.plugins) THEN NewEntry(p) ELSE NoEntry

FirstHandlers(h) ==
    LET plugins == scenario.plugins
    IN  At([i \in DOMAIN plugins |-> [plugin |-> plugins[i], serial |-> i,
                                      priority |-> 0, errorPolicy |-> "throw"]],
           {i \in DOMAIN plugins : /\ h \in HooksOf[plugins[i]]
                                   /\ plugins[i] \notin scenario.disabled})

Init ==
    /\ scenario \in Scenarios /\ events = 0
    /\ order = scenario.plugins /\ entry = [p \in Plugin |-> FirstEntry(p)]
    /\ initialized = FALSE /\ known = {}
    /\ call = [c \in Caller |-> Idle]
    /\ hooks = [h \in HookName |-> FirstHandlers(h)] /\ registered = Len(order)
    /\ execution = [x \in Execution |-> Unstarted]
    /\ NothingStored

Happens(event) ==
    /\ event \in scenario.ops
    /\ events < scenario.events
    /\ events' = events + 1
    /\ UNCHANGED scenario

Goes == UNCHANGED <<scenario, events>>

\* _setPluginState
WithState(entries, p, state) ==
    IF Registered(p) THEN [entries EXCEPT ![p].state = state] ELSE entries

\* _makePluginContext, for the plugins ps.
GiveContext(ps) == known' = known \cup ps /\ LoadState(ps \cap Owner)

-----------------------------------------------------------------------------
(* register, unregister, enable, disable *)

SameCalls == UNCHANGED <<initialized, call>>

\* A plugin that is registered already is refused.
Register(p) ==
    /\ Happens("register")
    /\ ~Registered(p)
    /\ order' = Append(order, p)
    /\ entry' = [entry EXCEPT ![p] = NewEntry(p)]
    /\ IF NewEntry(p).enabled THEN WithHandlersOf(p) ELSE UNCHANGED hookVars
    /\ SameCalls /\ UNCHANGED <<known, storeVars>>

Unregister(p) ==
    /\ Happens("unregister")
    /\ Registered(p)
    /\ order' = At(order, {i \in DOMAIN order : order[i] # p})
    /\ entry' = [entry EXCEPT ![p] = NoEntry]
    /\ WithoutHandlersOf(p)
    /\ SameCalls /\ UNCHANGED <<known, storeVars>>

\* enable registers the handlers, also of a plugin that has them.
Enable(p) ==
    /\ Happens("enable")
    /\ Registered(p)
    /\ entry' = [entry EXCEPT ![p].enabled = TRUE]
    /\ WithHandlersOf(p)
    /\ GiveContext({p})
    /\ SameCalls /\ UNCHANGED order

Disable(p) ==
    /\ Happens("disable")
    /\ Registered(p)
    /\ entry' = [entry EXCEPT ![p].enabled = FALSE]
    /\ WithoutHandlersOf(p)
    /\ GiveContext({p})
    /\ SameCalls /\ UNCHANGED order

-----------------------------------------------------------------------------
(* initialize *)

\* The order of priority, higher first, then that of registration.
ByPriority ==
    LET rank(i) == Cardinality({j \in DOMAIN order :
            \/ scenario.priority[order[j]] > scenario.priority[order[i]]
            \/ scenario.priority[order[j]] = scenario.priority[order[i]] /\ j <= i})
    IN  [n \in DOMAIN order |-> order[CHOOSE i \in DOMAIN order : rank(i) = n]]

\* What was put in order, and whether plugins depend on one another in a circle.
Sorting == [sorted : Seq(Plugin), circular : BOOLEAN]

\* A mutant: the order of priority is all.
OrderOfPriority == [sorted |-> ByPriority, circular |-> FALSE]

\* A call of visit: the plugins on the path are being visited, todo are next.
Visiting == [path : SUBSET Plugin, todo : Seq(Plugin), found : Sorting]

\* visit, up to the next plugin: its dependencies go before it.
VisitEntry(c, visit) ==
    LET p == Head(c.todo)
        goOn(found) == visit[[path |-> c.path, todo |-> Tail(c.todo), found |-> found]]
        after == visit[[path |-> c.path \cup {p}, todo |-> scenario.deps[p], found |-> c.found]]
    IN  IF c.todo = <<>> THEN c.found
        ELSE IF p \in Range(c.found.sorted) \/ ~Registered(p) THEN goOn(c.found)
        ELSE IF p \in c.path THEN [c.found EXCEPT !.circular = TRUE]
        ELSE IF after.circular THEN after
        ELSE goOn([after EXCEPT !.sorted = Append(@, p)])

\* _getInitializationOrder: depth first, dependencies before dependents.
InitializationOrder ==
    LET visit[c \in Visiting] == VisitEntry(c, visit)
    IN  visit[[path |-> {}, todo |-> ByPriority,
               found |-> [sorted |-> <<>>, circular |-> FALSE]]]

Missing(p) == \E d \in Deps(p) : ~Registered(d)

\* The call goes on with the plugins todo: the first one is loading, and its
\* onInitialize awaited, unless it lacks a dependency.
GoOn(c, entries, todo, enabled, tried) ==
    IF todo = <<>>
    THEN /\ call' = [call EXCEPT ![c] = [Idle EXCEPT !.pc = "flush", !.upto = made]]
         /\ initialized' = TRUE /\ entry' = entries
         /\ GiveContext({})
    ELSE LET p == Head(todo)
         IN  /\ call' = [call EXCEPT ![c] = [Idle EXCEPT !.pc = "initialize",
                    !.todo = todo, !.missing = Missing(p), !.enabled = enabled,
                    !.tried = tried]]
             /\ entry' = WithState(entries, p, "loading")
             /\ GiveContext(IF Missing(p) THEN {} ELSE {p})
             /\ UNCHANGED initialized

\* A dependency that is not there, and a circle of them, end the call before
\* anything is initialized.
Initialize(c) ==
    /\ Happens("initialize")
    /\ call[c].pc = "idle"
    /\ ~initialized /\ ~InitializationOrder.circular
    /\ LET enabled == {p \in Range(order) : entry[p].enabled}
           ready == {p \in enabled : entry[p].state = "ready"}
           sorted == InitializationOrder.sorted
       IN  /\ ~\E p \in enabled : Missing(p)
           /\ GoOn(c, entry, At(sorted, {i \in DOMAIN sorted :
                  sorted[i] \in enabled \ ready}), enabled, ready)
    /\ UNCHANGED <<order, hookVars>>

InitializeRefused(c) ==
    /\ Happens("initialize")
    /\ call[c].pc = "idle"
    /\ \/ initialized \/ InitializationOrder.circular
       \/ \E p \in Range(order) : entry[p].enabled /\ Missing(p)
    /\ UNCHANGED <<managerVars, hookVars, storeVars>>

\* onInitialize is over.  A failure ends the call if the plugin's policy is
\* "stop".
PluginReady(c) ==
    /\ Goes
    /\ call[c].pc = "initialize" /\ ~call[c].missing
    /\ LET p == Head(call[c].todo)
       IN  GoOn(c, WithState(entry, p, "ready"), Tail(call[c].todo), call[c].enabled,
                call[c].tried \cup {p})
    /\ UNCHANGED <<order, hookVars>>

PluginFails(c) ==
    /\ Goes
    /\ call[c].pc = "initialize"
    /\ call[c].missing \/ "fail" \in scenario.ops
    /\ LET p == Head(call[c].todo)
       IN  IF p \in scenario.stop
           THEN /\ entry' = WithState(entry, p, "failed")
                /\ call' = [call EXCEPT ![c] = Idle]
                /\ UNCHANGED <<initialized, known, storeVars>>
           ELSE GoOn(c, WithState(entry, p, "failed"), Tail(call[c].todo),
                     call[c].enabled, call[c].tried \cup {p})
    /\ UNCHANGED <<order, hookVars>>

-----------------------------------------------------------------------------
(* dispose *)

Dispose(c) ==
    /\ Happens("dispose")
    /\ call[c].pc = "idle"
    /\ LET todo == At(ByPriority, {i \in DOMAIN order : entry[ByPriority[i]].state = "ready"})
       IN  IF todo = <<>>
           THEN /\ call' = [call EXCEPT ![c] = [Idle EXCEPT !.pc = "flush", !.upto = made]]
                /\ initialized' = FALSE
                /\ GiveContext({})
           ELSE /\ call' = [call EXCEPT ![c] = [Idle EXCEPT !.pc = "dispose", !.todo = todo]]
                /\ GiveContext({Head(todo)})
                /\ UNCHANGED initialized
    /\ UNCHANGED <<order, entry, hookVars>>

\* onDispose is over, or failed, which is logged.
PluginDisposed(c) ==
    /\ Goes
    /\ call[c].pc = "dispose"
    /\ LET p == Head(call[c].todo)
           todo == Tail(call[c].todo)
       IN  /\ WithoutHandlersOf(p)
           /\ entry' = WithState(entry, p, "disposed")
           /\ IF todo = <<>>
              THEN /\ call' = [call EXCEPT ![c] = [Idle EXCEPT !.pc = "flush", !.upto = made]]
                   /\ initialized' = FALSE
                   /\ GiveContext({})
              ELSE /\ call' = [call EXCEPT ![c].todo = todo]
                   /\ GiveContext({Head(todo)})
                   /\ UNCHANGED initialized
    /\ UNCHANGED order

\* initialize and dispose end with a flush.
Flush(c) ==
    /\ Goes
    /\ call[c].pc = "flush"
    /\ FlushReturns(call[c].upto)
    /\ call' = [call EXCEPT ![c] = Idle]
    /\ UNCHANGED <<order, entry, initialized, known, hookVars>>

-----------------------------------------------------------------------------
(* What plugins do with their contexts, and the store. *)

\* A plugin sets or deletes a key of its state; one that may not write to the
\* disk has its state in memory.
SetState(p) ==
    /\ Happens("set")
    /\ p \in known \cap Owner
    /\ Save(p)
    /\ UNCHANGED <<managerVars, hookVars>>

ClearState(p) ==
    /\ Happens("clear")
    /\ Clear(p)
    /\ UNCHANGED <<managerVars, hookVars>>

StoreStep(o) ==
    /\ Goes
    /\ \/ BeginSave(o) \/ MakeDir(o) \/ WriteTmp(o) \/ RenameTmp(o) \/ RemoveDir(o)
       \/ (MustFail(o) \/ "fail" \in scenario.ops) /\ SaveFails(o)
    /\ UNCHANGED <<managerVars, hookVars>>

-----------------------------------------------------------------------------
(* Executions of hooks, by search and by the installer, and what a host does *)
(* with the hook system, which the manager shows it (hookSystem).            *)

HostRegisters(h, p, priority, errorPolicy) ==
    /\ Happens("handle")
    /\ WithHandler({h}, New(p, priority, errorPolicy))
    /\ UNCHANGED <<managerVars, storeVars>>

HostUnregisters(h, p) ==
    /\ Happens("handle")
    /\ WithoutHandlers(h, p)
    /\ UNCHANGED <<managerVars, storeVars>>

ExecuteHook(x, h) ==
    /\ Happens("execute")
    /\ Execute(x, h)
    /\ UNCHANGED <<managerVars, storeVars>>

HookStep(x) ==
    /\ Goes
    /\ \/ HandlerReturns(x)
       \/ "fail" \in scenario.ops /\ HandlerThrows(x)
    /\ UNCHANGED <<managerVars, storeVars>>

-----------------------------------------------------------------------------
\* The process ends, and another one registers the plugins again.
Crash ==
    /\ Happens("crash")
    /\ order' = scenario.plugins /\ entry' = [p \in Plugin |-> FirstEntry(p)]
    /\ initialized' = FALSE /\ known' = {}
    /\ call' = [c \in Caller |-> Idle]
    /\ hooks' = [h \in HookName |-> FirstHandlers(h)] /\ registered' = Len(order')
    /\ execution' = [x \in Execution |-> Unstarted]
    /\ StoreDies

Next ==
    \/ \E p \in Plugin : Register(p) \/ Unregister(p) \/ Enable(p) \/ Disable(p)
    \/ \E c \in Caller : \/ Initialize(c) \/ InitializeRefused(c)
                         \/ PluginReady(c) \/ PluginFails(c)
                         \/ Dispose(c) \/ PluginDisposed(c) \/ Flush(c)
    \/ \E o \in Owner : SetState(o) \/ ClearState(o) \/ StoreStep(o)
    \/ \E x \in Execution : HookStep(x) \/ \E h \in HookName : ExecuteHook(x, h)
    \/ \E h \in HookName, p \in Plugin :
          \/ HostUnregisters(h, p)
          \/ \E i \in Priority, e \in ErrorPolicy : HostRegisters(h, p, i, e)
    \/ Crash

Spec == Init /\ [][Next]_vars

-----------------------------------------------------------------------------
\* An execution that is done has called all handlers that were there when it
\* started, whatever came and went meanwhile; and it calls them in the order of
\* their priorities and, of one priority, of their registration, none of them
\* twice: always, if only plugins have handlers, and else unless one was
\* registered meanwhile that goes before the one under way, which shifts the
\* array (hooks/index.ts:42-93, 104-154, plugins/index.ts:521-534).
HandlersRunOnce ==
    \A x \in Execution :
        LET e == execution[x]
        IN  /\ e.status = "done" => ToSet(e.found) \subseteq ToSet(e.ran)
            /\ "handle" \notin scenario.ops \/ ~e.shifted =>
                  \A i, j \in DOMAIN e.ran : i < j => Precedes(e.ran[i], e.ran[j])

\* A plugin's onInitialize is called after that of each of its dependencies, in
\* the same call unless it was ready when the call began, whatever their
\* priorities and whoever else initializes, disposes, disables or registers
\* plugins, and also when one of them failed; only a dependency that was
\* disabled when the call began is passed over (plugins/index.ts:81-124,
\* 636-680).
DependenciesFirst ==
    \A c \in Caller : call[c].pc = "initialize" /\ ~call[c].missing =>
        Deps(Head(call[c].todo)) \cap call[c].enabled \subseteq call[c].tried
=============================================================================
