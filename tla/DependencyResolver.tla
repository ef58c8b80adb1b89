------------------------- MODULE DependencyResolver -------------------------
(***************************************************************************)
(* DependencyResolver (src/src/dependencies/index.ts) with the resolver    *)
(* that it uses for resolveAdvanced, the cache of its results, and the     *)
(* plans built from what it resolves.                                      *)
(*                                                                         *)
(* A registry is a sequence of resources: an id, an alias or NoAlias, a    *)
(* version, the dependencies in order, and whether the resource says that  *)
(* it runs on this machine.                                                *)
(***************************************************************************)
EXTENDS Versions, DependencyGraph

CONSTANTS
    Id,         \* ids of resources and their aliases, numbers in their order
    NoAlias,
    Registries, \* the registries of a behaviour, one after another
    Requests,   \* what the resolver is asked
    MaxDepth,   \* maxDependencyDepth, and the context's maxDepth
    TTL,        \* ttlMs of the cache of results
    MaxSize,    \* maxSize of that cache
    MaxTime     \* bound: ticks of the clock

Dependency == [id : Id, range : VersionRange, optional : BOOLEAN]
Resource == [id : Id, alias : Id \cup {NoAlias}, version : Version,
             deps : Seq(Dependency), runs : BOOLEAN]

VARIABLES
    history,    \* the registries of the behaviour: the first is the present one
    cache,      \* _resolutionCache: keys, results and when they were made, oldest first
    lastResult, \* _lastResolverResult
    answer,     \* the request that was answered last, and the answer
    now, changed \* the clock, and when the registry last changed

vars == <<history, cache, lastResult, answer, now, changed>>

registry == Head(history)

NoResult == [error |-> "none"]
NoAnswer == [op |-> "none", result |-> NoResult, request |-> <<>>]

\* A dependency on a root, with any version.
RootDep(root) == [id |-> root, range |-> AnyVersion, optional |-> FALSE]

-----------------------------------------------------------------------------
(* Resources of the registry. *)

\* setResources: a resource is found by its id and by its alias.
Candidates(reg, id) == {i \in DOMAIN reg : reg[i].id = id \/ reg[i].alias = id}

\* _resolveVersionForDep: none, or the best resource for a dependency.
Resolvable(reg, dep) == Matching(reg, Candidates(reg, dep.id), dep.range) # {}
BestFor(reg, dep) == LatestOf(reg, Matching(reg, Candidates(reg, dep.id), dep.range))

-----------------------------------------------------------------------------
(* resolve *)

Reference == Id \X Version
Node == [id : Id, version : Version, refs : Seq(Reference), optional : BOOLEAN]

\* What a search has found so far: the nodes in the order in which they were
\* finished, what the node under way depends on, and the cycles.
Graph == [nodes : Seq(Node), refs : Seq(Reference), circular : SUBSET Seq(Id),
          error : {"none", "missing", "depth"}]
Nothing == [nodes |-> <<>>, refs |-> <<>>, circular |-> {}, error |-> "none"]

IdsOf(nodes) == {n.id : n \in Range(nodes)}
VersionOf(nodes, id) == (CHOOSE n \in Range(nodes) : n.id = id).version

\* A mutant: the node goes before those it depends on.
PrependNode(found, refs, node) == [found EXCEPT !.nodes = <<node>> \o @, !.refs = refs]

AddNode(found, refs, node) == [found EXCEPT !.nodes = Append(@, node), !.refs = refs]

\* What closes a path to a cycle.
CycleOf(path, id) ==
    Append(SubSeq(path, CHOOSE i \in DOMAIN path : path[i] = id, Len(path)), id)

\* A call of _resolveNode: the node at the end of a path has its dependencies
\* todo yet to go through.
Call == [path : Seq(Id), todo : Seq(Dependency), found : Graph]

\* _resolveNode, up to the next dependency.  One that is on the path closes a
\* cycle and is left to the call above; one that is there already is used as it
\* is, whatever version was asked for.
ResolveNode(reg, skip, bound, c, resolve) ==
    LET d == Head(c.todo)
        r == BestFor(reg, d)
        goOn(found) == resolve[[path |-> c.path, todo |-> Tail(c.todo), found |-> found]]
        refer(found, version) == goOn([found EXCEPT !.refs = Append(@, <<d.id, version>>)])
        child == resolve[[path |-> Append(c.path, d.id), todo |-> r.deps,
                          found |-> [c.found EXCEPT !.refs = <<>>]]]
        node == [id |-> d.id, version |-> r.version, refs |-> child.refs,
                 optional |-> d.optional]
    IN  IF c.todo = <<>> THEN c.found
        ELSE IF d.optional /\ (skip \/ ~Resolvable(reg, d)) THEN goOn(c.found)
        ELSE IF ~Resolvable(reg, d) THEN [c.found EXCEPT !.error = "missing"]
        ELSE IF d.id \in Range(c.path)
        THEN refer([c.found EXCEPT !.circular = @ \cup {CycleOf(c.path, d.id)}], r.version)
        ELSE IF d.id \in IdsOf(c.found.nodes)
        THEN refer(c.found, VersionOf(c.found.nodes, d.id))
        ELSE IF Len(c.path) >= bound THEN [c.found EXCEPT !.error = "depth"]
        ELSE IF child.error # "none" THEN child
        ELSE refer(AddNode(child, c.found.refs, node), r.version)

Resolve(reg, root, skip, bound) ==
    LET resolve[c \in Call] == ResolveNode(reg, skip, bound, c, resolve)
    IN  resolve[[path |-> <<>>, todo |-> <<RootDep(root)>>, found |-> Nothing]]

\* resolveOffline: the same, without a bound on the depth.
ResolveOffline(reg, root, skip) == Resolve(reg, root, skip, Cardinality(Id) + 1)

\* _detectConflicts: ids of which the nodes have several versions.
Conflicts(nodes) ==
    LET versions(id) ==
            {n.version : n \in {n \in Range(nodes) : n.id = id}}
            \cup {ref[2] : ref \in {ref \in UNION {Range(n.refs) : n \in Range(nodes)} :
                                    ref[1] = id}}
    IN  {id \in IdsOf(nodes) : Cardinality(versions(id)) > 1}

-----------------------------------------------------------------------------
(* Plans. *)

\* What a plan does with a node, given the versions that are installed.
Action(nodes, node, installed) ==
    IF node.id \in Conflicts(nodes) THEN "conflict"
    ELSE IF node.id \notin DOMAIN installed THEN "install"
    ELSE IF installed[node.id] = node.version THEN "skip" ELSE "update"

\* resolvePlan: the order is that in which the nodes were finished.
PlanOf(graph, installed) ==
    LET nodeOf(id) == CHOOSE n \in Range(graph.nodes) : n.id = id
    IN  [error |-> graph.error,
         order |-> [i \in DOMAIN graph.nodes |-> graph.nodes[i].id],
         nodes |-> [id \in IdsOf(graph.nodes) |->
             [action |-> Action(graph.nodes, nodeOf(id), installed),
              deps |-> [i \in DOMAIN nodeOf(id).refs |-> nodeOf(id).refs[i][1]]]]]

Plan(reg, root, skip, installed) == PlanOf(Resolve(reg, root, skip, MaxDepth), installed)

\* visit of _topologicalSort, up to the next id: cycles are cut where they close.
Visiting == [path : SUBSET Id, todo : Seq(Id), order : Seq(Id)]

Visit(nodes, c, visit) ==
    LET id == Head(c.todo)
        goOn(order) == visit[[path |-> c.path, todo |-> Tail(c.todo), order |-> order]]
    IN  IF c.todo = <<>> THEN c.order
        ELSE IF id \in c.path \cup Range(c.order) \/ id \notin DOMAIN nodes
        THEN goOn(c.order)
        ELSE goOn(Append(visit[[path |-> c.path \cup {id}, todo |-> nodes[id].deps,
                                order |-> c.order]], id))

\* _topologicalSort
DepthFirst(nodes, hint) ==
    LET visit[c \in Visiting] == Visit(nodes, c, visit)
    IN  visit[[path |-> {}, todo |-> hint, order |-> <<>>]]

\* buildMultiPlan: of an id that is in several plans, the first plan's is kept.
JoinedPlan(plans) ==
    LET wrong == {i \in DOMAIN plans : plans[i].error # "none"}
        ids == UNION {DOMAIN plans[i].nodes : i \in DOMAIN plans}
        first(id) == Min({i \in DOMAIN plans : id \in DOMAIN plans[i].nodes})
        nodes == [id \in ids |-> plans[first(id)].nodes[id]]
    IN  IF wrong # {} THEN [error |-> plans[Min(wrong)].error, order |-> <<>>, nodes |-> <<>>]
        ELSE IF Len(plans) = 1 THEN plans[1]
        ELSE [error |-> "none", nodes |-> nodes,
              order |-> DepthFirst(nodes, FlattenSeq([i \in DOMAIN plans |-> plans[i].order]))]

MultiPlan(reg, roots, skip, installed) ==
    JoinedPlan([i \in DOMAIN roots |-> Plan(reg, roots[i], skip, installed)])

-----------------------------------------------------------------------------
(* AdvancedDependencyResolver (advanced-resolver.ts). *)

\* The context lists the resources by id; aliases are not known.
Listed(reg, id) == {i \in DOMAIN reg : reg[i].id = id}

\* _resolveVersionForNode: the greatest version that runs here, or else the
\* greatest; the range that was asked for has no part in it.
ChosenFor(reg, id) ==
    LET here == {i \in Listed(reg, id) : reg[i].runs}
    IN  LatestOf(reg, IF here # {} THEN here ELSE Listed(reg, id))

\* Ids in the order in which their nodes were finished, and optional ids that the
\* registry lacks.
AdvancedGraph == [ids : Seq(Id), circular : SUBSET Id, unavailable : SUBSET Id,
                  error : {"none", "missing", "depth"}]
AdvancedCall == [path : Seq(Id), todo : Seq(Dependency), found : AdvancedGraph]

\* resolveNode, up to the next dependency.
VisitNode(reg, skip, c, visit) ==
    LET d == Head(c.todo)
        goOn(found) == visit[[path |-> c.path, todo |-> Tail(c.todo), found |-> found]]
        optional == c.path # <<>> /\ (d.optional \/ skip)
        after == visit[[path |-> Append(c.path, d.id), todo |-> ChosenFor(reg, d.id).deps,
                        found |-> c.found]]
    IN  IF c.todo = <<>> THEN c.found
        ELSE IF Len(c.path) > MaxDepth THEN [c.found EXCEPT !.error = "depth"]
        ELSE IF d.id \in Range(c.path) THEN goOn([c.found EXCEPT !.circular = @ \cup {d.id}])
        ELSE IF d.id \in Range(c.found.ids) THEN goOn(c.found)
        ELSE IF Listed(reg, d.id) = {}
        THEN IF optional THEN goOn([c.found EXCEPT !.unavailable = @ \cup {d.id}])
             ELSE [c.found EXCEPT !.error = "missing"]
        ELSE IF after.error # "none" THEN after
        ELSE goOn([after EXCEPT !.ids = Append(@, d.id)])

Search(reg, root, skip) ==
    LET visit[c \in AdvancedCall] == VisitNode(reg, skip, c, visit)
    IN  visit[[path |-> <<>>, todo |-> <<RootDep(root)>>,
               found |-> [ids |-> <<>>, circular |-> {}, unavailable |-> {}, error |-> "none"]]]

\* The edges of a node are those of all its dependencies.
NodeOf(reg, id) ==
    LET r == ChosenFor(reg, id)
    IN  [version |-> r.version,
         edges |-> [i \in DOMAIN r.deps |->
             Edge(id, r.deps[i].id, r.deps[i].range, r.deps[i].optional)]]

\* _detectConflicts: ids that are asked for with several ranges.
RangeConflicts(nodes) ==
    {id \in {e.to : e \in EdgesOf(nodes)} :
        Cardinality({e.range : e \in {e \in EdgesOf(nodes) : e.to = id}}) > 1}

\* resolve
AdvancedResolve(reg, root, skip, deny) ==
    LET found == Search(reg, root, skip)
        nodes == [id \in Range(found.ids) |-> NodeOf(reg, id)]
        itself == \E r \in Range(reg) : r.id = root /\ \E d \in Range(r.deps) : d.id = root
        conflicts == RangeConflicts(nodes)
    IN  IF itself THEN [error |-> "circular"]
        ELSE IF found.error # "none" THEN [error |-> found.error]
        ELSE IF deny /\ conflicts # {} THEN [error |-> "conflict"]
        ELSE [error |-> "none", nodes |-> nodes, conflicts |-> conflicts,
              order |-> TopologicalOrder(nodes),
              circular |-> found.circular # {} \/ HasCycle(nodes),
              unavailable |-> found.unavailable]

\* analyzeImpact: what depends on a resource, by the first version listed of
\* each, and of that what does not allow the new version.
Impact(reg, id, version) ==
    LET first(i) == \A j \in DOMAIN reg : reg[j].id = reg[i].id => i <= j
        edges == UNION {{Edge(reg[i].id, d.id, d.range, d.optional) : d \in Range(reg[i].deps)} :
                            i \in {i \in DOMAIN reg : first(i)}}
        all == TransitiveDependents(id, edges)
    IN  [error |-> "none", edges |-> edges, dependents |-> all,
         broken |-> {n \in all : \E e \in edges :
                        /\ e.from = n /\ e.to = id /\ Listed(reg, id) # {}
                        /\ ~SatisfiesRange(version, {e.range})}]

-----------------------------------------------------------------------------
(* The resolver. *)

Init ==
    /\ history \in Registries
    /\ cache = <<>> /\ lastResult = NoResult
    /\ answer = NoAnswer
    \* Bound: with one registry there is one request.
    /\ now = IF Len(history) = 1 THEN MaxTime ELSE 0
    /\ changed = now

\* A request takes no time.
Answered(request, result) ==
    /\ answer = NoAnswer
    /\ answer' = [op |-> request.op, request |-> request, result |-> result]
    /\ UNCHANGED <<history, now, changed>>

ResolveRequest(q) ==
    /\ \/ q.op = "resolve" /\ Answered(q, Resolve(registry, q.roots[1], q.skip, MaxDepth))
       \/ q.op = "offline" /\ Answered(q, ResolveOffline(registry, q.roots[1], q.skip))
    /\ UNCHANGED <<cache, lastResult>>

PlanRequest(q) ==
    /\ q.op = "plan"
    /\ Answered(q, MultiPlan(registry, q.roots, q.skip, q.installed))
    /\ UNCHANGED <<cache, lastResult>>

ImpactRequest(q) ==
    /\ q.op = "impact"
    /\ Answered(q, Impact(registry, q.roots[1], q.version))
    /\ UNCHANGED <<cache, lastResult>>

\* buildKey: the policy and the revision of the registry are not in it.
Key(q) == <<q.roots[1], q.skip>>

\* A mutant: what is in the cache is never too old.
EverFresh(entry) == TRUE

Fresh(entry) == now - entry.at <= TTL

\* ResolutionCache.get and set: an entry that is too old is removed when it is
\* asked for, the oldest makes room.
Held(q) == {i \in DOMAIN cache : cache[i].key = Key(q)}
Entry(q) == CHOOSE i \in Held(q) : TRUE
Without(q) == IF Held(q) = {} THEN cache ELSE RemoveAt(cache, Entry(q))
Stored(entries, q, result) ==
    Append(IF Len(entries) >= MaxSize THEN Tail(entries) ELSE entries,
           [key |-> Key(q), result |-> result, at |-> now])

\* resolveAdvanced
AdvancedRequest(q) ==
    /\ q.op = "advanced"
    /\ IF Held(q) # {} /\ Fresh(cache[Entry(q)])
       THEN /\ Answered(q, cache[Entry(q)].result)
            /\ UNCHANGED <<cache, lastResult>>
       ELSE LET result == AdvancedResolve(registry, q.roots[1], q.skip, q.deny)
            IN  /\ Answered(q, result)
                /\ IF result.error = "none"
                   THEN cache' = Stored(Without(q), q, result) /\ lastResult' = result
                   ELSE cache' = Without(q) /\ UNCHANGED lastResult

\* getTransitiveDependentsOf: over the result computed last.
DependentsRequest(q) ==
    /\ q.op = "dependents"
    /\ lastResult # NoResult
    /\ LET edges == EdgesOf(lastResult.nodes)
       IN  Answered(q, [error |-> "none", edges |-> edges,
                        dependents |-> TransitiveDependents(q.roots[1], edges)])
    /\ UNCHANGED <<cache, lastResult>>

\* The caller goes on.  Bound: while there is time.
Settle ==
    /\ answer # NoAnswer
    /\ now < MaxTime
    /\ answer' = NoAnswer
    /\ UNCHANGED <<history, cache, lastResult, now, changed>>

SetResources ==
    /\ answer = NoAnswer
    /\ Len(history) > 1
    /\ history' = Tail(history)
    /\ changed' = now
    /\ UNCHANGED <<cache, lastResult, answer, now>>

InvalidateResolutionCache ==
    /\ answer = NoAnswer
    /\ cache' = <<>> /\ lastResult' = NoResult
    /\ UNCHANGED <<history, answer, now, changed>>

Tick ==
    /\ answer = NoAnswer
    /\ now < MaxTime
    /\ now' = now + 1
    /\ UNCHANGED <<history, cache, lastResult, answer, changed>>

Next ==
    \/ \E q \in Requests : \/ ResolveRequest(q) \/ PlanRequest(q) \/ ImpactRequest(q)
                           \/ AdvancedRequest(q) \/ DependentsRequest(q)
    \/ Settle \/ SetResources \/ InvalidateResolutionCache \/ Tick

Spec == Init /\ [][Next]_vars

-----------------------------------------------------------------------------
(* What the results have to be. *)

\* Each id is there once, and after the ids that it depends on unless they
\* depend on it in turn.
WellOrdered(order, ids, pairs) ==
    /\ Range(order) = ids /\ Len(order) = Cardinality(ids)
    /\ \A i, j \in DOMAIN order :
          <<order[i], order[j]>> \in pairs /\ i < j => Reach(pairs, order[j], order[i])

Pairs(nodes) == UNION {{<<n, d>> : d \in Range(nodes[n].deps)} : n \in DOMAIN nodes}

\* A graph that is resolved has what its root needs and nothing else, in an
\* order to install it, and names a cycle exactly if there is one.  A plan for
\* several roots is ordered too (dependencies/index.ts:533-650, plan.ts:62-145).
ResolutionIsSound ==
    LET result == answer.result
    IN  result.error = "none" =>
            /\ answer.op \in {"resolve", "offline"} =>
                  LET nodes == result.nodes
                      root == answer.request.roots[1]
                      ids == IdsOf(nodes)
                      pairs == UNION {{<<n.id, ref[1]>> : ref \in Range(n.refs)} : n \in Range(nodes)}
                  IN  /\ WellOrdered([i \in DOMAIN nodes |-> nodes[i].id], ids, pairs)
                      /\ \A p \in pairs : p[2] \in ids
                      /\ root \in ids /\ \A n \in ids : n = root \/ Reach(pairs, root, n)
                      /\ (result.circular # {}) = \E n \in ids : Reach(pairs, n, n)
            /\ answer.op = "plan" =>
                  WellOrdered(result.order, DOMAIN result.nodes, Pairs(result.nodes))

Backwards(s) == [i \in DOMAIN s |-> s[Len(s) + 1 - i]]

\* The same registry, with the dependencies of its resources listed backwards.
Relisted(reg) == [i \in DOMAIN reg |-> [reg[i] EXCEPT !.deps = Backwards(@)]]

\* An advanced result orders the nodes that reach no cycle, each after its
\* dependencies, and its order does not depend on how the registry lists them
\* (graph.ts:155-211, advanced-resolver.ts:237).
AdvancedIsSound ==
    answer.op = "advanced" /\ answer.result.error = "none" =>
        LET result == answer.result
            pairs == InnerEdges(result.nodes)
            q == answer.request
            \* The result was computed from the present registry.
            current == AdvancedResolve(registry, q.roots[1], q.skip, q.deny) = result
            other == AdvancedResolve(Relisted(registry), q.roots[1], q.skip, q.deny)
        IN  /\ WellOrdered(result.order,
                  {n \in DOMAIN result.nodes :
                      ~\E m \in DOMAIN result.nodes :
                          Reach(pairs, m, m) /\ (m = n \/ Reach(pairs, n, m))}, pairs)
            /\ current /\ other.error = "none" => other.order = result.order

\* The dependents of a resource are all that reach it, also around a cycle
\* (graph.ts:254-276, advanced-resolver.ts:292-312).
DependentsAreComplete ==
    answer.op \in {"impact", "dependents"} =>
        LET pairs == {<<e.from, e.to>> : e \in answer.result.edges}
        IN  answer.result.dependents =
                {n \in Id : Reach(pairs, n, answer.request.roots[1])}

\* An answer from the cache is what the registry of now gives to some caller, or
\* the registry changed within the time to live of the answer
\* (resolution-cache.ts:62-72).
StaleAtMostTTL ==
    answer.op = "advanced" =>
        \/ now - changed <= TTL
        \/ \E deny \in {answer.request.deny, FALSE} :
              answer.result = AdvancedResolve(registry, answer.request.roots[1],
                                              answer.request.skip, deny)
=============================================================================
