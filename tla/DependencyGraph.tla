--------------------------- MODULE DependencyGraph ---------------------------
(***************************************************************************)
(* The functions of src/src/dependencies/graph.ts over the nodes of a      *)
(* graph, a function from ids to records with the edges of the dependencies,*)
(* in order.  Ids are numbers, in the order of their names.                *)
(***************************************************************************)
EXTENDS Naturals, SequencesExt, Functions, FiniteSetsExt

Edge(from, to, range, optional) ==
    [from |-> from, to |-> to, range |-> range, optional |-> optional]

EdgesOf(nodes) == UNION {Range(nodes[n].edges) : n \in DOMAIN nodes}

\* The edges between nodes of the graph.
InnerEdges(nodes) ==
    {<<e.from, e.to>> : e \in {e \in EdgesOf(nodes) : e.to \in DOMAIN nodes}}

\* The nodes whose dependencies are all done, and which are not.
Free(nodes, done) ==
    {n \in DOMAIN nodes \ done : \A e \in InnerEdges(nodes) : e[1] = n => e[2] \in done}

\* buildTopologicalOrder: of the nodes with all dependencies in the order, the one
\* with the least name is next; nodes that are never free are left out.
TopologicalOrder(nodes) ==
    LET order[done \in SUBSET DOMAIN nodes] ==
            IF Free(nodes, done) = {} THEN <<>>
            ELSE LET n == Min(Free(nodes, done)) IN <<n>> \o order[done \cup {n}]
    IN  order[{}]

\* From m one comes to n: it is in every set that has what m leads to, and what
\* the members lead to.
Reach(pairs, m, n) ==
    LET targets == {p[2] : p \in pairs}
    IN  \A ids \in SUBSET targets :
            (\A p \in pairs : p[1] \in ids \cup {m} => p[2] \in ids) => n \in ids

\* detectCycles: whether it finds one; optional edges do not count.
HasCycle(nodes) ==
    LET required == {<<e.from, e.to>> : e \in {e \in EdgesOf(nodes) : ~e.optional}}
    IN  \E n \in DOMAIN nodes : Reach(required, n, n)

\* buildReverseEdges and getDependents
Dependents(id, edges) == {e.from : e \in {e \in edges : e.to = id}}

\* A mutant: the search goes on from the node only, not from those it finds.
DirectDependents(id, edges) == Dependents(id, edges)

\* getTransitiveDependents: breadth first, from the node itself.
TransitiveDependents(id, edges) ==
    LET more(found) == UNION {Dependents(n, edges) : n \in found \cup {id}}
        search[found \in SUBSET {e.from : e \in edges}] ==
            IF more(found) \subseteq found THEN found ELSE search[found \cup more(found)]
    IN  search[{}]
=============================================================================
