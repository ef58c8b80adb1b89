---------------------------- MODULE MCExtensions ----------------------------
(***************************************************************************)
(* Extensions on small instances, and the strategies of merging, which are *)
(* a part of their own.                                                    *)
(***************************************************************************)
EXTENDS Extensions, TLC

CONSTANTS p1, p2, p3

VARIABLES strategies, changes, merged

-----------------------------------------------------------------------------
(* Plugins. *)

MCHooksOf == [p \in Plugin |-> IF p = p2 THEN {"search", "install"} ELSE {"search"}]

MCPriority == {-1, 0, 1}

NoDeps == [p \in Plugin |-> <<>>]
InLine == [p \in Plugin |-> IF p = p1 THEN <<p2>> ELSE IF p = p2 THEN <<p3>> ELSE <<>>]
Fork == [p \in Plugin |-> IF p = p1 THEN <<p3, p2>> ELSE <<>>]
Circle == [p \in Plugin |-> IF p = p1 THEN <<p2>> ELSE IF p = p2 THEN <<p1>> ELSE <<>>]
Even == [p \in Plugin |-> 0]
P3First == [p \in Plugin |-> IF p = p3 THEN 1 ELSE 0]

Behaviour(plugins, deps, priority, stop, ops, n) ==
    [plugins |-> plugins, deps |-> deps, priority |-> priority, stop |-> stop,
     disabled |-> IF "enable" \in ops THEN {p3} ELSE {},
     ops |-> ops, events |-> n]

Symmetry == Permutations(Caller) \cup Permutations(Execution)

All == <<p1, p2, p3>>

MCScenarios == {
    Behaviour(All, InLine, Even, {p2}, {"initialize", "dispose", "disable", "enable", "fail"}, 5),
    Behaviour(All, Fork, P3First, {}, {"initialize", "dispose", "unregister", "register"}, 5),
    Behaviour(All, Circle, Even, {}, {"initialize", "unregister", "register"}, 4),
    Behaviour(All, NoDeps, Even, {}, {"execute", "disable", "enable", "unregister", "register", "fail"}, 5),
    Behaviour(All, InLine, Even, {}, {"initialize", "dispose", "execute", "set"}, 5),
    Behaviour(<<p1, p2>>, NoDeps, Even, {}, {"execute", "handle", "fail"}, 3),
    Behaviour(<<p1>>, NoDeps, Even, {}, {"initialize", "dispose", "set", "clear", "fail", "crash"}, 6)
}

-----------------------------------------------------------------------------
(* Registries and requests for the resolvers: the graphs of four resources *)
(* with up to two dependencies each (one with the last); three resources,  *)
(* one of them with an alias and two versions, with optional dependencies  *)
(* and ranges; and pairs of registries for the cache.                      *)

V1 == V(1, 0, 0, 0)
V1Pre == V(1, 0, 0, 1)
V2 == V(2, 0, 0, 0)

Dep(id, range, optional) == [id |-> id, range |-> range, optional |-> optional]
Resource(id, alias, version, deps, runs) ==
    [id |-> id, alias |-> alias, version |-> version, deps |-> deps, runs |-> runs]

\* Lists of at most n dependencies on different ids.
Lists(deps, n) ==
    {<<>>} \cup {<<d>> : d \in deps}
    \cup {<<p[1], p[2]>> : p \in {p \in deps \X deps : n > 1 /\ p[1].id # p[2].id}}

Plain(id) == Dep(id, AnyVersion, FALSE)

Shapes ==
    LET lists(i) == Lists({Plain(j) : j \in 1..4 \ {i}}, IF i = 4 THEN 1 ELSE 2)
    IN  {<<[i \in 1..4 |-> Resource(i, NoAlias, V1, <<a, b, c, d>>[i], TRUE)]>> :
            a \in lists(1), b \in lists(2), c \in lists(3), d \in lists(4)}

\* What a dependency on an id may ask for.
Kinds(ids) ==
    {Dep(i, RangeOf("caret", V1Pre, V1Pre), FALSE) : i \in ids}
    \cup {Dep(i, AnyVersion, TRUE) : i \in ids}
    \cup {Dep(i, RangeOf("gte", V2, V2), FALSE) : i \in ids}

\* Resource 2 is also known as 4.
Mixed ==
    {<<<<Resource(1, NoAlias, V1, a, TRUE), Resource(2, 4, V2, b, FALSE),
         Resource(2, 4, V1, c, TRUE), Resource(3, NoAlias, V2, d, TRUE)>>>> :
            a \in Lists(Kinds({2, 3, 4}), 2), b \in Lists(Kinds({1, 3}), 1),
            c \in Lists(Kinds({3}), 1), d \in Lists(Kinds({1}), 1)}

Line(k) == [i \in 1..4 |->
    Resource(i, NoAlias, V1, IF i < k THEN <<Plain(i + 1)>> ELSE <<>>, TRUE)]

Changing == {<<Line(j), Line(k)>> : j, k \in 2..4}

MCRegistries == Shapes \cup Mixed \cup Changing

\* The registry of a behaviour that goes on, for all requests; the others are
\* asked once.
Request(op, roots, skip, deny) ==
    [op |-> op, roots |-> roots, skip |-> skip, deny |-> deny,
     installed |-> 3 :> V1 @@ 2 :> V1, version |-> V2]

MCRequests ==
    {Request("resolve", <<1>>, FALSE, FALSE), Request("resolve", <<5>>, FALSE, FALSE),
     Request("offline", <<1>>, TRUE, FALSE), Request("offline", <<4>>, FALSE, FALSE),
     Request("plan", <<1, 2>>, FALSE, FALSE), Request("plan", <<3>>, FALSE, FALSE),
     Request("impact", <<1>>, FALSE, FALSE), Request("impact", <<2>>, FALSE, FALSE),
     Request("advanced", <<1>>, FALSE, FALSE), Request("advanced", <<2>>, FALSE, TRUE),
     Request("advanced", <<1>>, TRUE, TRUE), Request("dependents", <<4>>, FALSE, FALSE)}

-----------------------------------------------------------------------------
(* Texts of up to two lines, and trees of up to three levels.              *)

MCTexts ==
    LET lines == {<<>>, <<"import", "a">>, <<"a">>, <<"x">>}
    IN  {<<l>> : l \in lines} \cup (lines \X lines)

MCDocuments ==
    LET nothing == [k \in {} |-> 0]
        leaf(kind, value) == [kind |-> kind, value |-> value, at |-> nothing]
        object(members) == [kind |-> "object", value |-> 0, at |-> members]
        values == {leaf("number", 0), leaf("array", 1), object(nothing)}
                  \cup {object("p" :> leaf("number", n)) : n \in {0, 1}}
                  \cup {object("p" :> object("p" :> leaf("number", 0)))}
        trees == {object(nothing)} \cup {object("p" :> v) : v \in values}
                 \cup {object(("p" :> v) @@ ("q" :> w)) : v, w \in values}
    IN  {[tree |-> t, pretty |-> TRUE] : t \in trees}
        \cup {[tree |-> object("p" :> leaf("number", 0)), pretty |-> FALSE],
              [tree |-> leaf("garbage", 0), pretty |-> FALSE]}

Merging == INSTANCE Merge WITH
    ImportWord <- {"import"}, Texts <- MCTexts, Documents <- MCDocuments,
    Variables <- <<"x", "y">>, ValueOf <- ("x" :> <<"y", "b">>) @@ ("y" :> <<"a">>),
    MaxChanges <- 1

-----------------------------------------------------------------------------
(* Registries of up to five resources, three of which have two versions    *)
(* that differ in what they are indexed by; two resources share a name.    *)

Listed(id, v) ==
    [id |-> id, version |-> v, name |-> IF id = 2 THEN 1 ELSE id,
     displayName |-> IF v = 1 THEN id ELSE 6, category |-> v, tags |-> {id, v},
     author |-> id, frameworks |-> IF v = 1 THEN {} ELSE {id}]

MCListings ==
    LET some(id, vs) == {{}} \cup {{Listed(id, v)} : v \in vs}
    IN  {a \cup b \cup c \cup d \cup {Listed(5, 1)} :
            a \in some(1, {1, 2}), b \in some(2, {1, 2}), c \in some(3, {1, 2}), d \in some(4, {1})}

-----------------------------------------------------------------------------
(* Resource types that have a manifest's name in common, and installers.   *)

MCNamesOf == <<{"x"}, {"x", "y"}, {"x", "y"}>>
MCTypesOf == <<{1}, {1, 2}, {1, 2}>>
MCPriorityOf == <<1, 0, 1>>

-----------------------------------------------------------------------------
mergeVars == <<strategies, changes, merged>>

MCInit ==
    /\ part \in Part
    /\ part # "plugins" => scenario = CHOOSE s \in Scenarios : TRUE
    /\ part # "resolution" => history = <<Line(2), Line(2)>>
    /\ ExtensionsInit
    /\ Merging!MergeInit

MCNext ==
    \/ ExtensionsNext /\ UNCHANGED mergeVars
    \/ part = "merge" /\ Merging!MergeNext /\ UNCHANGED extensionVars

MCSpec == MCInit /\ [][MCNext]_<<extensionVars, mergeVars>>

-----------------------------------------------------------------------------
\* Merging a file again changes nothing, and keeps what it had (of Merge).
MergeIsSound == Merging!MergeIsSound
=============================================================================
