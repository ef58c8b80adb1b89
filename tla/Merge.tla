-------------------------------- MODULE Merge --------------------------------
(***************************************************************************)
(* The merge strategies and their registry (src/src/merge/index.ts).       *)
(*                                                                         *)
(* A line is a sequence of words, a text a non-empty sequence of lines;    *)
(* the text that ends with a newline has an empty line at its end.  A JSON *)
(* text is a tree of objects, or garbage; whether it is formatted as       *)
(* JSON.stringify does matters to what counts as a change.                 *)
(***************************************************************************)
EXTENDS Naturals, Sequences, SequencesExt, FiniteSetsExt

CONSTANTS
    ImportWord,     \* words that an import begins with
    Texts,          \* texts to merge
    Documents,      \* JSON texts to merge: [tree, pretty], tree may be Garbage
    Variables,      \* the variables of a context, in their order
    ValueOf,        \* [variable -> line]
    MaxChanges      \* bound: changes of the registry

VARIABLES
    strategies,     \* names that are registered
    changes,
    merged          \* the last application

mergeVars == <<strategies, changes, merged>>

Built == {"copy", "replace", "merge", "append", "prepend", "patch", "ast", "template"}

-----------------------------------------------------------------------------
(* JSON                                                                    *)

Object(members) == [kind |-> "object", value |-> 0, at |-> members]
Garbage == [kind |-> "garbage", value |-> 0, at |-> [k \in {} |-> 0]]

IsPlainObject(v) == v.kind = "object"
Keys(v) == DOMAIN v.at

\* Mutant of DeepMerge: objects below the top are replaced.
ShallowMerge(target, source) ==
    Object([k \in Keys(target) \cup Keys(source) |->
        IF k \in Keys(source) THEN source.at[k] ELSE target.at[k]])

RECURSIVE DeepMerge(_, _)
DeepMerge(target, source) ==
    Object([k \in Keys(target) \cup Keys(source) |->
        CASE k \notin Keys(source) -> target.at[k]
          [] k \notin Keys(target) -> source.at[k]
          [] OTHER ->
               IF IsPlainObject(source.at[k]) /\ IsPlainObject(target.at[k])
               THEN DeepMerge(target.at[k], source.at[k])
               ELSE source.at[k]])

\* The paths of the keys that both have, down to where one is no object.
RECURSIVE CollectConflicts(_, _, _)
CollectConflicts(existing, incoming, path) ==
    UNION {LET e == existing.at[k]
               i == incoming.at[k]
           IN  IF IsPlainObject(e) /\ IsPlainObject(i)
               THEN CollectConflicts(e, i, Append(path, k))
               ELSE {[path |-> Append(path, k),
                      type |-> IF e.kind = "array" /\ i.kind = "array" THEN "array" ELSE "key"]} :
           k \in Keys(existing) \cap Keys(incoming)}

Result(content, changed, conflicts) ==
    [content |-> content, changed |-> changed, conflicts |-> conflicts]

\* One that cannot be parsed: the incoming text, without a word.
DeepMergeJson(existing, incoming) ==
    IF Garbage \in {existing.tree, incoming.tree}
    THEN Result(incoming, existing # incoming, {})
    ELSE LET content == [tree |-> DeepMerge(existing.tree, incoming.tree), pretty |-> TRUE]
         IN  Result(content, existing # content,
                    CollectConflicts(existing.tree, incoming.tree, <<>>))

-----------------------------------------------------------------------------
(* Texts                                                                   *)

\* No newline comes between them.
Glue(s, t) == Front(s) \o <<Last(s) \o Head(t)>> \o Tail(t)

Replaced(existing, incoming) == Result(incoming, existing # incoming, {})
Joined(existing, content) == Result(content, existing # content, {})

Added(existing, incoming) ==
    LET isNew(line) == line \notin ToSet(existing) IN SelectSeq(incoming, isNew)

Patch(existing, incoming) ==
    LET added == Added(existing, incoming)
    IN  Result(existing \o added, added # <<>>, {})

IsImport(line) == line # <<>> /\ Head(line) \in ImportWord
ExtractImports(text) == SelectSeq(text, IsImport)
StripImports(text) == LET kept(line) == ~IsImport(line) IN SelectSeq(text, kept)

\* The first of each, in their order.
Once(lines) ==
    FoldLeft(LAMBDA seen, l : IF l \in ToSet(seen) THEN seen ELSE Append(seen, l), <<>>, lines)

\* Joined lines that make the empty string are left out.
Unless(lines) == IF lines \in {<<>>, << <<>> >>} THEN <<>> ELSE lines

Ast(existing, incoming) ==
    IF existing = incoming
    THEN Result(existing, FALSE, {})
    ELSE LET lines == Once(ExtractImports(existing) \o ExtractImports(incoming))
                      \o Unless(StripImports(existing)) \o Unless(StripImports(incoming))
             content == IF lines = <<>> THEN << <<>> >> ELSE lines
         IN  Result(content, existing # content, {})

Substitute(line, x) == FlattenSeq([n \in 1..Len(line) |-> IF line[n] = x THEN ValueOf[x] ELSE <<line[n]>>])

\* One variable after the other, also in the values of those before it; the
\* words Variables and "unknown" stand for placeholders.
Template(existing, incoming) ==
    LET all(line) == FoldLeft(Substitute, line, Variables)
        content == [n \in 1..Len(incoming) |-> all(incoming[n])]
        open == \E n \in 1..Len(content) :
                    ToSet(content[n]) \cap (ToSet(Variables) \cup {"unknown"}) # {}
    IN  Result(content, existing # content,
               IF open THEN {[path |-> <<>>, type |-> "key"]} ELSE {})

-----------------------------------------------------------------------------
(* The registry                                                            *)

MergeInit ==
    /\ strategies = Built
    /\ changes = 0
    /\ merged = <<>>

Register ==
    /\ changes < MaxChanges
    /\ changes' = changes + 1
    /\ \E s \in Built : strategies' = strategies \cup {s}
    /\ UNCHANGED merged

Unregister ==
    /\ changes < MaxChanges
    /\ changes' = changes + 1
    /\ \E s \in strategies : strategies' = strategies \ {s}
    /\ UNCHANGED merged

\* A strategy that is not registered copies.
Merged(strategy, existing, incoming) ==
    CASE strategy \notin strategies -> Replaced(existing, incoming)
      [] strategy \in {"copy", "replace"} -> Replaced(existing, incoming)
      [] strategy = "merge" -> DeepMergeJson(existing, incoming)
      [] strategy = "append" -> Joined(existing, Glue(existing, incoming))
      [] strategy = "prepend" -> Joined(existing, Glue(incoming, existing))
      [] strategy = "patch" -> Patch(existing, incoming)
      [] strategy = "ast" -> Ast(existing, incoming)
      [] strategy = "template" -> Template(existing, incoming)

\* The bound asks once.
Apply ==
    /\ merged = <<>>
    /\ \E strategy \in Built :
         \E e, i \in IF strategy = "merge" THEN Documents ELSE Texts :
           merged' = <<[strategy |-> strategy, existing |-> e, incoming |-> i,
                        by |-> strategies, result |-> Merged(strategy, e, i)]>>
    /\ UNCHANGED <<strategies, changes>>

MergeNext == Register \/ Unregister \/ Apply

-----------------------------------------------------------------------------
(* What a merge promises, said without its recursion                       *)

RECURSIVE Nodes(_, _)
Nodes(v, path) ==
    {[path |-> path, kind |-> v.kind, value |-> v.value]}
    \cup UNION {Nodes(v.at[k], Append(path, k)) : k \in Keys(v)}

\* A node is replaced by one that the incoming tree has at its path, or above,
\* unless both are objects there.
Survives(node, existing, incoming) ==
    \A n \in 1..Len(node.path) :
      \A new \in {m \in incoming : m.path = SubSeq(node.path, 1, n)} :
        /\ new.kind = "object"
        /\ \E old \in existing : old.path = new.path /\ old.kind = "object"

JsonIsMerged(existing, incoming, result) ==
    LET old == Nodes(existing, <<>>)
        new == Nodes(incoming, <<>>)
    IN  /\ Nodes(result.content.tree, <<>>) = new \cup {n \in old : Survives(n, old, new)}
        /\ \A n \in old : Survives(n, old, new) \/
             \E c \in result.conflicts : IsPrefix(c.path, n.path)

\* What a merge says is what it did: it reports a change exactly when the file
\* changes; of two JSON trees it keeps each value that nothing replaces, and
\* each that is replaced is under a reported conflict; a patch keeps the file,
\* adds what is missing and adds nothing again; the merge of code keeps every
\* line, with each import once and before the rest (merge/index.ts:47, 116).
MergeIsSound ==
    \A m \in ToSet(merged) :
      LET result == m.result
          lines == ToSet(result.content)
      IN  /\ result.changed <=> result.content # m.existing
          /\ m.strategy = "merge" /\ "merge" \in m.by
             /\ Garbage \notin {m.existing.tree, m.incoming.tree}
             => JsonIsMerged(m.existing.tree, m.incoming.tree, result)
          /\ m.strategy = "patch" /\ "patch" \in m.by
             => /\ IsPrefix(m.existing, result.content)
                /\ ToSet(m.incoming) \subseteq lines
                /\ ~Patch(result.content, m.incoming).changed
          /\ m.strategy = "ast" /\ "ast" \in m.by /\ result.changed
             => /\ (ToSet(m.existing) \cup ToSet(m.incoming)) \ {<<>>} \subseteq lines
                /\ LET top == ExtractImports(result.content)
                   IN  IsPrefix(top, result.content) /\ IsInjective(top)
=============================================================================
