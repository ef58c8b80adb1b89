------------------------------ MODULE Versions ------------------------------
(***************************************************************************)
(* VersionResolver (src/src/versions/index.ts): order, ranges and choice   *)
(* of versions.                                                            *)
(*                                                                         *)
(* A version has a major, a minor and a patch number, and a pre-release    *)
(* tag: its place in the order of tags, or 0.  A range is an operator and  *)
(* the versions that it names; one that cannot be parsed has operator      *)
(* "none".                                                                 *)
(***************************************************************************)
EXTENDS Integers

Version == [major : Nat, minor : Nat, patch : Nat, pre : Nat]

V(major, minor, patch, pre) ==
    [major |-> major, minor |-> minor, patch |-> patch, pre |-> pre]

\* _parseSpec reads an operator; "latest", the empty range, and what is no
\* version at all, are "any".  A range of several parts, which only
\* satisfiesRange takes apart, is no version after its operator.
Operator == {"any", "exact", "gte", "lte", "gt", "lt", "caret", "tilde", "range", "none"}

VersionRange == [op : Operator, low : Version, high : Version]

RangeOf(op, low, high) == [op |-> op, low |-> low, high |-> high]
AnyVersion == RangeOf("any", V(0, 0, 0, 0), V(0, 0, 0, 0))

\* _compareParsed: a version comes after its pre-releases.
Before(a, b) ==
    \/ a.major < b.major
    \/ a.major = b.major /\ a.minor < b.minor
    \/ a.major = b.major /\ a.minor = b.minor /\ a.patch < b.patch
    \/ /\ <<a.major, a.minor, a.patch>> = <<b.major, b.minor, b.patch>>
       /\ a.pre # 0 /\ (b.pre = 0 \/ a.pre < b.pre)

AtLeast(a, b) == ~Before(a, b)

\* _satisfies
Satisfies(v, spec) ==
    CASE spec.op = "any" -> TRUE
      [] spec.op = "exact" -> v = spec.low
      [] spec.op = "gte" -> AtLeast(v, spec.low)
      [] spec.op = "lte" -> AtLeast(spec.low, v)
      [] spec.op = "gt" -> Before(spec.low, v)
      [] spec.op = "lt" -> Before(v, spec.low)
      [] spec.op = "caret" -> AtLeast(v, spec.low) /\ v.major = spec.low.major
      [] spec.op = "tilde" -> /\ AtLeast(v, spec.low)
                              /\ v.major = spec.low.major /\ v.minor = spec.low.minor
      [] spec.op = "range" -> AtLeast(v, spec.low) /\ AtLeast(spec.high, v)
      [] spec.op = "none" -> FALSE

\* satisfiesRange: every part of the range.
SatisfiesRange(v, specs) == \A s \in specs : Satisfies(v, s)

\* getLatest: of the resources of a registry at some positions, the first of
\* those with the greatest version.
LatestOf(reg, positions) ==
    reg[CHOOSE i \in positions :
        \A j \in positions :
            \/ Before(reg[j].version, reg[i].version)
            \/ ~Before(reg[i].version, reg[j].version) /\ i <= j]

\* resolveVersion, and the resources that have the version.
Matching(reg, positions, spec) == {i \in positions : Satisfies(reg[i].version, spec)}
=============================================================================
