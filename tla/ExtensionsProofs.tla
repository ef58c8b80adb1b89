-------------------------- MODULE ExtensionsProofs --------------------------
(***************************************************************************)
(* Theorems about the extensions: plugins with the hook system and their   *)
(* store, the resolvers of dependencies, the index of resources and the    *)
(* registries of types, for any plugins, callers, registries and requests. *)
(*                                                                         *)
(* Hooks: the array that an execution goes through, shared or its own, is  *)
(* in order, and what was there when it started was called or is still to  *)
(* come in it; what it has called is the front of the array, unless a      *)
(* handler got in there.  The store: what a save writes, and what is       *)
(* in memory for the next one, is no older than anything that it replaces  *)
(* or that waits for it, unless that failed or was cleared.                *)
(*                                                                         *)
(* Recursion: a function that calls itself with less has one solution with *)
(* the range that it should have (Recursion); what holds of a call when it *)
(* holds of those below it holds of all, by the least call that breaks it  *)
(* (LeastCall).  That gives the order in which plugins are initialized and *)
(* what the searches of the resolvers find: a call of _resolveNode adds to *)
(* the graph what its list needs, and leaves nothing behind it unfinished  *)
(* but what is on its path (Resolves); a visit of a plan orders what it is *)
(* given (Visits).                                                         *)
(***************************************************************************)
EXTENDS Extensions, FiniteSetTheorems, SequenceTheorems, WellFoundedInduction, TLAPS


\* Every set of naturals has a least element.
LEMMA LeastNumber ==
    ASSUME NEW S \in SUBSET Nat, S # {}
    PROVE  \E i \in S : \A j \in S : i <= j
<1> DEFINE T == {1 .. i : i \in S}
<1>1. \A i \in S : 1 .. i \in SUBSET Nat /\ IsFiniteSet(1 .. i)
  BY FS_Interval
<1>2. T # {} /\ T \subseteq FiniteSubsetsOf(Nat)
  BY <1>1 DEF FiniteSubsetsOf
<1> HIDE DEF T
<1>3. \E X \in T : \A Y \in T : <<Y, X>> \notin StrictSubsetOrdering(Nat)
  BY <1>2, WFMin, FS_StrictSubsetOrderingWellFounded
<1>4. PICK i \in S : \A j \in S : <<1 .. j, 1 .. i>> \notin StrictSubsetOrdering(Nat)
  BY <1>3 DEF T
<1>5. ASSUME NEW j \in S, j < i
      PROVE  FALSE
  <2>1. i \in Nat /\ j \in Nat /\ i >= 1
    BY <1>5
  <2>2. 1 .. j \subseteq 1 .. i /\ i \in 1 .. i /\ i \notin 1 .. j
    BY <1>5, <2>1
  <2>3. 1 .. j \in SUBSET Nat /\ 1 .. i \in SUBSET Nat /\ 1 .. j # 1 .. i
    BY <2>1, <2>2
  <2>4. <<1 .. j, 1 .. i>> \in StrictSubsetOrdering(Nat)
    BY <2>2, <2>3, Zenon DEF StrictSubsetOrdering
  <2> QED
    BY <1>4, <1>5, <2>4
<1> QED
  BY <1>5

\* Calls of a recursive function are made with what is below: less by the first
\* measure, or as much and less by the second.
Below(a, b, y, x) == a[y] < a[x] \/ (a[y] = a[x] /\ b[y] < b[x])

LEMMA LeastCall ==
    ASSUME NEW S, NEW a \in [S -> Nat], NEW b \in [S -> Nat], S # {}
    PROVE  \E x \in S : \A y \in S : ~Below(a, b, y, x)
<1> DEFINE A == {a[x] : x \in S}
<1>1. PICK m \in A : \A k \in A : m <= k
  <2>1. A \in SUBSET Nat /\ A # {}
    OBVIOUS
  <2> HIDE DEF A
  <2> QED
    BY <2>1, LeastNumber
<1> DEFINE T == {x \in S : a[x] = m}
           B == {b[x] : x \in T}
<1>2. PICK n \in B : \A k \in B : n <= k
  <2>1. B \in SUBSET Nat /\ B # {}
    BY <1>1
  <2> HIDE DEF B
  <2> QED
    BY <2>1, LeastNumber
<1>3. PICK x \in T : n = b[x]
  BY <1>2
<1>4. ASSUME NEW y \in S PROVE ~Below(a, b, y, x)
  <2>1. a[x] = m /\ a[x] <= a[y] /\ a[x] \in Nat /\ a[y] \in Nat /\ b[x] \in Nat /\ b[y] \in Nat
    BY <1>1, <1>3, <1>4
  <2>2. a[y] = m => b[x] <= b[y]
    BY <1>2, <1>3, <1>4
  <2> QED
    BY <2>1, <2>2 DEF Below
<1> QED
  BY <1>3, <1>4

\* f does what Step does, for all of P.
Follows(Step, f, P) == \A x \in P : f[x] = Step[<<x, f>>]

\* A recursion that only calls itself with what is below has a solution.
Measures(D, a, b) == a \in [D -> Nat] /\ b \in [D -> Nat]

\* Step makes a value of those of the calls below.
Recurs(D, U, a, b, Step) ==
    /\ Measures(D, a, b)
    /\ Step \in [D \X [D -> U] -> U]
    /\ \A x \in D, f \in [D -> U], g \in [D -> U] :
          (\A y \in D : Below(a, b, y, x) => f[y] = g[y]) => Step[<<x, f>>] = Step[<<x, g>>]

LEMMA Recursion ==
    ASSUME NEW D, NEW U, U # {}, NEW a, NEW b, NEW Step, Recurs(D, U, a, b, Step)
    PROVE  \E f \in [D -> U] : Follows(Step, f, D)
<1>a. PICK v : v \in U
  OBVIOUS
<1>b. /\ a \in [D -> Nat] /\ b \in [D -> Nat] /\ Step \in [D \X [D -> U] -> U]
      /\ \A x \in D, f \in [D -> U], g \in [D -> U] :
            (\A y \in D : Below(a, b, y, x) => f[y] = g[y]) => Step[<<x, f>>] = Step[<<x, g>>]
  BY DEF Recurs, Measures
<1> DEFINE Down(x) == {y \in D : Below(a, b, y, x)}
           Solves(f, x) == f \in [D -> U] /\ Follows(Step, f, Down(x) \cup {x})
           sol == [x \in D |-> CHOOSE f \in [D -> U] : Solves(f, x)]
           h == [x \in D |-> IF sol[x] \in [D -> U] THEN sol[x][x] ELSE v]
<1>0. \A x \in D : a[x] \in Nat /\ b[x] \in Nat
  BY <1>b
<1>1. ASSUME NEW x \in D, NEW y \in Down(x), NEW z \in Down(y)
      PROVE  z \in Down(x)
  BY <1>0, <1>1 DEF Below
\* Solutions agree on what both are for.
<1>2. ASSUME NEW f \in [D -> U], NEW g \in [D -> U], NEW x \in D, Solves(f, x),
             NEW w \in D, Solves(g, w), NEW u \in D, u \in Down(x) \cup {x}, u \in Down(w) \cup {w}
      PROVE  f[u] = g[u]
  <2> DEFINE Bad == {y \in (Down(x) \cup {x}) \cap (Down(w) \cup {w}) : f[y] # g[y]}
  <2>1. SUFFICES ASSUME Bad # {} PROVE FALSE
    BY <1>2
  <2>2. PICK y \in Bad : \A z \in Bad : ~Below(a, b, z, y)
    <3>1. [z \in Bad |-> a[z]] \in [Bad -> Nat] /\ [z \in Bad |-> b[z]] \in [Bad -> Nat]
      BY <1>0
    <3>2. PICK y \in Bad : \A z \in Bad : ~Below([k \in Bad |-> a[k]], [k \in Bad |-> b[k]], z, y)
      BY <2>1, <3>1, LeastCall
    <3> QED
      BY <3>2 DEF Below
  <2>3. ASSUME NEW z \in D, Below(a, b, z, y) PROVE f[z] = g[z]
    <3>1. z \in Down(x) /\ z \in Down(w)
      BY <1>1, <2>2, <2>3
    <3> QED
      BY <2>2, <2>3, <3>1
  <2>4. Step[<<y, f>>] = Step[<<y, g>>]
    BY <1>b, <2>2, <2>3
  <2> QED
    BY <2>2, <2>4, <1>2 DEF Follows
\* If what is below has solutions, h follows Step there.
<1>3. ASSUME NEW x \in D, \A y \in Down(x) : \E f \in [D -> U] : Solves(f, y)
      PROVE  Follows(Step, h, Down(x))
  <2> SUFFICES ASSUME NEW y \in Down(x) PROVE h[y] = Step[<<y, h>>]
    BY DEF Follows
  <2>1. \A z \in Down(x) : sol[z] \in [D -> U] /\ Solves(sol[z], z)
    BY <1>3
  <2>2. \A z \in Down(x) : h[z] = sol[z][z]
    BY <2>1
  <2>3. h \in [D -> U]
    BY <1>a, <1>b
  <2>4. ASSUME NEW z \in D, Below(a, b, z, y) PROVE h[z] = sol[y][z]
    <3>1. z \in Down(y) /\ z \in Down(x)
      BY <1>1, <2>4
    <3>2. Solves(sol[z], z) /\ sol[z] \in [D -> U] /\ Solves(sol[y], y) /\ sol[y] \in [D -> U]
      BY <2>1, <3>1
    <3>3. z \in Down(z) \cup {z} /\ z \in Down(y) \cup {y} /\ y \in D
      BY <3>1
    <3> HIDE DEF Solves, Down, sol, h
    <3>4. sol[z][z] = sol[y][z]
      BY <1>2, <2>4, <3>2, <3>3
    <3> QED
      BY <2>2, <3>1, <3>4
  <2>5. Step[<<y, h>>] = Step[<<y, sol[y]>>]
    <3>1. sol[y] \in [D -> U] /\ y \in D
      BY <2>1
    <3> HIDE DEF Solves, Down, sol, h
    <3> QED
      BY <1>b, <2>3, <2>4, <3>1
  <2>6. sol[y][y] = Step[<<y, sol[y]>>]
    BY <2>1 DEF Follows
  <2> QED
    BY <2>2, <2>5, <2>6
<1>4. \A x \in D : \E f \in [D -> U] : Solves(f, x)
  <2> DEFINE Bad == {x \in D : ~\E f \in [D -> U] : Solves(f, x)}
  <2>1. SUFFICES ASSUME Bad # {} PROVE FALSE
    OBVIOUS
  <2>2. PICK x \in Bad : \A z \in Bad : ~Below(a, b, z, x)
    <3> HIDE DEF sol, h, Solves
    <3>1. [z \in Bad |-> a[z]] \in [Bad -> Nat] /\ [z \in Bad |-> b[z]] \in [Bad -> Nat]
      BY <1>0
    <3>2. PICK x \in Bad : \A z \in Bad : ~Below([k \in Bad |-> a[k]], [k \in Bad |-> b[k]], z, x)
      BY <2>1, <3>1, LeastCall
    <3> QED
      BY <3>2 DEF Below
  <2>3. Follows(Step, h, Down(x))
    BY <1>3, <2>2
  <2> DEFINE g == [h EXCEPT ![x] = Step[<<x, h>>]]
  <2>4. h \in [D -> U] /\ Step[<<x, h>>] \in U /\ x \in D
    BY <1>a, <1>b, <2>2
  <2>5. g \in [D -> U] /\ g[x] = Step[<<x, h>>] /\ \A y \in D : y # x => g[y] = h[y]
    BY <2>4
  <2> HIDE DEF g, h, sol
  <2>6. ASSUME NEW y \in Down(x) \cup {x} PROVE g[y] = Step[<<y, g>>]
    <3>1. \A z \in D : Below(a, b, z, y) => z # x
      BY <1>0, <2>4, <2>6 DEF Below
    <3>2. Step[<<y, g>>] = Step[<<y, h>>]
      BY <1>b, <2>4, <2>5, <3>1
    <3>3. CASE y = x
      BY <2>5, <3>2, <3>3
    <3>4. CASE y # x
      BY <2>3, <2>5, <3>2, <3>4 DEF Follows
    <3> QED
      BY <3>3, <3>4
  <2>7. Solves(g, x)
    BY <2>5, <2>6 DEF Follows
  <2> QED
    BY <2>2, <2>5, <2>7
<1>5. ASSUME NEW x \in D PROVE h[x] = Step[<<x, h>>]
  <2>1. sol[x] \in [D -> U] /\ Solves(sol[x], x)
    BY <1>4
  <2>2. h \in [D -> U] /\ h[x] = sol[x][x]
    BY <1>a, <1>b, <2>1
  <2>3. ASSUME NEW z \in D, Below(a, b, z, x) PROVE h[z] = sol[x][z]
    <3>1. sol[z] \in [D -> U] /\ Solves(sol[z], z) /\ z \in Down(x)
      BY <1>4, <2>3
    <3>2. z \in Down(z) \cup {z} /\ z \in Down(x) \cup {x}
      BY <3>1
    <3>3. h[z] = sol[z][z]
      BY <3>1
    <3> HIDE DEF Solves, Down, sol, h
    <3>4. sol[z][z] = sol[x][z]
      BY <1>2, <2>1, <2>3, <3>1, <3>2
    <3> QED
      BY <3>3, <3>4
  <2>4. Step[<<x, h>>] = Step[<<x, sol[x]>>]
    <3> HIDE DEF Solves, Down, sol, h
    <3> QED
      BY <1>b, <2>1, <2>2, <2>3
  <2> QED
    BY <2>1, <2>2, <2>4 DEF Follows
<1>6. h \in [D -> U]
  BY <1>a, <1>b
<1> QED
  BY <1>5, <1>6 DEF Follows

-----------------------------------------------------------------------------
(* The registries of types and installers.                                 *)

Distinct(list) == \A k, l \in DOMAIN list : list[k] = list[l] => k = l

\* The installers of a type are those of all that support it, in their order.
PartOf(list, all, t) ==
    /\ {list[k] : k \in DOMAIN list} = {i \in {all[k] : k \in DOMAIN all} : t \in TypesOf[i]}
    /\ \A k, l \in DOMAIN list, a, b \in DOMAIN all :
          list[k] = all[a] /\ list[l] = all[b] /\ k < l => a < b

TypesInv ==
    /\ registrations \in Seq(Type) /\ Distinct(registrations)
    /\ manifestIndex \in [Types!Name -> Type \cup {Nobody}]
    /\ \A n \in Types!Name : manifestIndex[n] # Nobody =>
          /\ n \in NamesOf[manifestIndex[n]]
          /\ \E k \in DOMAIN registrations : registrations[k] = manifestIndex[n]
    /\ installers \in Seq(TypeInstaller) /\ Distinct(installers)
    /\ typeMap \in [Type -> Seq(TypeInstaller)]
    /\ \A t \in Type : Distinct(typeMap[t]) /\ PartOf(typeMap[t], installers, t)

\* What is left of a list, by its positions.
Drops(list, p, w) ==
    /\ Len(w) = Len(list) - 1
    /\ \A k \in 1 .. Len(list) - 1 : w[k] = IF k < p THEN list[k] ELSE list[k + 1]

LEMMA RemovedFrom ==
    ASSUME NEW S, NEW list \in Seq(S), Distinct(list), NEW p \in DOMAIN list
    PROVE  /\ Types!Without(list, list[p]) \in Seq(S)
           /\ Drops(list, p, Types!Without(list, list[p]))
<1>1. Types!Positions(list, list[p]) = {p}
  BY DEF Types!Positions, Distinct
<1>2. Types!Min({p}) = p
  BY DEF Types!Min
<1>3. Types!Without(list, list[p]) = SubSeq(list, 1, p - 1) \o SubSeq(list, p + 1, Len(list))
  BY <1>1, <1>2 DEF Types!Without, Types!RemoveAt
<1> DEFINE s == SubSeq(list, 1, p - 1)
           u == SubSeq(list, p + 1, Len(list))
<1>4. p \in 1 .. Len(list) /\ Len(list) \in Nat
  OBVIOUS
<1>5. s \in Seq(S) /\ Len(s) = p - 1 /\ \A k \in 1 .. p - 1 : s[k] = list[k]
  BY <1>4
<1>6. u \in Seq(S) /\ Len(u) = Len(list) - p /\ \A k \in 1 .. Len(list) - p : u[k] = list[p + k]
  BY <1>4
<1> HIDE DEF s, u
<1>7. s \o u \in Seq(S) /\ Len(s \o u) = Len(list) - 1
  <2>1. s \o u \in Seq(S) /\ Len(s \o u) = Len(s) + Len(u)
    BY <1>5, <1>6, ConcatProperties
  <2> QED
    BY <1>4, <1>5, <1>6, <2>1
<1>8. \A k \in 1 .. Len(list) - 1 : (s \o u)[k] = IF k < p THEN list[k] ELSE list[k + 1]
  <2> SUFFICES ASSUME NEW k \in 1 .. Len(list) - 1
               PROVE  (s \o u)[k] = IF k < p THEN list[k] ELSE list[k + 1]
    OBVIOUS
  <2>1. CASE k < p
    BY <1>4, <1>5, <1>6, <2>1
  <2>2. CASE ~(k < p)
    <3>1. k - (p - 1) \in 1 .. Len(list) - p /\ p + (k - (p - 1)) = k + 1
      BY <1>4, <2>2
    <3>2. (s \o u)[k] = u[k - (p - 1)]
      BY <1>4, <1>5, <1>6, <2>2
    <3> QED
      BY <1>6, <2>2, <3>1, <3>2
  <2> QED
    BY <2>1, <2>2
<1> QED
  BY <1>3, <1>7, <1>8 DEF s, u, Drops

\* The others are left, in their order.
Leaves(list, x, w) ==
    /\ Distinct(w)
    /\ {w[k] : k \in DOMAIN w} = {list[k] : k \in DOMAIN list} \ {x}
    /\ \A k, l \in DOMAIN w, a, b \in DOMAIN list :
          w[k] = list[a] /\ w[l] = list[b] => (k < l <=> a < b)

LEMMA LeftIn ==
    ASSUME NEW S, NEW list \in Seq(S), Distinct(list), NEW p \in DOMAIN list,
           NEW w \in Seq(S), Drops(list, p, w)
    PROVE  Leaves(list, list[p], w)
<1>1. w \in Seq(S) /\ Len(w) = Len(list) - 1
      /\ \A k \in 1 .. Len(list) - 1 : w[k] = IF k < p THEN list[k] ELSE list[k + 1]
  BY DEF Drops
<1>2. p \in 1 .. Len(list) /\ Len(list) \in Nat /\ DOMAIN list = 1 .. Len(list)
  OBVIOUS
<1>3. DOMAIN w = 1 .. Len(list) - 1
  BY <1>1, <1>2
<1>4. ASSUME NEW k \in DOMAIN w, NEW a \in DOMAIN list, w[k] = list[a]
      PROVE  a = IF k < p THEN k ELSE k + 1
  BY <1>1, <1>2, <1>3, <1>4 DEF Distinct
<1>5. Distinct(w)
  BY <1>1, <1>2, <1>3 DEF Distinct
<1>6. \A k, l \in DOMAIN w, a, b \in DOMAIN list :
         w[k] = list[a] /\ w[l] = list[b] => (k < l <=> a < b)
  BY <1>2, <1>3, <1>4
<1>7. ASSUME NEW k \in DOMAIN list, k # p
      PROVE  \E l \in DOMAIN w : w[l] = list[k]
  <2>1. CASE k < p
    BY <1>1, <1>2, <1>3, <2>1
  <2>2. CASE k > p
    <3>1. k - 1 \in DOMAIN w /\ ~(k - 1 < p) /\ (k - 1) + 1 = k
      BY <1>2, <1>3, <2>2
    <3> QED
      BY <1>1, <1>3, <3>1
  <2> QED
    BY <1>2, <1>7, <2>1, <2>2
<1>8. ASSUME NEW l \in DOMAIN w
      PROVE  \E k \in DOMAIN list : k # p /\ w[l] = list[k]
  <2>1. (IF l < p THEN l ELSE l + 1) \in DOMAIN list /\ (IF l < p THEN l ELSE l + 1) # p
    BY <1>2, <1>3
  <2> QED
    BY <1>1, <1>3, <2>1
<1>9. {w[k] : k \in DOMAIN w} = {list[k] : k \in DOMAIN list} \ {list[p]}
  <2>1. \A k \in DOMAIN list : k # p => list[k] # list[p]
    BY DEF Distinct
  <2>2. \A x \in {w[k] : k \in DOMAIN w} : x \in {list[k] : k \in DOMAIN list} \ {list[p]}
    BY <1>8, <2>1
  <2>3. \A x \in {list[k] : k \in DOMAIN list} \ {list[p]} : x \in {w[k] : k \in DOMAIN w}
    BY <1>7
  <2> QED
    BY <2>2, <2>3
<1> QED
  BY <1>5, <1>6, <1>9 DEF Leaves

LEMMA RangeOfTypes ==
    ASSUME NEW f PROVE Types!Range(f) = {f[k] : k \in DOMAIN f}
  BY DEF Types!Range

LEMMA TypesStart == Types!RegistriesInit => TypesInv
<1> SUFFICES ASSUME Types!RegistriesInit PROVE TypesInv
  OBVIOUS
<1>1. <<>> \in Seq(Type) /\ <<>> \in Seq(TypeInstaller) /\ Distinct(<<>>)
  BY DEF Distinct
<1>2. \A t \in Type : typeMap[t] = <<>> /\ PartOf(<<>>, <<>>, t)
  BY DEF Types!RegistriesInit, PartOf
<1> QED
  BY <1>1, <1>2 DEF Types!RegistriesInit, TypesInv

\* What is appended comes last.
LEMMA AppendedTo ==
    ASSUME NEW S, NEW list \in Seq(S), NEW x \in S
    PROVE  /\ Append(list, x) \in Seq(S)
           /\ DOMAIN list = 1 .. Len(list) /\ Len(list) \in Nat
           /\ DOMAIN Append(list, x) = 1 .. Len(list) + 1
           /\ Append(list, x)[Len(list) + 1] = x
           /\ \A k \in DOMAIN list : Append(list, x)[k] = list[k]
           /\ {Append(list, x)[k] : k \in DOMAIN Append(list, x)} =
                 {list[k] : k \in DOMAIN list} \cup {x}
<1> DEFINE w == Append(list, x)
<1>1. w \in Seq(S) /\ DOMAIN list = 1 .. Len(list) /\ Len(list) \in Nat
      /\ DOMAIN w = 1 .. Len(list) + 1 /\ w[Len(list) + 1] = x
      /\ \A k \in DOMAIN list : w[k] = list[k]
  OBVIOUS
<1> HIDE DEF w
<1>2. {w[k] : k \in DOMAIN w} = {list[k] : k \in DOMAIN list} \cup {x}
  <2>1. \A k \in DOMAIN w : k \in DOMAIN list \/ k = Len(list) + 1
    BY <1>1
  <2>2. \A k \in DOMAIN list : k \in DOMAIN w
    BY <1>1
  <2>3. Len(list) + 1 \in DOMAIN w
    BY <1>1
  <2> QED
    BY <1>1, <2>1, <2>2, <2>3
<1> QED
  BY <1>1, <1>2 DEF w

LEMMA AppendDistinct ==
    ASSUME NEW S, NEW list \in Seq(S), NEW x \in S, Distinct(list),
           x \notin {list[k] : k \in DOMAIN list}
    PROVE  Distinct(Append(list, x))
  BY AppendedTo DEF Distinct

LEMMA RegisterTypeKeeps ==
    ASSUME TypesInv, NEW t \in Type, Types!RegisterType(t)
    PROVE  TypesInv'
<1> USE TypesAssumption
<1>1. registrations' = Append(registrations, t) /\ t \notin {registrations[k] : k \in DOMAIN registrations}
  BY RangeOfTypes DEF Types!RegisterType
<1>2. registrations' \in Seq(Type) /\ Distinct(registrations')
  BY <1>1, AppendDistinct DEF TypesInv
<1>3. \A k \in DOMAIN registrations : k \in DOMAIN registrations' /\ registrations'[k] = registrations[k]
  BY <1>1, AppendedTo DEF TypesInv
<1>4. \E k \in DOMAIN registrations' : registrations'[k] = t
  <2>1. Len(registrations) + 1 \in DOMAIN registrations' /\ registrations'[Len(registrations) + 1] = t
    BY <1>1, AppendedTo DEF TypesInv
  <2> QED
    BY <2>1
<1>5. manifestIndex' = [n \in Types!Name |->
           IF n \in NamesOf[t] /\ manifestIndex[n] = Nobody THEN t ELSE manifestIndex[n]]
  BY DEF Types!RegisterType
<1>6. manifestIndex' \in [Types!Name -> Type \cup {Nobody}]
  BY <1>5 DEF TypesInv
<1>7. \A n \in Types!Name : manifestIndex'[n] # Nobody =>
          /\ n \in NamesOf[manifestIndex'[n]]
          /\ \E k \in DOMAIN registrations' : registrations'[k] = manifestIndex'[n]
  BY <1>3, <1>4, <1>5 DEF TypesInv
<1> QED
  BY <1>2, <1>6, <1>7 DEF Types!RegisterType, TypesInv

LEMMA UnregisterTypeKeeps ==
    ASSUME TypesInv, NEW t \in Type, Types!UnregisterType(t)
    PROVE  TypesInv'
<1> USE TypesAssumption
<1>1. PICK p \in DOMAIN registrations : registrations[p] = t
  BY RangeOfTypes DEF Types!UnregisterType
<1>2. registrations' = Types!Without(registrations, registrations[p])
  BY <1>1 DEF Types!UnregisterType
<1>3. registrations' \in Seq(Type) /\ Leaves(registrations, t, registrations')
  <2>1. registrations \in Seq(Type) /\ Distinct(registrations)
    BY DEF TypesInv
  <2>2. registrations' \in Seq(Type) /\ Drops(registrations, p, registrations')
    BY <1>2, <2>1, RemovedFrom
  <2> QED
    BY <1>1, <2>1, <2>2, LeftIn
<1>4. Distinct(registrations') /\ {registrations'[k] : k \in DOMAIN registrations'} =
         {registrations[k] : k \in DOMAIN registrations} \ {t}
  BY <1>3 DEF Leaves
<1>5. manifestIndex' = [n \in Types!Name |->
           IF manifestIndex[n] = t THEN Nobody ELSE manifestIndex[n]]
  BY DEF Types!UnregisterType
<1>6. manifestIndex' \in [Types!Name -> Type \cup {Nobody}]
  BY <1>5 DEF TypesInv
<1>7. ASSUME NEW n \in Types!Name, manifestIndex'[n] # Nobody
      PROVE  /\ n \in NamesOf[manifestIndex'[n]]
             /\ \E k \in DOMAIN registrations' : registrations'[k] = manifestIndex'[n]
  <2>1. manifestIndex'[n] = manifestIndex[n] /\ manifestIndex[n] # t /\ manifestIndex[n] # Nobody
    BY <1>5, <1>7
  <2>2. manifestIndex[n] \in {registrations[k] : k \in DOMAIN registrations} /\ n \in NamesOf[manifestIndex[n]]
    BY <2>1 DEF TypesInv
  <2> QED
    BY <1>4, <2>1, <2>2
<1> QED
  BY <1>3, <1>4, <1>6, <1>7 DEF Types!UnregisterType, TypesInv

LEMMA RegisterInstallerKeeps ==
    ASSUME TypesInv, NEW i \in TypeInstaller, Types!RegisterInstaller(i)
    PROVE  TypesInv'
<1> DEFINE n == Len(installers) + 1
<1>1. installers' = Append(installers, i) /\ i \notin {installers[k] : k \in DOMAIN installers}
  BY RangeOfTypes DEF Types!RegisterInstaller
<1>2. installers \in Seq(TypeInstaller) /\ Distinct(installers)
  BY DEF TypesInv
<1>3. installers' \in Seq(TypeInstaller) /\ Distinct(installers')
  BY <1>1, <1>2, AppendedTo, AppendDistinct
<1>4. /\ DOMAIN installers = 1 .. Len(installers) /\ Len(installers) \in Nat
      /\ DOMAIN installers' = 1 .. n /\ installers'[n] = i
      /\ \A k \in DOMAIN installers : installers'[k] = installers[k]
      /\ {installers'[k] : k \in DOMAIN installers'} = {installers[k] : k \in DOMAIN installers} \cup {i}
  BY <1>1, <1>2, AppendedTo
<1>5. ASSUME NEW t \in Type
      PROVE  /\ typeMap'[t] \in Seq(TypeInstaller) /\ Distinct(typeMap'[t])
             /\ PartOf(typeMap'[t], installers', t)
  <2>1. /\ typeMap[t] \in Seq(TypeInstaller) /\ Distinct(typeMap[t])
        /\ PartOf(typeMap[t], installers, t)
    BY DEF TypesInv
  <2>2. i \notin {typeMap[t][k] : k \in DOMAIN typeMap[t]}
    BY <1>1, <2>1 DEF PartOf
  <2>3. CASE t \notin TypesOf[i]
    <3>1. typeMap'[t] = typeMap[t]
      BY <2>3 DEF Types!RegisterInstaller
    <3>2. {j \in {installers'[k] : k \in DOMAIN installers'} : t \in TypesOf[j]} =
          {j \in {installers[k] : k \in DOMAIN installers} : t \in TypesOf[j]}
      BY <1>4, <2>3
    <3>3. ASSUME NEW k \in DOMAIN typeMap[t], NEW l \in DOMAIN typeMap[t],
                 NEW a \in DOMAIN installers', NEW b \in DOMAIN installers',
                 typeMap[t][k] = installers'[a], typeMap[t][l] = installers'[b], k < l
          PROVE  a < b
      <4>1. a # n /\ b # n
        BY <1>4, <2>2, <3>3
      <4>2. a \in DOMAIN installers /\ b \in DOMAIN installers
        BY <1>4, <4>1
      <4> QED
        BY <1>4, <2>1, <3>3, <4>2 DEF PartOf
    <3> QED
      BY <2>1, <3>1, <3>2, <3>3 DEF PartOf
  <2>4. CASE t \in TypesOf[i]
    <3> DEFINE m == Len(typeMap[t]) + 1
    <3>1. typeMap'[t] = Append(typeMap[t], i)
      BY <2>2, <2>4, RangeOfTypes DEF Types!RegisterInstaller
    <3>2. typeMap'[t] \in Seq(TypeInstaller) /\ Distinct(typeMap'[t])
      BY <2>1, <2>2, <3>1, AppendedTo, AppendDistinct
    <3>3. /\ DOMAIN typeMap[t] = 1 .. Len(typeMap[t]) /\ Len(typeMap[t]) \in Nat
          /\ DOMAIN typeMap'[t] = 1 .. m /\ typeMap'[t][m] = i
          /\ \A k \in DOMAIN typeMap[t] : typeMap'[t][k] = typeMap[t][k]
          /\ {typeMap'[t][k] : k \in DOMAIN typeMap'[t]} = {typeMap[t][k] : k \in DOMAIN typeMap[t]} \cup {i}
      BY <2>1, <3>1, AppendedTo
    <3>4. {typeMap'[t][k] : k \in DOMAIN typeMap'[t]} =
          {j \in {installers'[k] : k \in DOMAIN installers'} : t \in TypesOf[j]}
      BY <1>4, <2>1, <2>4, <3>3 DEF PartOf
    <3>5. ASSUME NEW k \in DOMAIN typeMap'[t], NEW l \in DOMAIN typeMap'[t],
                 NEW a \in DOMAIN installers', NEW b \in DOMAIN installers',
                 typeMap'[t][k] = installers'[a], typeMap'[t][l] = installers'[b], k < l
          PROVE  a < b
      <4>1. k \in DOMAIN typeMap[t] /\ typeMap'[t][k] = typeMap[t][k]
        BY <3>3, <3>5
      <4>2. a \in DOMAIN installers
        <5>1. installers'[a] # i
          BY <2>2, <3>5, <4>1
        <5> QED
          BY <1>4, <5>1
      <4>3. CASE l = m
        <5>1. b = n
          BY <1>1, <1>4, <3>3, <3>5, <4>3
        <5> QED
          BY <1>4, <4>2, <5>1
      <4>4. CASE l # m
        <5>1. l \in DOMAIN typeMap[t] /\ typeMap'[t][l] = typeMap[t][l]
          BY <3>3, <4>4
        <5>2. b \in DOMAIN installers
          <6>1. installers'[b] # i
            BY <2>2, <3>5, <5>1
          <6> QED
            BY <1>4, <6>1
        <5> QED
          BY <1>4, <2>1, <3>5, <4>1, <4>2, <5>1, <5>2 DEF PartOf
      <4> QED
        BY <4>3, <4>4
    <3> QED
      BY <3>2, <3>4, <3>5 DEF PartOf
  <2> QED
    BY <2>3, <2>4
<1>6. typeMap' \in [Type -> Seq(TypeInstaller)]
  <2>1. typeMap' = [t \in Type |-> typeMap'[t]]
    BY DEF Types!RegisterInstaller
  <2> QED
    BY <1>5, <2>1
<1> QED
  BY <1>3, <1>5, <1>6 DEF Types!RegisterInstaller, TypesInv

LEMMA UnregisterInstallerKeeps ==
    ASSUME TypesInv, NEW i \in TypeInstaller, Types!UnregisterInstaller(i)
    PROVE  TypesInv'
<1>1. PICK p \in DOMAIN installers : installers[p] = i
  BY RangeOfTypes DEF Types!UnregisterInstaller
<1>2. installers' = Types!Without(installers, installers[p])
  BY <1>1 DEF Types!UnregisterInstaller
<1>3. installers \in Seq(TypeInstaller) /\ Distinct(installers)
  BY DEF TypesInv
<1>4. installers' \in Seq(TypeInstaller) /\ Drops(installers, p, installers')
  BY <1>2, <1>3, RemovedFrom
<1>5. /\ Distinct(installers')
      /\ {installers'[k] : k \in DOMAIN installers'} = {installers[k] : k \in DOMAIN installers} \ {i}
      /\ \A k, l \in DOMAIN installers', a, b \in DOMAIN installers :
            installers'[k] = installers[a] /\ installers'[l] = installers[b] => (k < l <=> a < b)
  <2>1. Leaves(installers, i, installers')
    BY <1>1, <1>3, <1>4, LeftIn
  <2> QED
    BY <2>1 DEF Leaves
<1>6. ASSUME NEW t \in Type
      PROVE  /\ typeMap'[t] \in Seq(TypeInstaller) /\ Distinct(typeMap'[t])
             /\ PartOf(typeMap'[t], installers', t)
  <2> DEFINE old == typeMap[t]
             new == typeMap'[t]
  <2>1. old \in Seq(TypeInstaller) /\ Distinct(old) /\ PartOf(old, installers, t)
    BY DEF TypesInv
  <2>2. /\ new \in Seq(TypeInstaller) /\ Distinct(new)
        /\ {new[k] : k \in DOMAIN new} = {old[k] : k \in DOMAIN old} \ {i}
        /\ \A k, l \in DOMAIN new, a, b \in DOMAIN old :
              new[k] = old[a] /\ new[l] = old[b] => (k < l <=> a < b)
    <3>1. CASE t \in TypesOf[i]
      <4>1. PICK q \in DOMAIN old : old[q] = i
        BY <1>1, <2>1, <3>1 DEF PartOf
      <4>2. new = Types!Without(old, old[q])
        BY <3>1, <4>1, RangeOfTypes DEF Types!UnregisterInstaller
      <4> HIDE DEF old, new
      <4>3. new \in Seq(TypeInstaller) /\ Drops(old, q, new)
        BY <2>1, <4>1, <4>2, RemovedFrom
      <4>4. Leaves(old, i, new)
        BY <2>1, <4>1, <4>3, LeftIn
      <4> QED
        BY <4>3, <4>4 DEF Leaves
    <3>2. CASE t \notin TypesOf[i]
      <4>1. new = old
        BY <3>2 DEF Types!UnregisterInstaller
      <4>2. i \notin {old[k] : k \in DOMAIN old}
        BY <2>1, <3>2 DEF PartOf
      <4> HIDE DEF old, new
      <4> QED
        BY <2>1, <4>1, <4>2 DEF Distinct
    <3> QED
      BY <3>1, <3>2
  <2> HIDE DEF old, new
  <2>3. {new[k] : k \in DOMAIN new} = {j \in {installers'[k] : k \in DOMAIN installers'} : t \in TypesOf[j]}
    BY <1>5, <2>1, <2>2 DEF PartOf
  <2>4. ASSUME NEW k \in DOMAIN new, NEW l \in DOMAIN new,
               NEW a \in DOMAIN installers', NEW b \in DOMAIN installers',
               new[k] = installers'[a], new[l] = installers'[b], k < l
        PROVE  a < b
    <3>1. PICK kk \in DOMAIN old, ll \in DOMAIN old : new[k] = old[kk] /\ new[l] = old[ll]
      <4>1. new[k] \in {old[j] : j \in DOMAIN old} /\ new[l] \in {old[j] : j \in DOMAIN old}
        BY <2>2
      <4> QED
        BY <4>1
    <3>2. PICK aa \in DOMAIN installers, bb \in DOMAIN installers :
             installers'[a] = installers[aa] /\ installers'[b] = installers[bb]
      BY <1>5
    <3>3. kk < ll
      BY <2>2, <2>4, <3>1
    <3>4. aa < bb
      BY <2>1, <2>4, <3>1, <3>2, <3>3 DEF PartOf
    <3> QED
      BY <1>5, <3>2, <3>4
  <2>5. PartOf(new, installers', t)
    BY <2>3, <2>4 DEF PartOf
  <2> QED
    BY <2>2, <2>5 DEF new
<1>7. typeMap' \in [Type -> Seq(TypeInstaller)]
  <2>1. typeMap' = [t \in Type |-> typeMap'[t]]
    BY DEF Types!UnregisterInstaller
  <2> QED
    BY <1>6, <2>1
<1> QED
  BY <1>4, <1>5, <1>6, <1>7 DEF Types!UnregisterInstaller, TypesInv

\* A finite set has an element that none is above in a strict order.
LEMMA Topmost ==
    ASSUME NEW S, IsFiniteSet(S), S # {}, NEW R,
           \A x \in S : <<x, x>> \notin R,
           \A x, y, z \in S : <<x, y>> \in R /\ <<y, z>> \in R => <<x, z>> \in R
    PROVE  \E x \in S : \A y \in S : <<y, x>> \notin R
<1> DEFINE above(x) == {y \in S : <<y, x>> \in R}
<1>1. \A x \in S : IsFiniteSet(above(x)) /\ Cardinality(above(x)) \in Nat
  <2> SUFFICES ASSUME NEW x \in S PROVE IsFiniteSet(above(x)) /\ Cardinality(above(x)) \in Nat
    OBVIOUS
  <2>1. above(x) \subseteq S
    OBVIOUS
  <2> HIDE DEF above
  <2> QED
    BY <2>1, FS_Subset, FS_CardinalityType
<1>0. \A x, y \in S : y \in above(x) <=> <<y, x>> \in R
  OBVIOUS
<1> HIDE DEF above
<1> DEFINE counts == {Cardinality(above(x)) : x \in S}
<1>2. PICK n \in counts : \A m \in counts : n <= m
  <2>1. counts \in SUBSET Nat /\ counts # {}
    BY <1>1
  <2> HIDE DEF counts
  <2> QED
    BY <2>1, LeastNumber
<1>3. PICK x \in S : n = Cardinality(above(x))
  BY <1>2
<1>4. ASSUME NEW y \in S, <<y, x>> \in R PROVE FALSE
  <2>1. above(y) \subseteq above(x) /\ y \in above(x) /\ y \notin above(y)
    BY <1>0, <1>3, <1>4 DEF above
  <2>2. n <= Cardinality(above(y))
    BY <1>2
  <2>3. Cardinality(above(y)) < Cardinality(above(x))
    BY <1>1, <2>1, FS_Subset, FS_CardinalityType
  <2> QED
    BY <1>1, <1>3, <2>2, <2>3
<1> QED
  BY <1>4

LEMMA LookupsFollow == TypesInv => Types!LookupsAreCurrent
<1> SUFFICES ASSUME TypesInv PROVE Types!LookupsAreCurrent
  OBVIOUS
<1> USE TypesAssumption
<1>1. ASSUME NEW n \in Types!Name
      PROVE  LET owners == {t \in Types!Range(registrations) : n \in NamesOf[t]}
             IN  IF owners = {} THEN Types!ByManifestName(n) = Nobody
                 ELSE Types!ByManifestName(n) \in owners
  <2> DEFINE owners == {t \in Types!Range(registrations) : n \in NamesOf[t]}
             owning == {k \in DOMAIN registrations : n \in NamesOf[registrations[k]]}
  <2>1. registrations \in Seq(Type)
    BY DEF TypesInv
  <2>2. CASE manifestIndex[n] # Nobody
    <3>1. manifestIndex[n] \in owners
      BY <2>2, RangeOfTypes DEF TypesInv
    <3> QED
      BY <2>2, <3>1 DEF Types!ByManifestName
  <2>3. CASE manifestIndex[n] = Nobody /\ owning = {}
    <3>1. owners = {}
      BY <2>3, RangeOfTypes
    <3> QED
      BY <2>3, <3>1 DEF Types!ByManifestName
  <2>4. CASE manifestIndex[n] = Nobody /\ owning # {}
    <3>1. owning \in SUBSET Nat
      BY <2>1
    <3> HIDE DEF owning
    <3>2. \E k \in owning : \A l \in owning : k <= l
      BY <2>4, <3>1, LeastNumber
    <3>3. Types!Min(owning) \in owning
      BY <3>2 DEF Types!Min
    <3>4. Types!ByManifestName(n) = registrations[Types!Min(owning)]
      BY <2>4 DEF Types!ByManifestName, owning
    <3>5. registrations[Types!Min(owning)] \in owners
      BY <3>3, RangeOfTypes DEF owning
    <3> QED
      BY <3>4, <3>5
  <2> QED
    BY <2>2, <2>3, <2>4
<1>2. ASSUME NEW t \in Type
      PROVE  LET able == {k \in DOMAIN installers : t \in TypesOf[installers[k]]}
                 best == {k \in able : \A l \in able :
                             PriorityOf[installers[l]] <= PriorityOf[installers[k]]}
             IN  Types!ByResourceType(t) = IF able = {} THEN Nobody ELSE installers[Types!Min(best)]
  <2> DEFINE able == {k \in DOMAIN installers : t \in TypesOf[installers[k]]}
             best == {k \in able : \A l \in able :
                         PriorityOf[installers[l]] <= PriorityOf[installers[k]]}
             list == typeMap[t]
             there == {k \in DOMAIN list : list[k] \in Types!Range(installers)}
             beats(k, l) == \/ PriorityOf[list[k]] > PriorityOf[list[l]]
                            \/ PriorityOf[list[k]] = PriorityOf[list[l]] /\ k <= l
  <2>1. installers \in Seq(TypeInstaller) /\ list \in Seq(TypeInstaller) /\ PartOf(list, installers, t)
    BY DEF TypesInv
  <2>2. \A k \in DOMAIN list : \E a \in able : list[k] = installers[a]
    <3> SUFFICES ASSUME NEW k \in DOMAIN list PROVE \E a \in able : list[k] = installers[a]
      OBVIOUS
    <3> HIDE DEF list
    <3>1. list[k] \in {list[j] : j \in DOMAIN list}
      OBVIOUS
    <3>2. list[k] \in {i \in {installers[a] : a \in DOMAIN installers} : t \in TypesOf[i]}
      BY <2>1, <3>1 DEF PartOf
    <3> QED
      BY <3>2
  <2>3. \A a \in able : \E k \in DOMAIN list : list[k] = installers[a]
    BY <2>1 DEF PartOf
  <2>4. there = DOMAIN list
    BY <2>2, RangeOfTypes
  <2>5. Types!ByResourceType(t) = IF there = {} THEN Nobody
                                  ELSE list[CHOOSE k \in there : \A l \in there : beats(k, l)]
    BY DEF Types!ByResourceType
  <2>6. \A a \in able : installers[a] \in TypeInstaller /\ PriorityOf[installers[a]] \in Int /\ a \in Nat
    BY <2>1
  <2>7. \A k \in DOMAIN list : list[k] \in TypeInstaller /\ PriorityOf[list[k]] \in Int /\ k \in Nat
    BY <2>1
  <2>8. CASE able = {}
    BY <2>2, <2>4, <2>5, <2>8
  <2>9. CASE able # {}
    <3>1. best # {}
      <4> DEFINE R == {p \in able \X able : PriorityOf[installers[p[1]]] > PriorityOf[installers[p[2]]]}
      <4>1. IsFiniteSet(able)
        <5>1. able \subseteq 1 .. Len(installers) /\ 1 \in Int /\ Len(installers) \in Int
          BY <2>1
        <5>2. IsFiniteSet(1 .. Len(installers))
          BY <5>1, FS_Interval
        <5> HIDE DEF able
        <5> QED
          BY <5>1, <5>2, FS_Subset
      <4>2. /\ \A x \in able : <<x, x>> \notin R
            /\ \A x, y, z \in able : <<x, y>> \in R /\ <<y, z>> \in R => <<x, z>> \in R
        <5> HIDE DEF able
        <5> QED
          BY <2>6
      <4>3. PICK x \in able : \A y \in able : <<y, x>> \notin R
        <5> HIDE DEF able, R
        <5> QED
          BY <2>9, <4>1, <4>2, Topmost
      <4>4. \A y \in able : ~(PriorityOf[installers[y]] > PriorityOf[installers[x]])
        BY <4>3
      <4>5. x \in best
        BY <2>6, <4>4
      <4> QED
        BY <4>5
    <3> HIDE DEF beats
    <3> DEFINE m == Types!Min(best)
    <3>2. m \in best /\ \A a \in best : m <= a
      <4>1. best \in SUBSET Nat
        BY <2>6
      <4> HIDE DEF best
      <4>2. \E k \in best : \A l \in best : k <= l
        BY <3>1, <4>1, LeastNumber
      <4> QED
        BY <4>2 DEF Types!Min
    <3> HIDE DEF m
    <3>3. PICK k \in DOMAIN list : list[k] = installers[m]
      BY <2>3, <3>2
    <3>4. ASSUME NEW l \in DOMAIN list PROVE beats(k, l)
      <4>1. PICK b \in able : list[l] = installers[b]
        BY <2>2
      <4>2. PriorityOf[list[l]] <= PriorityOf[list[k]]
        BY <3>2, <3>3, <4>1
      <4>3. CASE PriorityOf[list[l]] = PriorityOf[list[k]]
        <5>1. b \in best
          BY <3>2, <3>3, <4>1, <4>3
        <5>2. m <= b /\ m \in able
          BY <3>2, <5>1
        <5>3. ~(l < k)
          BY <2>1, <2>6, <3>3, <4>1, <5>2 DEF PartOf
        <5> QED
          BY <2>7, <4>3, <5>3 DEF beats
      <4> QED
        BY <2>7, <4>2, <4>3 DEF beats
    <3>5. ASSUME NEW l \in DOMAIN list, beats(l, k) PROVE l = k
      <4>1. beats(k, l)
        BY <3>4
      <4> QED
        BY <2>7, <3>5, <4>1 DEF beats
    <3> HIDE DEF list
    <3>6. (CHOOSE j \in there : \A l \in there : beats(j, l)) = k
      BY <2>4, <3>4, <3>5
    <3>7. there # {}
      BY <2>4
    <3> QED
      BY <2>5, <2>9, <3>3, <3>6, <3>7 DEF m
  <2> QED
    BY <2>8, <2>9
<1> QED
  BY <1>1, <1>2 DEF Types!LookupsAreCurrent

-----------------------------------------------------------------------------
(* The index of resources.                                                 *)

IndexInv ==
    /\ registry \in Listings \cup {{}}
    /\ index = NoIndex \/ index = Indexing!Build(registry)

\* The map of ids has each resource of a listing by its id.
LEMMA ById ==
    ASSUME NEW rs, \A r, s \in rs : r.id = s.id => r = s
    PROVE  /\ DOMAIN Indexing!Build(rs).byId = {r.id : r \in rs}
           /\ \A r \in rs : Indexing!Build(rs).byId[r.id] = r
<1> DEFINE ids == [r \in rs |-> {r.id}]
<1>1. Indexing!Build(rs).byId = Indexing!Singles(ids)
  BY DEF Indexing!Build
<1>2. Indexing!Keys(ids) = {r.id : r \in rs}
  BY DEF Indexing!Keys
<1>3. ASSUME NEW r \in rs PROVE Indexing!Groups(ids)[r.id] = {r}
  BY <1>2 DEF Indexing!Groups
<1>4. \A r \in rs : Indexing!LastOf({r}) = r
  BY DEF Indexing!LastOf
<1> HIDE DEF ids
<1>5. DOMAIN Indexing!Singles(ids) = {r.id : r \in rs}
  BY <1>2 DEF Indexing!Singles
<1>6. \A r \in rs : Indexing!Singles(ids)[r.id] = r
  BY <1>2, <1>3, <1>4 DEF Indexing!Singles
<1> QED
  BY <1>1, <1>5, <1>6

LEMMA RefreshKeeps ==
    ASSUME IndexInv, NEW listing \in Listings, Indexing!Refresh(listing)
    PROVE  IndexInv'
<1> DEFINE ids == DOMAIN index.byId
           added == {r \in listing : r.id \notin ids}
           removed == ids \ {r.id : r \in listing}
           updated == {r \in listing : r.id \in ids /\ index.byId[r.id].version # r.version}
           new == added \cup updated
           current == {index.byId[i] : i \in ids \ removed}
           kept == {r \in current : \A n \in new : n.id # r.id}
<1>1. index = Indexing!Build(registry)
  BY DEF Indexing!Refresh, IndexInv
<1>2. \A r, s \in registry : r.id = s.id => r = s
  BY IndexAssumption DEF IndexInv
<1>3. ids = {r.id : r \in registry} /\ \A r \in registry : index.byId[r.id] = r
  BY <1>1, <1>2, ById
<1>4. \A r, s \in listing : r.id = s.id => r = s
  BY IndexAssumption
<1>5. \A r \in listing, s \in registry : r.id = s.id /\ r.version = s.version => r = s
  BY IndexAssumption DEF IndexInv
<1>6. ASSUME NEW r \in listing PROVE r \in kept \cup new
  <2>1. CASE r.id \notin ids
    BY <2>1
  <2>2. CASE r.id \in ids /\ index.byId[r.id].version # r.version
    BY <2>2
  <2>3. CASE r.id \in ids /\ index.byId[r.id].version = r.version
    <3>1. PICK s \in registry : s.id = r.id
      BY <1>3, <2>3
    <3>2. s = r
      BY <1>3, <1>5, <2>3, <3>1
    <3>3. r.id \in ids \ removed /\ index.byId[r.id] = r
      BY <1>3, <3>1, <3>2
    <3>4. r \in current
      BY <3>3
    <3>5. \A n \in new : n.id # r.id
      BY <1>4, <2>3
    <3> QED
      BY <3>4, <3>5
  <2> QED
    BY <2>1, <2>2, <2>3
<1>7. ASSUME NEW r \in kept PROVE r \in listing
  <2>1. PICK i \in ids \ removed : r = index.byId[i]
    OBVIOUS
  <2>2. PICK s \in registry : s.id = i
    BY <1>3, <2>1
  <2>3. r = s
    BY <1>3, <2>1, <2>2
  <2>4. PICK l \in listing : l.id = i
    BY <2>1
  <2>5. l \notin new
    BY <1>7, <2>2, <2>3, <2>4
  <2>6. index.byId[l.id].version = l.version
    BY <2>1, <2>4, <2>5
  <2>7. l = s
    BY <1>5, <2>1, <2>2, <2>3, <2>4, <2>6
  <2> QED
    BY <2>3, <2>4, <2>7
<1>8. kept \cup new = listing
  BY <1>6, <1>7
<1>9. Indexing!UpdateIncremental(index, added, removed, updated) = Indexing!Build(kept \cup new)
  BY DEF Indexing!UpdateIncremental
<1> HIDE DEF kept, new
<1>10. Indexing!UpdateIncremental(index, added, removed, updated) = Indexing!Build(listing)
  BY <1>8, <1>9
<1>11. registry' = listing /\ index' = Indexing!Build(listing)
  BY <1>10 DEF Indexing!Refresh
<1> QED
  BY <1>11 DEF IndexInv

LEMMA IndexKeeps ==
    ASSUME IndexInv, [Indexing!IndexNext]_indexVars
    PROVE  IndexInv'
<1>1. CASE Indexing!IndexNext
  <2>1. ASSUME NEW listing \in Listings, Indexing!BuildIndex(listing) PROVE IndexInv'
    BY <2>1 DEF Indexing!BuildIndex, IndexInv
  <2>2. CASE Indexing!DropIndex
    BY <2>2 DEF Indexing!DropIndex, IndexInv
  <2> QED
    BY <1>1, <2>1, <2>2, RefreshKeeps DEF Indexing!IndexNext
<1>2. CASE UNCHANGED indexVars
  BY <1>2 DEF indexVars, IndexInv
<1> QED
  BY <1>1, <1>2

-----------------------------------------------------------------------------
(* Versions, and the resources of a registry.                              *)

LEMMA VersionsInOrder ==
    ASSUME NEW u \in Resolver!Version, NEW v \in Resolver!Version, NEW w \in Resolver!Version
    PROVE  /\ ~Resolver!Before(u, u)
           /\ Resolver!Before(u, v) /\ Resolver!Before(v, w) => Resolver!Before(u, w)
           /\ Resolver!Before(u, v) /\ ~Resolver!Before(w, v) => Resolver!Before(u, w)
           /\ ~Resolver!Before(v, u) /\ Resolver!Before(v, w) => Resolver!Before(u, w)
           /\ ~Resolver!Before(v, u) /\ ~Resolver!Before(w, v) => ~Resolver!Before(w, u)
  BY DEF Resolver!Before, Resolver!Version

\* The resource at i has the greatest version at those positions, and is the first.
Latest(reg, at, i) ==
    \A j \in at : \/ Resolver!Before(reg[j].version, reg[i].version)
                  \/ ~Resolver!Before(reg[i].version, reg[j].version) /\ i <= j

LEMMA LatestIsThere ==
    ASSUME NEW reg \in Seq(Resolver!Resource), NEW at \in SUBSET DOMAIN reg, at # {}
    PROVE  \E i \in at : Resolver!LatestOf(reg, at) = reg[i] /\ Latest(reg, at, i)
<1> DEFINE v(i) == reg[i].version
           R == {p \in at \X at :
                   \/ Resolver!Before(v(p[2]), v(p[1]))
                   \/ ~Resolver!Before(v(p[1]), v(p[2])) /\ p[1] < p[2]}
<1>1. \A i \in at : i \in Nat /\ v(i) \in Resolver!Version
  <2>1. \A i \in at : i \in Nat /\ reg[i] \in Resolver!Resource
    OBVIOUS
  <2>2. \A r \in Resolver!Resource : r.version \in Resolver!Version
    BY DEF Resolver!Resource
  <2> QED
    BY <2>1, <2>2
<1>2. IsFiniteSet(at)
  <2>1. at \subseteq 1 .. Len(reg) /\ 1 \in Int /\ Len(reg) \in Int
    OBVIOUS
  <2> QED
    BY <2>1, FS_Interval, FS_Subset
<1> HIDE DEF v
<1>3. \A i, j \in at : <<i, j>> \in R <=>
         Resolver!Before(v(j), v(i)) \/ (~Resolver!Before(v(i), v(j)) /\ i < j)
  OBVIOUS
<1> HIDE DEF R
<1>4. \A i \in at : <<i, i>> \notin R
  BY <1>1, <1>3, VersionsInOrder
<1>5. ASSUME NEW i \in at, NEW j \in at, NEW k \in at, <<i, j>> \in R, <<j, k>> \in R
      PROVE  <<i, k>> \in R
  <2>1. i \in Nat /\ j \in Nat /\ k \in Nat
    BY <1>1
  <2>2. v(i) \in Resolver!Version /\ v(j) \in Resolver!Version /\ v(k) \in Resolver!Version
    BY <1>1
  <2>3. CASE Resolver!Before(v(j), v(i)) /\ Resolver!Before(v(k), v(j))
    BY <1>3, <2>2, <2>3, VersionsInOrder
  <2>4. CASE Resolver!Before(v(j), v(i)) /\ ~Resolver!Before(v(j), v(k))
    BY <1>3, <2>2, <2>4, VersionsInOrder
  <2>5. CASE ~Resolver!Before(v(i), v(j)) /\ Resolver!Before(v(k), v(j))
    BY <1>3, <2>2, <2>5, VersionsInOrder
  <2>6. CASE ~Resolver!Before(v(i), v(j)) /\ i < j /\ ~Resolver!Before(v(j), v(k)) /\ j < k
    <3>1. ~Resolver!Before(v(i), v(k))
      BY <2>2, <2>6, VersionsInOrder
    <3> QED
      BY <1>3, <2>1, <2>6, <3>1
  <2> QED
    BY <1>3, <1>5, <2>3, <2>4, <2>5, <2>6
<1>6. PICK i \in at : \A j \in at : <<j, i>> \notin R
  BY <1>2, <1>4, <1>5, Topmost
<1>7. ASSUME NEW j \in at
      PROVE  \/ Resolver!Before(v(j), v(i))
             \/ ~Resolver!Before(v(i), v(j)) /\ i <= j
  <2>1. ~Resolver!Before(v(i), v(j)) /\ ~(~Resolver!Before(v(j), v(i)) /\ j < i)
    BY <1>3, <1>6
  <2>2. i \in Nat /\ j \in Nat
    BY <1>1
  <2> QED
    BY <2>1, <2>2
<1> QED
  BY <1>7 DEF Resolver!LatestOf, Latest, v

\* There is one of these.
LEMMA LatestIsOne ==
    ASSUME NEW reg \in Seq(Resolver!Resource), NEW at \in SUBSET DOMAIN reg,
           NEW i \in at, NEW k \in at, Latest(reg, at, i), Latest(reg, at, k)
    PROVE  i = k
<1>1. reg[i] \in Resolver!Resource /\ reg[k] \in Resolver!Resource /\ i \in Nat /\ k \in Nat
  OBVIOUS
<1>2. reg[i].version \in Resolver!Version /\ reg[k].version \in Resolver!Version
  BY <1>1 DEF Resolver!Resource
<1>3. \/ Resolver!Before(reg[k].version, reg[i].version)
      \/ ~Resolver!Before(reg[i].version, reg[k].version) /\ i <= k
  BY DEF Latest
<1>4. \/ Resolver!Before(reg[i].version, reg[k].version)
      \/ ~Resolver!Before(reg[k].version, reg[i].version) /\ k <= i
  BY DEF Latest
<1>5. ~(Resolver!Before(reg[k].version, reg[i].version) /\ Resolver!Before(reg[i].version, reg[k].version))
  BY <1>2, VersionsInOrder
<1> QED
  BY <1>1, <1>3, <1>4, <1>5

LEMMA BestIsThere ==
    ASSUME NEW reg \in Seq(Resolver!Resource), NEW d \in Resolver!Dependency,
           Resolver!Resolvable(reg, d)
    PROVE  Resolver!BestFor(reg, d) \in Resolver!Resource
<1>1. Resolver!Matching(reg, Resolver!Candidates(reg, d.id), d.range) \in SUBSET DOMAIN reg
  BY DEF Resolver!Matching, Resolver!Candidates
<1> QED
  BY <1>1, LatestIsThere DEF Resolver!Resolvable, Resolver!BestFor

LEMMA ChosenIsThere ==
    ASSUME NEW reg \in Seq(Resolver!Resource), NEW id, Resolver!Listed(reg, id) # {}
    PROVE  Resolver!ChosenFor(reg, id) \in Resolver!Resource
<1>1. Resolver!Listed(reg, id) \in SUBSET DOMAIN reg
      /\ {i \in Resolver!Listed(reg, id) : reg[i].runs} \in SUBSET DOMAIN reg
  BY DEF Resolver!Listed
<1> QED
  BY <1>1, LatestIsThere DEF Resolver!ChosenFor

-----------------------------------------------------------------------------
(* What can be reached.                                                    *)

LEMMA ReachStays ==
    ASSUME NEW pairs, NEW m, NEW n, Resolver!Reach(pairs, m, n),
           NEW S, \A p \in pairs : p[1] \in S \cup {m} => p[2] \in S
    PROVE  n \in S
<1> DEFINE T == S \cap {p[2] : p \in pairs}
<1>1. \A p \in pairs : p[1] \in T \cup {m} => p[2] \in T
  OBVIOUS
<1> QED
  BY <1>1 DEF Resolver!Reach

LEMMA ReachStep ==
    ASSUME NEW pairs, NEW m, NEW n, <<m, n>> \in pairs
    PROVE  Resolver!Reach(pairs, m, n)
  BY DEF Resolver!Reach

LEMMA ReachOn ==
    ASSUME NEW pairs, NEW m, NEW n, NEW o, Resolver!Reach(pairs, m, n), Resolver!Reach(pairs, n, o)
    PROVE  Resolver!Reach(pairs, m, o)
<1> SUFFICES ASSUME NEW S \in SUBSET {p[2] : p \in pairs},
                    \A p \in pairs : p[1] \in S \cup {m} => p[2] \in S
             PROVE  o \in S
  BY DEF Resolver!Reach
<1>1. n \in S
  BY ReachStays
<1>2. \A p \in pairs : p[1] \in S \cup {n} => p[2] \in S
  BY <1>1
<1> QED
  BY <1>2, ReachStays

LEMMA ReachMore ==
    ASSUME NEW pairs, NEW more, pairs \subseteq more, NEW m, NEW n, Resolver!Reach(pairs, m, n)
    PROVE  Resolver!Reach(more, m, n)
<1> SUFFICES ASSUME NEW S \in SUBSET {p[2] : p \in more},
                    \A p \in more : p[1] \in S \cup {m} => p[2] \in S
             PROVE  n \in S
  BY DEF Resolver!Reach
<1>1. \A p \in pairs : p[1] \in S \cup {m} => p[2] \in S
  OBVIOUS
<1> QED
  BY <1>1, ReachStays

\* n is m, or can be reached from it.
Leads(pairs, m, n) == m = n \/ Resolver!Reach(pairs, m, n)

LEMMA LeadsOn ==
    ASSUME NEW pairs, NEW m, NEW n, NEW o, <<m, n>> \in pairs, Leads(pairs, n, o)
    PROVE  Resolver!Reach(pairs, m, o)
  BY ReachStep, ReachOn DEF Leads

LEMMA LeadsMore ==
    ASSUME NEW pairs, NEW more, pairs \subseteq more, NEW m, NEW n, Leads(pairs, m, n)
    PROVE  Leads(more, m, n)
  BY ReachMore DEF Leads

-----------------------------------------------------------------------------
(* The order in which plugins are initialized.                             *)

\* How many there are up to i, in an order L.
UpTo(L, S, i) == {j \in S : <<j, i>> \in L}

TotallyOrders(L, S) ==
    /\ \A i \in S : <<i, i>> \in L
    /\ \A i, j \in S : <<i, j>> \in L \/ <<j, i>> \in L
    /\ \A i, j \in S : <<i, j>> \in L /\ <<j, i>> \in L => i = j
    /\ \A i, j, k \in S : <<i, j>> \in L /\ <<j, k>> \in L => <<i, k>> \in L

Numbers(L, S) ==
    /\ \A n \in 1 .. Cardinality(S) : \E i \in S : Cardinality(UpTo(L, S, i)) = n
    /\ \A i \in S : Cardinality(UpTo(L, S, i)) \in 1 .. Cardinality(S)
    /\ \A i, k \in S : <<i, k>> \in L /\ i # k =>
          Cardinality(UpTo(L, S, i)) < Cardinality(UpTo(L, S, k))

\* In a total order of a finite set each rank is somebody's.
LEMMA Ranks ==
    ASSUME NEW S, IsFiniteSet(S), NEW L, TotallyOrders(L, S)
    PROVE  Cardinality(S) \in Nat /\ Numbers(L, S)
<1>a. /\ \A i \in S : <<i, i>> \in L
      /\ \A i, j \in S : <<i, j>> \in L \/ <<j, i>> \in L
      /\ \A i, j \in S : <<i, j>> \in L /\ <<j, i>> \in L => i = j
      /\ \A i, j, k \in S : <<i, j>> \in L /\ <<j, k>> \in L => <<i, k>> \in L
  BY DEF TotallyOrders
<1> DEFINE N == Cardinality(S)
           rank == [i \in S |-> Cardinality(UpTo(L, S, i))]
<1>1. N \in Nat
  BY FS_CardinalityType
<1>2. ASSUME NEW i \in S
      PROVE  /\ IsFiniteSet(UpTo(L, S, i)) /\ Cardinality(UpTo(L, S, i)) \in 1 .. N
             /\ Cardinality(UpTo(L, S, i)) \in Nat
  <2>1. UpTo(L, S, i) \in SUBSET S /\ i \in UpTo(L, S, i)
    BY <1>a DEF UpTo
  <2>2. IsFiniteSet(UpTo(L, S, i)) /\ Cardinality(UpTo(L, S, i)) <= N
    BY <2>1, FS_Subset
  <2>3. Cardinality(UpTo(L, S, i)) \in Nat /\ Cardinality(UpTo(L, S, i)) # 0
    BY <2>1, <2>2, FS_CardinalityType, FS_EmptySet
  <2> HIDE DEF N
  <2> QED
    BY <1>1, <2>2, <2>3
<1>3. ASSUME NEW i \in S, NEW k \in S, <<i, k>> \in L, i # k
      PROVE  Cardinality(UpTo(L, S, i)) < Cardinality(UpTo(L, S, k))
  <2>1. UpTo(L, S, i) \in SUBSET UpTo(L, S, k)
    BY <1>a, <1>3 DEF UpTo
  <2>2. UpTo(L, S, i) # UpTo(L, S, k)
    <3>1. k \in UpTo(L, S, k) /\ k \notin UpTo(L, S, i)
      BY <1>a, <1>3 DEF UpTo
    <3> QED
      BY <3>1
  <2>3. IsFiniteSet(UpTo(L, S, k))
    BY <1>2
  <2>4. /\ Cardinality(UpTo(L, S, i)) <= Cardinality(UpTo(L, S, k))
        /\ Cardinality(UpTo(L, S, i)) # Cardinality(UpTo(L, S, k))
    BY <2>1, <2>2, <2>3, FS_Subset
  <2>5. Cardinality(UpTo(L, S, i)) \in Nat /\ Cardinality(UpTo(L, S, k)) \in Nat
    BY <1>2
  <2> QED
    BY <2>4, <2>5
<1>4. rank \in Injection(S, 1 .. N)
  <2>1. rank \in [S -> 1 .. N]
    BY <1>2
  <2>2. ASSUME NEW i \in S, NEW k \in S, rank[i] = rank[k] PROVE i = k
    <3>1. CASE <<i, k>> \in L /\ i # k
      BY <1>2, <1>3, <2>2, <3>1
    <3>2. CASE <<k, i>> \in L /\ i # k
      BY <1>2, <1>3, <2>2, <3>2
    <3> QED
      BY <1>a, <3>1, <3>2
  <2> HIDE DEF rank, N
  <2> QED
    BY <2>1, <2>2 DEF Injection, IsInjective
<1>5. IsFiniteSet(1 .. N) /\ Cardinality(1 .. N) = N
  BY <1>1, FS_Interval
<1>6. rank \in Surjection(S, 1 .. N)
  <2> HIDE DEF rank
  <2> QED
    BY <1>1, <1>4, <1>5, FS_Injection
<1>7. \A n \in 1 .. N : \E i \in S : rank[i] = n
  <2> HIDE DEF rank, N
  <2> QED
    BY <1>6 DEF Surjection
<1>8. \A n \in 1 .. N : \E i \in S : Cardinality(UpTo(L, S, i)) = n
  BY <1>7
<1> QED
  BY <1>1, <1>2, <1>3, <1>8 DEF Numbers

LEMMA ByPriorityIsTyped ==
    ASSUME order \in Seq(Plugin), scenario \in Scenarios
    PROVE  ByPriority \in Seq(Plugin) /\ DOMAIN ByPriority = DOMAIN order
<1> DEFINE D == DOMAIN order
           first(j, i) == \/ scenario.priority[order[j]] > scenario.priority[order[i]]
                          \/ scenario.priority[order[j]] = scenario.priority[order[i]] /\ j <= i
           L == {p \in D \X D : first(p[1], p[2])}
<1>1. D = 1 .. Len(order) /\ Len(order) \in Nat
  OBVIOUS
<1>2. IsFiniteSet(D) /\ Cardinality(D) = Len(order)
  BY <1>1, FS_Interval
<1>3. \A i \in D : order[i] \in Plugin /\ scenario.priority[order[i]] \in Int /\ i \in Int
  BY <1>1, PluginAssumption
<1>4. \A i, j \in D : <<j, i>> \in L <=> first(j, i)
  OBVIOUS
<1>5. \A i \in D : UpTo(L, D, i) = {j \in D : first(j, i)}
  BY <1>4 DEF UpTo
<1> HIDE DEF L
<1>6. TotallyOrders(L, D)
  BY <1>3, <1>4 DEF TotallyOrders
<1> HIDE DEF D
<1>7. \A n \in 1 .. Len(order) : \E i \in D : Cardinality(UpTo(L, D, i)) = n
  BY <1>2, <1>6, Ranks DEF Numbers
<1>8. \A n \in D : \E i \in D : Cardinality({j \in D : first(j, i)}) = n
  BY <1>1, <1>5, <1>7
<1> DEFINE at(n) == CHOOSE i \in D : Cardinality({j \in D : first(j, i)}) = n
<1>9. \A n \in D : at(n) \in D
  <2> HIDE DEF first
  <2> QED
    BY <1>8
<1>10. ByPriority = [n \in D |-> order[at(n)]]
  BY DEF ByPriority, D
<1> HIDE DEF at, first
<1>11. \A n \in D : order[at(n)] \in Plugin
  BY <1>3, <1>9
<1>12. ByPriority \in [1 .. Len(order) -> Plugin] /\ DOMAIN ByPriority = D
  BY <1>1, <1>10, <1>11
<1> QED
  BY <1>1, <1>12 DEF D

\* Of the calls in a set one has none of the others below it.
LEMMA LeastAmong ==
    ASSUME NEW D, NEW a, NEW b, Measures(D, a, b), NEW S \in SUBSET D, S # {}
    PROVE  \E x \in S : \A y \in D : Below(a, b, y, x) => y \notin S
<1> DEFINE c == [x \in S |-> a[x]]
           d == [x \in S |-> b[x]]
<1>1. c \in [S -> Nat] /\ d \in [S -> Nat] /\ \A x \in S : c[x] = a[x] /\ d[x] = b[x]
  BY DEF Measures
<1> HIDE DEF c, d
<1>2. PICK x \in S : \A y \in S : ~Below(c, d, y, x)
  BY <1>1, LeastCall
<1> QED
  BY <1>1, <1>2 DEF Below

\* The calls that a call of visit makes.
Rest(c, found) == [path |-> c.path, todo |-> Tail(c.todo), found |-> found]
Inner(c) == [path |-> c.path \cup {Head(c.todo)}, todo |-> scenario.deps[Head(c.todo)],
             found |-> c.found]
WithLast(found, p) == [found EXCEPT !.sorted = Append(@, p)]

Room == [c \in Visiting |-> Cardinality(Range(order) \ c.path)]
Left == [c \in Visiting |-> Len(c.todo)]

LEMMA VisitEntryCases ==
    ASSUME NEW c, NEW f
    PROVE  VisitEntry(c, f) =
             IF c.todo = <<>> THEN c.found
             ELSE IF Head(c.todo) \in Range(c.found.sorted) \/ ~Registered(Head(c.todo))
             THEN f[Rest(c, c.found)]
             ELSE IF Head(c.todo) \in c.path THEN [c.found EXCEPT !.circular = TRUE]
             ELSE IF f[Inner(c)].circular THEN f[Inner(c)]
             ELSE f[Rest(c, WithLast(f[Inner(c)], Head(c.todo)))]
  BY DEF VisitEntry, Rest, Inner, WithLast

LEMMA VisitMeasures ==
    ASSUME order \in Seq(Plugin)
    PROVE  /\ Measures(Visiting, Room, Left)
           /\ IsFiniteSet(Range(order)) /\ Range(order) \subseteq Plugin
<1>1. order \in Surjection(DOMAIN order, Range(order))
  BY DEF Surjection, Range
<1>2. IsFiniteSet(DOMAIN order)
  <2>1. DOMAIN order = 1 .. Len(order) /\ 1 \in Int /\ Len(order) \in Int
    OBVIOUS
  <2> QED
    BY <2>1, FS_Interval
<1>3. IsFiniteSet(Range(order))
  BY <1>1, <1>2, FS_Surjection
<1>4. ASSUME NEW c \in Visiting
      PROVE  Cardinality(Range(order) \ c.path) \in Nat /\ Len(c.todo) \in Nat
  <2>1. Cardinality(Range(order) \ c.path) \in Nat
    BY <1>3, FS_Difference, FS_CardinalityType
  <2>2. c.todo \in Seq(Plugin)
    BY DEF Visiting
  <2> QED
    BY <2>1, <2>2
<1>5. Range(order) \subseteq Plugin
  BY DEF Range
<1> QED
  BY <1>3, <1>4, <1>5 DEF Room, Left, Measures

LEMMA RestIsBelow ==
    ASSUME order \in Seq(Plugin), NEW c \in Visiting, c.todo # <<>>, NEW found \in Sorting
    PROVE  /\ Rest(c, found) \in Visiting /\ Below(Room, Left, Rest(c, found), c)
           /\ Head(c.todo) \in Plugin /\ Range(c.todo) = {Head(c.todo)} \cup Range(Tail(c.todo))
<1>1. c.path \in SUBSET Plugin /\ c.todo \in Seq(Plugin)
  BY DEF Visiting
<1>2. /\ Head(c.todo) \in Plugin /\ Tail(c.todo) \in Seq(Plugin)
      /\ Len(Tail(c.todo)) = Len(c.todo) - 1 /\ Len(c.todo) \in Nat
      /\ \A i \in 1 .. Len(c.todo) - 1 : Tail(c.todo)[i] = c.todo[i + 1]
      /\ Head(c.todo) = c.todo[1] /\ Len(c.todo) >= 1
  BY <1>1
<1>3. Rest(c, found) \in Visiting
  BY <1>1, <1>2 DEF Visiting, Rest
<1>4. Room[Rest(c, found)] = Room[c] /\ Left[Rest(c, found)] = Len(c.todo) - 1 /\ Left[c] = Len(c.todo)
  BY <1>2, <1>3 DEF Room, Left, Rest
<1>5. Below(Room, Left, Rest(c, found), c)
  BY <1>2, <1>4 DEF Below
<1>6. Range(c.todo) = {Head(c.todo)} \cup Range(Tail(c.todo))
  <2>1. ASSUME NEW i \in DOMAIN c.todo
        PROVE  c.todo[i] \in {Head(c.todo)} \cup Range(Tail(c.todo))
    <3>1. CASE i = 1
      BY <1>2, <3>1
    <3>2. CASE i # 1
      <4>1. i - 1 \in 1 .. Len(c.todo) - 1 /\ Tail(c.todo)[i - 1] = c.todo[i]
        BY <1>1, <1>2, <3>2
      <4> QED
        BY <1>2, <4>1 DEF Range
    <3> QED
      BY <3>1, <3>2
  <2>2. ASSUME NEW i \in DOMAIN Tail(c.todo)
        PROVE  Tail(c.todo)[i] \in Range(c.todo)
    <3>1. i + 1 \in DOMAIN c.todo /\ Tail(c.todo)[i] = c.todo[i + 1]
      BY <1>1, <1>2
    <3> QED
      BY <3>1 DEF Range
  <2>3. Head(c.todo) \in Range(c.todo)
    BY <1>1, <1>2 DEF Range
  <2> QED
    BY <2>1, <2>2, <2>3 DEF Range
<1> QED
  BY <1>2, <1>3, <1>5, <1>6

LEMMA InnerIsBelow ==
    ASSUME order \in Seq(Plugin), scenario \in Scenarios, NEW c \in Visiting, c.todo # <<>>,
           Registered(Head(c.todo)), Head(c.todo) \notin c.path
    PROVE  Inner(c) \in Visiting /\ Below(Room, Left, Inner(c), c)
<1>1. c.path \in SUBSET Plugin /\ c.todo \in Seq(Plugin) /\ c.found \in Sorting
  BY DEF Visiting
<1> DEFINE p == Head(c.todo)
<1>2. p \in Plugin
  BY <1>1
<1>3. scenario.deps[p] \in Seq(Plugin)
  BY <1>2, PluginAssumption
<1>4. Inner(c) \in Visiting
  BY <1>1, <1>2, <1>3 DEF Visiting, Inner
<1>5. Room[Inner(c)] = Cardinality(Range(order) \ (c.path \cup {p}))
      /\ Room[c] = Cardinality(Range(order) \ c.path)
  BY <1>4 DEF Room, Inner
<1>6. p \in Range(order) \ c.path
      /\ Range(order) \ (c.path \cup {p}) = (Range(order) \ c.path) \ {p}
  BY DEF Registered
<1>7. IsFiniteSet(Range(order) \ c.path) /\ Room[Inner(c)] \in Nat /\ Room[c] \in Nat
  BY <1>4, VisitMeasures, FS_Difference DEF Measures
<1>8. Room[Inner(c)] = Room[c] - 1
  BY <1>5, <1>6, <1>7, FS_RemoveElement
<1> QED
  BY <1>4, <1>7, <1>8 DEF Below

\* Who depends on registered plugins comes after them.
AllBefore(s) ==
    \A i \in DOMAIN s : \A d \in Deps(s[i]) :
        Registered(d) => \E j \in 1 .. i - 1 : s[j] = d

\* What a call of visit does.
Sorts(c, r) ==
    /\ r \in Sorting
    /\ AllBefore(c.found.sorted) /\ ~r.circular =>
          /\ AllBefore(r.sorted)
          /\ Range(c.found.sorted) \subseteq Range(r.sorted)
          /\ \A p \in Range(c.todo) : Registered(p) => p \in Range(r.sorted)

LEMMA WithLastSorts ==
    ASSUME NEW found \in Sorting, NEW p \in Plugin
    PROVE  /\ WithLast(found, p) \in Sorting /\ WithLast(found, p).circular = found.circular
           /\ Range(WithLast(found, p).sorted) = Range(found.sorted) \cup {p}
           /\ AllBefore(found.sorted) /\ (\A d \in Deps(p) : Registered(d) => d \in Range(found.sorted))
                => AllBefore(WithLast(found, p).sorted)
<1> DEFINE s == found.sorted
           t == Append(s, p)
<1>1. s \in Seq(Plugin) /\ found.circular \in BOOLEAN /\ Len(s) \in Nat
  BY DEF Sorting
<1>2. /\ WithLast(found, p) \in Sorting /\ WithLast(found, p).circular = found.circular
      /\ WithLast(found, p).sorted = t
  BY <1>1 DEF WithLast, Sorting
<1>3. /\ t \in Seq(Plugin) /\ Len(t) = Len(s) + 1 /\ t[Len(s) + 1] = p
      /\ DOMAIN s = 1 .. Len(s) /\ DOMAIN t = 1 .. Len(s) + 1
      /\ \A i \in 1 .. Len(s) : t[i] = s[i]
  BY <1>1
<1> HIDE DEF t, s
<1>4. Range(t) = Range(s) \cup {p}
  BY <1>1, <1>3 DEF Range
<1>5. ASSUME AllBefore(s), \A d \in Deps(p) : Registered(d) => d \in Range(s)
      PROVE  AllBefore(t)
  <2> SUFFICES ASSUME NEW i \in 1 .. Len(s) + 1, NEW d \in Deps(t[i]), Registered(d)
               PROVE  \E j \in 1 .. i - 1 : t[j] = d
    BY <1>3 DEF AllBefore
  <2>1. CASE i = Len(s) + 1
    <3>1. PICK j \in 1 .. Len(s) : s[j] = d
      BY <1>3, <1>5, <2>1 DEF Range
    <3> QED
      BY <1>1, <1>3, <2>1, <3>1
  <2>2. CASE i # Len(s) + 1
    <3>1. i \in 1 .. Len(s) /\ t[i] = s[i]
      BY <1>1, <1>3, <2>2
    <3>2. PICK j \in 1 .. i - 1 : s[j] = d
      BY <1>3, <1>5, <3>1 DEF AllBefore
    <3>3. j \in 1 .. Len(s)
      BY <1>1, <3>1
    <3> QED
      BY <1>3, <3>2, <3>3
  <2> QED
    BY <2>1, <2>2
<1> QED
  BY <1>2, <1>4, <1>5 DEF s, t

\* A call does what it should when those below it do.
LEMMA VisitSorts ==
    ASSUME order \in Seq(Plugin), scenario \in Scenarios, NEW c \in Visiting, NEW f,
           \A d \in Visiting : Below(Room, Left, d, c) => Sorts(d, f[d])
    PROVE  Sorts(c, VisitEntry(c, f))
<1> DEFINE p == Head(c.todo)
           r == VisitEntry(c, f)
<1>1. /\ c.path \in SUBSET Plugin /\ c.todo \in Seq(Plugin) /\ c.found \in Sorting
      /\ c.found.sorted \in Seq(Plugin)
  BY DEF Visiting, Sorting
<1> SUFFICES Sorts(c, r)
  OBVIOUS
<1>0. r = IF c.todo = <<>> THEN c.found
          ELSE IF p \in Range(c.found.sorted) \/ ~Registered(p) THEN f[Rest(c, c.found)]
          ELSE IF p \in c.path THEN [c.found EXCEPT !.circular = TRUE]
          ELSE IF f[Inner(c)].circular THEN f[Inner(c)]
          ELSE f[Rest(c, WithLast(f[Inner(c)], p))]
  BY VisitEntryCases
<1> HIDE DEF r
<1>2. CASE c.todo = <<>>
  <2>1. r = c.found /\ Range(c.todo) = {}
    BY <1>2, <1>0 DEF Range
  <2> QED
    BY <1>1, <2>1 DEF Sorts
<1>3. CASE c.todo # <<>> /\ (p \in Range(c.found.sorted) \/ ~Registered(p))
  <2>1. /\ Rest(c, c.found) \in Visiting /\ Below(Room, Left, Rest(c, c.found), c)
        /\ Range(c.todo) = {p} \cup Range(Tail(c.todo))
    BY <1>1, <1>3, RestIsBelow
  <2>2. Sorts(Rest(c, c.found), r)
    BY <1>3, <2>1, <1>0
  <2>3. Rest(c, c.found).found = c.found /\ Rest(c, c.found).todo = Tail(c.todo)
    BY DEF Rest
  <2> QED
    BY <1>3, <2>1, <2>2, <2>3 DEF Sorts
<1>4. CASE c.todo # <<>> /\ p \notin Range(c.found.sorted) /\ Registered(p) /\ p \in c.path
  <2>1. r = [c.found EXCEPT !.circular = TRUE]
    BY <1>4, <1>0
  <2>2. r \in Sorting /\ r.circular = TRUE
    BY <1>1, <2>1 DEF Sorting
  <2> QED
    BY <2>2 DEF Sorts
<1>5. CASE c.todo # <<>> /\ p \notin Range(c.found.sorted) /\ Registered(p) /\ p \notin c.path
  <2> DEFINE after == f[Inner(c)]
             more == WithLast(after, p)
  <2>1. Inner(c) \in Visiting /\ Below(Room, Left, Inner(c), c)
    BY <1>5, InnerIsBelow
  <2>2. Sorts(Inner(c), after)
    BY <2>1
  <2>3. /\ Inner(c).found = c.found /\ Range(Inner(c).todo) = Deps(p)
        /\ after \in Sorting /\ p \in Plugin
    BY <1>1, <1>5, <2>2 DEF Inner, Sorts, Deps
  <2>4. /\ more \in Sorting /\ more.circular = after.circular
        /\ Range(more.sorted) = Range(after.sorted) \cup {p}
        /\ AllBefore(after.sorted) /\ (\A d \in Deps(p) : Registered(d) => d \in Range(after.sorted))
                => AllBefore(more.sorted)
    <3> HIDE DEF after
    <3> QED
      BY <2>3, WithLastSorts
  <2>5. CASE after.circular
    <3>1. r = after
      BY <1>5, <2>5, <1>0
    <3> QED
      BY <2>3, <2>5, <3>1 DEF Sorts
  <2>6. CASE ~after.circular
    <3>1. r = f[Rest(c, more)]
      BY <1>5, <2>6, <1>0
    <3>2. /\ Rest(c, more) \in Visiting /\ Below(Room, Left, Rest(c, more), c)
          /\ Range(c.todo) = {p} \cup Range(Tail(c.todo))
      <4> HIDE DEF more
      <4> QED
        BY <1>1, <1>5, <2>4, RestIsBelow
    <3>3. Sorts(Rest(c, more), r)
      BY <3>1, <3>2
    <3>4. Rest(c, more).found = more /\ Rest(c, more).todo = Tail(c.todo)
      BY DEF Rest
    <3> HIDE DEF more, after
    <3>5. AllBefore(c.found.sorted) => /\ AllBefore(more.sorted)
                                       /\ Range(c.found.sorted) \subseteq Range(more.sorted)
                                       /\ p \in Range(more.sorted)
      BY <2>2, <2>3, <2>4, <2>6 DEF Sorts
    <3> QED
      BY <3>2, <3>3, <3>4, <3>5 DEF Sorts
  <2> QED
    BY <2>5, <2>6
<1> QED
  BY <1>2, <1>3, <1>4, <1>5

\* The result of visit is a function of the results below.
LEMMA VisitIsLocal ==
    ASSUME order \in Seq(Plugin), scenario \in Scenarios, NEW c \in Visiting,
           NEW f \in [Visiting -> Sorting], NEW g \in [Visiting -> Sorting],
           \A d \in Visiting : Below(Room, Left, d, c) => f[d] = g[d]
    PROVE  VisitEntry(c, f) = VisitEntry(c, g) /\ VisitEntry(c, f) \in Sorting
<1> DEFINE p == Head(c.todo)
<1>1. /\ c.path \in SUBSET Plugin /\ c.todo \in Seq(Plugin) /\ c.found \in Sorting
  BY DEF Visiting
<1>2. [c.found EXCEPT !.circular = TRUE] \in Sorting
  BY <1>1 DEF Sorting
<1>3. CASE c.todo = <<>>
  BY <1>1, <1>3, VisitEntryCases
<1>4. CASE c.todo # <<>> /\ (p \in Range(c.found.sorted) \/ ~Registered(p))
  <2>1. /\ Rest(c, c.found) \in Visiting /\ Below(Room, Left, Rest(c, c.found), c)
    BY <1>1, <1>4, RestIsBelow
  <2> QED
    BY <1>4, <2>1, VisitEntryCases
<1>5. CASE c.todo # <<>> /\ p \notin Range(c.found.sorted) /\ Registered(p) /\ p \in c.path
  BY <1>2, <1>5, VisitEntryCases
<1>6. CASE c.todo # <<>> /\ p \notin Range(c.found.sorted) /\ Registered(p) /\ p \notin c.path
  <2>1. Inner(c) \in Visiting /\ Below(Room, Left, Inner(c), c)
    BY <1>6, InnerIsBelow
  <2>2. f[Inner(c)] = g[Inner(c)] /\ f[Inner(c)] \in Sorting /\ p \in Plugin
    BY <1>1, <1>6, <2>1
  <2> DEFINE more == WithLast(f[Inner(c)], p)
  <2>3. more \in Sorting
    BY <2>2, WithLastSorts
  <2>4. Rest(c, more) \in Visiting /\ Below(Room, Left, Rest(c, more), c)
    <3> HIDE DEF more
    <3> QED
      BY <1>1, <1>6, <2>3, RestIsBelow
  <2>5. f[Rest(c, more)] = g[Rest(c, more)] /\ f[Rest(c, more)] \in Sorting
    <3> HIDE DEF more
    <3> QED
      BY <2>4
  <2> QED
    BY <1>6, <2>2, <2>5, VisitEntryCases
<1> QED
  BY <1>3, <1>4, <1>5, <1>6

\* The plugins are initialized after those that they depend on.
LEMMA InitializationOrderIsSound ==
    ASSUME order \in Seq(Plugin), scenario \in Scenarios
    PROVE  /\ InitializationOrder \in Sorting
           /\ ~InitializationOrder.circular => AllBefore(InitializationOrder.sorted)
<1> DEFINE F == [Visiting -> Sorting]
           Step == [p \in Visiting \X F |-> VisitEntry(p[1], p[2])]
           v == [sorted |-> <<>>, circular |-> FALSE]
           Solves(f) == f = [c \in Visiting |-> VisitEntry(c, f)]
           visit == CHOOSE f : Solves(f)
           first == [path |-> {}, todo |-> ByPriority, found |-> v]
<1>1. v \in Sorting /\ first \in Visiting
  BY ByPriorityIsTyped DEF Sorting, Visiting
<1>2. \A c \in Visiting, f \in F : Step[<<c, f>>] = VisitEntry(c, f)
  OBVIOUS
<1>3. Step \in [Visiting \X F -> Sorting]
  <2>1. \A c \in Visiting, f \in F : VisitEntry(c, f) \in Sorting
    BY VisitIsLocal
  <2> QED
    BY <2>1
<1>4. \A c \in Visiting, f \in F, g \in F :
        (\A d \in Visiting : Below(Room, Left, d, c) => f[d] = g[d]) => Step[<<c, f>>] = Step[<<c, g>>]
  BY <1>2, VisitIsLocal
<1>5. Recurs(Visiting, Sorting, Room, Left, Step)
  <2> HIDE DEF Step
  <2> QED
    BY <1>3, <1>4, VisitMeasures DEF Recurs
<1>6. \E f \in F : Follows(Step, f, Visiting)
  <2>1. Sorting # {}
    BY <1>1
  <2> HIDE DEF Step
  <2> QED
    BY <1>5, <2>1, Recursion
<1>7. \E f : Solves(f)
  <2>1. PICK f \in F : Follows(Step, f, Visiting)
    BY <1>6
  <2>2. \A c \in Visiting : f[c] = VisitEntry(c, f)
    BY <1>2, <2>1 DEF Follows
  <2> QED
    BY <2>2
<1>8. Solves(visit)
  <2> HIDE DEF Solves
  <2> QED
    BY <1>7
<1>9. InitializationOrder = visit[first]
  BY DEF InitializationOrder
<1> HIDE DEF visit
<1>10. \A c \in Visiting : visit[c] = VisitEntry(c, visit)
  BY <1>8
<1>11. \A c \in Visiting : Sorts(c, visit[c])
  <2> DEFINE Bad == {c \in Visiting : ~Sorts(c, visit[c])}
  <2>1. SUFFICES ASSUME Bad # {} PROVE FALSE
    OBVIOUS
  <2>2. PICK c \in Bad : \A d \in Visiting : Below(Room, Left, d, c) => d \notin Bad
    <3>1. Bad \in SUBSET Visiting
      OBVIOUS
    <3> HIDE DEF Bad
    <3> QED
      BY <2>1, <3>1, VisitMeasures, LeastAmong
  <2>3. \A d \in Visiting : Below(Room, Left, d, c) => Sorts(d, visit[d])
    BY <2>2
  <2>4. Sorts(c, VisitEntry(c, visit))
    BY <2>3, VisitSorts
  <2> QED
    BY <1>10, <2>4
<1>12. Sorts(first, visit[first])
  BY <1>1, <1>11
<1>13. AllBefore(first.found.sorted)
  BY DEF AllBefore
<1> QED
  BY <1>9, <1>12, <1>13 DEF Sorts

-----------------------------------------------------------------------------
(* The inductive invariants. *)

Ordered(list) ==
    \A i, j \in 1 .. Len(list) : i < j => Precedes(list[i], list[j])
Bounded(list, n) == \A i \in 1 .. Len(list) : list[i].serial <= n
Begins(s, t) == Len(s) <= Len(t) /\ \A i \in 1 .. Len(s) : s[i] = t[i]

Lists == {list \in Seq(Handler) : Ordered(list)}

\* An execution e that goes through a list has called what was there when it
\* started, or will come to it.
Meets(e, list, d) ==
    \/ \E i \in 1 .. Len(e.ran) : e.ran[i] = d
    \/ \E n \in 1 .. Len(list) : n > e.next /\ list[n] = d

GoesThrough(e, list) ==
    /\ e.next \in 1 .. Len(list)
    /\ ~e.shifted => /\ Len(e.ran) = e.next
                     /\ \A n \in 1 .. e.next : e.ran[n] = list[n]
    /\ \A i \in 1 .. Len(e.found) : Meets(e, list, e.found[i])

ExecutionInv(e, list) ==
    /\ DOMAIN e = DOMAIN Unstarted
    /\ e.status \in {"none", "handler", "done", "threw"}
    /\ e.found \in Seq(Handler) /\ e.ran \in Seq(Handler)
    /\ ~e.shifted => Ordered(e.ran)
    /\ e.status = "handler" =>
          /\ e.hook \in HookName /\ e.own \in BOOLEAN
          /\ e.own => e.list \in Lists
          /\ GoesThrough(e, list)
    /\ e.status = "done" =>
          \A i \in 1 .. Len(e.found) : \E j \in 1 .. Len(e.ran) : e.ran[j] = e.found[i]

HooksInv ==
    /\ registered \in Nat
    /\ hooks \in [HookName -> Lists]
    /\ \A h \in HookName : Bounded(hooks[h], registered)

HookInv ==
    /\ HooksInv
    /\ execution = [x \in Execution |-> execution[x]]
    /\ \A x \in Execution : ExecutionInv(execution[x], ListOf(x))

\* Handlers of plugins have one priority, and the new ones go to the end.
Even(list) == \A i \in 1 .. Len(list) : list[i].priority = 0
PlainInv ==
    "handle" \notin scenario.ops =>
        /\ \A h \in HookName : Even(hooks[h])
        /\ \A x \in Execution : ~execution[x].shifted

\* The state v is no older than the save n of o, or that one does not matter.
Covers(o, v, n) == v >= n \/ failed[o] >= n
Pending(o) == {chain[o][i] : i \in 1 .. Len(chain[o])}

\* A save is over when it is not pending: the file has it.
Settles(o, n) == n = 0 \/ n \in Pending(o) \/ Covers(o, file[o], n)

Marks == Nat \cup {Absent}

StoreTypes ==
    /\ cached \in [Owner -> Marks] /\ file \in [Owner -> Marks]
    /\ chain \in [Owner -> Seq(Nat)]
    /\ writing \in [Owner -> [phase : {"none", "mkdir", "write", "rename"},
                              data : Marks, dir : BOOLEAN]]
    /\ clearing \in [Owner -> BOOLEAN]
    /\ saves \in [Owner -> Nat] /\ made \in [Owner -> Nat]
    /\ failed \in [Owner -> Nat] /\ flushed \in [Owner -> Nat]

\* Nothing is newer than the latest save.
Numbered(o) ==
    /\ \A n \in Pending(o) : n <= saves[o]
    /\ cached[o] <= saves[o] /\ file[o] <= saves[o] /\ writing[o].data <= saves[o]
    /\ made[o] <= saves[o] /\ failed[o] <= saves[o] /\ flushed[o] <= saves[o]

\* What is in memory, and what is being written.
MemoryInv(o) ==
    IF cached[o] = Absent
    THEN /\ \A n \in Pending(o) : failed[o] >= n
         /\ writing[o].phase # "none" => failed[o] >= writing[o].data
    ELSE /\ \A n \in Pending(o) : Covers(o, cached[o], n)
         /\ Covers(o, cached[o], file[o])
         /\ writing[o].phase # "none" => Covers(o, cached[o], writing[o].data)

WritingInv(o) ==
    IF writing[o].phase = "none" THEN writing[o] = NotWriting
    ELSE /\ chain[o] # <<>>
         /\ writing[o].data # Absent => /\ Covers(o, writing[o].data, Head(chain[o]))
                                        /\ Covers(o, writing[o].data, file[o])
         /\ writing[o].phase = "rename" => writing[o].data # Absent

OwnerInv(o) ==
    /\ Numbered(o) /\ MemoryInv(o) /\ WritingInv(o)
    /\ Settles(o, made[o])
    /\ Covers(o, file[o], flushed[o])

StoreInv == StoreTypes /\ \A o \in Owner : OwnerInv(o)

\* The saves that a flush waits for are numbered, and settle.
CallInv ==
    /\ call = [c \in Caller |-> call[c]]
    /\ \A c \in Caller :
          /\ DOMAIN call[c] = DOMAIN Idle
          /\ call[c].upto \in [Owner -> Nat]
          /\ \A o \in Owner : /\ call[c].upto[o] <= saves[o]
                              /\ Settles(o, call[c].upto[o])

-----------------------------------------------------------------------------
(* Operators *)

\* At(list, positions) has the elements of list at the positions, in order.
LEMMA AtFacts ==
    ASSUME NEW S, NEW list \in Seq(S), NEW positions \in SUBSET (1 .. Len(list))
    PROVE  /\ At(list, positions) \in Seq(S)
           /\ \A n \in 1 .. Len(At(list, positions)) :
                \E i \in positions : At(list, positions)[n] = list[i]
           /\ \A m, n \in 1 .. Len(At(list, positions)) : m < n =>
                \E i, j \in positions : /\ i < j
                                        /\ At(list, positions)[m] = list[i]
                                        /\ At(list, positions)[n] = list[j]
<1> DEFINE before(i) == {j \in positions : j <= i}
           N == Cardinality(positions)
           rank == [i \in positions |-> Cardinality(before(i))]
           f == [n \in 1 .. N |-> CHOOSE i \in positions : Cardinality(before(i)) = n]
<1>1. Len(list) \in Nat /\ positions \subseteq Int
  BY LenProperties
<1>2. IsFiniteSet(positions) /\ N \in Nat
  <2>1. IsFiniteSet(1 .. Len(list))
    BY <1>1, FS_Interval
  <2> QED
    BY <2>1, FS_Subset, FS_CardinalityType
<1>3. ASSUME NEW i \in positions
      PROVE  IsFiniteSet(before(i)) /\ rank[i] \in 1 .. N /\ rank[i] \in Int
  <2>1. before(i) \in SUBSET positions
    OBVIOUS
  <2>2. IsFiniteSet(before(i)) /\ Cardinality(before(i)) <= N
    BY <2>1, <1>2, FS_Subset
  <2>3. i \in before(i)
    BY <1>1
  <2>4. Cardinality(before(i)) \in Nat /\ Cardinality(before(i)) # 0
    BY <2>2, <2>3, FS_CardinalityType, FS_EmptySet
  <2> HIDE DEF before, N
  <2> QED
    BY <2>2, <2>4, <1>2
<1>4. ASSUME NEW i \in positions, NEW k \in positions, i < k
      PROVE  rank[i] < rank[k]
  <2>1. ASSUME NEW j \in before(i)
        PROVE  j \in before(k)
    <3>1. j \in Int /\ i \in Int /\ k \in Int /\ j <= i
      BY <1>1
    <3> QED
      BY <1>4, <3>1
  <2>2. k \in before(k) /\ k \notin before(i)
    BY <1>1, <1>4
  <2>3. IsFiniteSet(before(k))
    BY <1>3
  <2>4. Cardinality(before(i)) <= Cardinality(before(k))
    <3> HIDE DEF before
    <3> QED
      BY <2>1, <2>3, FS_Subset
  <2>5. Cardinality(before(i)) # Cardinality(before(k))
    <3>1. before(i) # before(k)
      BY <2>2
    <3> HIDE DEF before
    <3> QED
      BY <3>1, <2>1, <2>3, FS_Subset
  <2>6. rank[i] \in Int /\ rank[k] \in Int
    <3> HIDE DEF rank, N
    <3> QED
      BY <1>2, <1>3
  <2>7. rank[i] = Cardinality(before(i)) /\ rank[k] = Cardinality(before(k))
    OBVIOUS
  <2> HIDE DEF before, rank
  <2> QED
    BY <2>4, <2>5, <2>6, <2>7
<1>5. \A n \in 1 .. N : f[n] \in positions /\ rank[f[n]] = n
  <2>1. rank \in [positions -> 1 .. N]
    <3>1. DOMAIN rank = positions /\ rank = [i \in positions |-> rank[i]]
      OBVIOUS
    <3> HIDE DEF rank, N
    <3> QED
      BY <3>1, <1>3
  <2>2. \A i, k \in positions : rank[i] = rank[k] => i = k
    <3> SUFFICES ASSUME NEW i \in positions, NEW k \in positions,
                        rank[i] = rank[k], i # k
                 PROVE  FALSE
      OBVIOUS
    <3>1. i < k \/ k < i
      BY <1>1
    <3>2. rank[i] < rank[k] \/ rank[k] < rank[i]
      BY <3>1, <1>4
    <3> HIDE DEF rank, N
    <3>3. rank[i] \in Int
      BY <1>2, <1>3
    <3> QED
      BY <3>2, <3>3
  <2>3. rank \in Injection(positions, 1 .. N)
    <3> HIDE DEF rank, N
    <3> QED
      BY <2>1, <2>2 DEF Injection, IsInjective
  <2>4. IsFiniteSet(1 .. N) /\ Cardinality(1 .. N) = N
    BY <1>2, FS_Interval
  <2>5. rank \in Surjection(positions, 1 .. N)
    <3> HIDE DEF rank
    <3> QED
      BY <1>2, <2>3, <2>4, FS_Injection
  <2>6. \A n \in 1 .. N : \E i \in positions : rank[i] = n
    <3> HIDE DEF rank, N
    <3> QED
      BY <2>5 DEF Surjection
  <2>7. \A n \in 1 .. N : \E i \in positions : Cardinality(before(i)) = n
    BY <2>6
  <2> HIDE DEF before, N
  <2> QED
    BY <2>7
<1>6. \A m, n \in 1 .. N : m < n => f[m] < f[n]
  <2> SUFFICES ASSUME NEW m \in 1 .. N, NEW n \in 1 .. N, m < n, ~(f[m] < f[n])
               PROVE  FALSE
    OBVIOUS
  <2> HIDE DEF f, rank
  <2>1. f[m] \in Int /\ f[n] \in Int /\ rank[f[m]] = m /\ rank[f[n]] = n
    BY <1>1, <1>5
  <2>2. CASE f[m] = f[n]
    BY <2>1, <2>2
  <2>3. CASE f[n] < f[m]
    <3>1. rank[f[n]] < rank[f[m]]
      BY <1>4, <1>5, <2>3
    <3> QED
      BY <2>1, <3>1
  <2> QED
    BY <2>1, <2>2, <2>3
<1>7. At(list, positions) = [n \in 1 .. N |-> list[f[n]]]
  BY DEF At
<1>8. \A n \in 1 .. N : list[f[n]] \in S
  <2> HIDE DEF f, rank
  <2> QED
    BY <1>5, LenProperties
<1> HIDE DEF f, rank, N
<1>9. At(list, positions) \in Seq(S) /\ Len(At(list, positions)) = N
  BY <1>2, <1>7, <1>8
<1> QED
  BY <1>5, <1>6, <1>7, <1>9

\* Some of a list's handlers are in its order too.
LEMMA AtKeepsOrder ==
    ASSUME NEW list \in Lists, NEW positions \in SUBSET (1 .. Len(list))
    PROVE  /\ At(list, positions) \in Lists
           /\ \A n \in Nat : Bounded(list, n) => Bounded(At(list, positions), n)
           /\ Even(list) => Even(At(list, positions))
<1> DEFINE rest == At(list, positions)
<1>1. list \in Seq(Handler) /\ Ordered(list)
  BY DEF Lists
<1>2. /\ rest \in Seq(Handler)
      /\ \A n \in 1 .. Len(rest) : \E i \in positions : rest[n] = list[i]
      /\ \A m, n \in 1 .. Len(rest) : m < n =>
           \E i, j \in positions : i < j /\ rest[m] = list[i] /\ rest[n] = list[j]
  BY <1>1, AtFacts
<1> HIDE DEF rest
<1>3. Ordered(rest)
  BY <1>1, <1>2 DEF Ordered
<1>4. \A n \in Nat : Bounded(list, n) => Bounded(rest, n)
  BY <1>2 DEF Bounded
<1>5. Even(list) => Even(rest)
  BY <1>2 DEF Even
<1> QED
  BY <1>2, <1>3, <1>4, <1>5 DEF Lists, rest

LEMMA FirstHandlersAreOrdered ==
    ASSUME scenario \in Scenarios, NEW h \in HookName
    PROVE  /\ FirstHandlers(h) \in Lists
           /\ Bounded(FirstHandlers(h), Len(scenario.plugins))
           /\ Even(FirstHandlers(h))
<1> DEFINE plugins == scenario.plugins
           all == [i \in DOMAIN plugins |-> [plugin |-> plugins[i], serial |-> i,
                                             priority |-> 0, errorPolicy |-> "throw"]]
           positions == {i \in DOMAIN plugins : /\ h \in HooksOf[plugins[i]]
                                                /\ plugins[i] \notin scenario.disabled}
<1>1. plugins \in Seq(Plugin)
  BY PluginAssumption
<1>2. DOMAIN plugins = 1 .. Len(plugins) /\ Len(plugins) \in Nat
  BY <1>1, LenProperties
<1>3. \A i \in 1 .. Len(plugins) : plugins[i] \in Plugin
  BY <1>1, ElementOfSeq
<1>4. FirstHandlers(h) = At(all, positions)
  BY DEF FirstHandlers
<1>5. positions \subseteq DOMAIN plugins
  OBVIOUS
<1> HIDE DEF plugins, positions
<1>6. \A i \in 1 .. Len(plugins) : all[i] \in Handler
  BY <1>2, <1>3, HookAssumption DEF Handler, ErrorPolicy
<1>7. \A i \in 1 .. Len(plugins) : all[i].serial = i /\ all[i].priority = 0
  BY <1>2
<1>8. DOMAIN all = 1 .. Len(plugins) /\ all = [i \in 1 .. Len(plugins) |-> all[i]]
  BY <1>2
<1> HIDE DEF all
<1>9. all \in Seq(Handler) /\ Len(all) = Len(plugins)
  BY <1>2, <1>6, <1>8
<1>10. all \in Lists /\ Bounded(all, Len(plugins)) /\ Even(all)
  BY <1>2, <1>7, <1>9 DEF Lists, Ordered, Precedes, Bounded, Even
<1> QED
  BY <1>2, <1>4, <1>5, <1>9, <1>10, AtKeepsOrder DEF plugins

\* A set of numbers with all below each of them is an interval.
LEMMA DownSet ==
    ASSUME NEW n \in Nat, NEW S \in SUBSET (1 .. n),
           \A i \in S, j \in 1 .. n : j < i => j \in S
    PROVE  Cardinality(S) \in 0 .. n /\ S = 1 .. Cardinality(S)
<1> DEFINE T == {j \in 1 .. n + 1 : j \notin S}
<1>1. T \in SUBSET Nat /\ n + 1 \in T
  OBVIOUS
<1> HIDE DEF T
<1>2. PICK m \in T : \A j \in T : m <= j
  BY <1>1, LeastNumber
<1>3. m \in 1 .. n + 1 /\ m \notin S /\ \A j \in 1 .. n + 1 : j < m => j \in S
  BY <1>1, <1>2 DEF T
<1>4. S = 1 .. m - 1
  <2>1. ASSUME NEW i \in S PROVE i \in 1 .. m - 1
    BY <1>3, <2>1
  <2>2. ASSUME NEW i \in 1 .. m - 1 PROVE i \in S
    BY <1>3, <2>2
  <2> QED
    BY <2>1, <2>2
<1>5. Cardinality(S) = m - 1
  <2>1. 1 \in Int /\ m - 1 \in Int /\ m - 1 >= 0
    BY <1>3
  <2>2. Cardinality(1 .. m - 1) = m - 1
    <3>1. Cardinality(1 .. m - 1) = IF 1 > m - 1 THEN 0 ELSE (m - 1) - 1 + 1
      BY <2>1, FS_Interval
    <3> QED
      BY <2>1, <3>1
  <2> QED
    BY <1>4, <2>2
<1> QED
  BY <1>3, <1>4, <1>5

\* What register makes of a list in order: the handler is at its place, those
\* before it stay, and the others move on by one.
LEMMA SortedFacts ==
    ASSUME NEW list \in Lists, NEW e \in Handler
    PROVE  /\ Place(list, e) \in 1 .. Len(list) + 1
           /\ \A i \in 1 .. Len(list) :
                i < Place(list, e) <=> list[i].priority <= e.priority
           /\ Sorted(list, e) \in Seq(Handler)
           /\ Len(Sorted(list, e)) = Len(list) + 1
           /\ Sorted(list, e)[Place(list, e)] = e
           /\ \A i \in 1 .. Len(list) :
                /\ i < Place(list, e) => Sorted(list, e)[i] = list[i]
                /\ i >= Place(list, e) => Sorted(list, e)[i + 1] = list[i]
<1> DEFINE n == Len(list)
           S == {i \in DOMAIN list : list[i].priority <= e.priority}
           k == Place(list, e)
<1>1. /\ list \in Seq(Handler) /\ n \in Nat /\ DOMAIN list = 1 .. n
      /\ \A i \in 1 .. n : list[i] \in Handler
  BY LenProperties, ElementOfSeq DEF Lists
<1>2. e.priority \in Int /\ \A i \in 1 .. n : list[i].priority \in Int
  BY <1>1, HookAssumption DEF Handler
<1>3. \A i \in S, j \in 1 .. n : j < i => j \in S
  <2> SUFFICES ASSUME NEW i \in S, NEW j \in 1 .. n, j < i PROVE j \in S
    OBVIOUS
  <2>1. i \in 1 .. n /\ list[i].priority <= e.priority
    BY <1>1
  <2>2. Precedes(list[j], list[i])
    BY <2>1 DEF Lists, Ordered
  <2>3. list[j].priority <= list[i].priority
    BY <1>2, <2>1, <2>2 DEF Precedes
  <2> QED
    BY <1>1, <1>2, <2>1, <2>3
<1>4. S \in SUBSET (1 .. n)
  BY <1>1
<1>5. k = 1 + Cardinality(S)
  BY DEF Place
<1>6. Cardinality(S) \in 0 .. n /\ S = 1 .. Cardinality(S)
  <2> HIDE DEF S, n
  <2> QED
    BY <1>1, <1>3, <1>4, DownSet
<1>7. \A i \in 1 .. n : i < k <=> list[i].priority <= e.priority
  <2> SUFFICES ASSUME NEW i \in 1 .. n PROVE i < k <=> i \in S
    BY <1>1
  <2> HIDE DEF S, n, k
  <2> QED
    BY <1>1, <1>5, <1>6
<1>8. k \in 1 .. n + 1
  <2> HIDE DEF S, n, k
  <2> QED
    BY <1>1, <1>5, <1>6
<1> DEFINE a == SubSeq(list, 1, k - 1)
           b == SubSeq(list, k, n)
<1>9. Sorted(list, e) = a \o <<e>> \o b
  BY DEF Sorted, InsertAt
<1> HIDE DEF S, n, k
<1>10. /\ a \in Seq(Handler) /\ Len(a) = k - 1
       /\ \A i \in 1 .. k - 1 : a[i] = list[i]
  <2>1. 1 \in Int /\ k - 1 \in Int /\ \A i \in 1 .. k - 1 : list[i] \in Handler
    BY <1>1, <1>8
  <2>2. /\ a \in Seq(Handler) /\ Len(a) = IF 1 <= k - 1 THEN k - 1 - 1 + 1 ELSE 0
        /\ \A i \in 1 .. k - 1 - 1 + 1 : a[i] = list[1 + i - 1]
    BY <2>1, SubSeqProperties
  <2> HIDE DEF a
  <2>3. \A i \in 1 .. k - 1 : i \in 1 .. k - 1 - 1 + 1 /\ 1 + i - 1 = i
    BY <1>8
  <2> QED
    BY <1>8, <2>2, <2>3
<1>11. /\ b \in Seq(Handler) /\ Len(b) = n - k + 1
       /\ \A i \in 1 .. n - k + 1 : b[i] = list[k + i - 1]
  <2>1. k \in Int /\ n \in Int /\ \A i \in k .. n : list[i] \in Handler
    BY <1>1, <1>8
  <2>2. /\ b \in Seq(Handler) /\ Len(b) = IF k <= n THEN n - k + 1 ELSE 0
        /\ \A i \in 1 .. n - k + 1 : b[i] = list[k + i - 1]
    BY <2>1, SubSeqProperties
  <2> HIDE DEF b
  <2> QED
    BY <1>1, <1>8, <2>2
<1> HIDE DEF a, b
<1>12. /\ a \o <<e>> \in Seq(Handler) /\ Len(a \o <<e>>) = k
       /\ \A i \in 1 .. k : (a \o <<e>>)[i] = IF i < k THEN list[i] ELSE e
  <2>1. <<e>> \in Seq(Handler) /\ Len(<<e>>) = 1 /\ <<e>>[1] = e
    OBVIOUS
  <2>2. /\ a \o <<e>> \in Seq(Handler) /\ Len(a \o <<e>>) = Len(a) + Len(<<e>>)
        /\ \A i \in 1 .. Len(a) + Len(<<e>>) : (a \o <<e>>)[i] =
               IF i <= Len(a) THEN a[i] ELSE <<e>>[i - Len(a)]
    BY <1>10, <2>1, ConcatProperties
  <2> DEFINE c == a \o <<e>>
             d == <<e>>
  <2>3. /\ c \in Seq(Handler) /\ Len(c) = Len(a) + Len(d)
        /\ \A i \in 1 .. Len(a) + Len(d) : c[i] = IF i <= Len(a) THEN a[i] ELSE d[i - Len(a)]
        /\ Len(d) = 1 /\ d[1] = e
    BY <2>1, <2>2
  <2> HIDE DEF c, d
  <2>4. c \in Seq(Handler) /\ Len(c) = k
    BY <1>8, <1>10, <2>3
  <2>5. ASSUME NEW i \in 1 .. k PROVE c[i] = IF i < k THEN list[i] ELSE e
    <3>1. i \in 1 .. Len(a) + Len(d)
      BY <1>8, <1>10, <2>3
    <3>2. CASE i < k
      <4>1. i <= Len(a) /\ i \in 1 .. k - 1
        BY <1>8, <1>10, <3>2
      <4> QED
        BY <1>10, <2>3, <3>1, <3>2, <4>1
    <3>3. CASE ~(i < k)
      <4>1. i = k /\ i - Len(a) = 1 /\ ~(i <= Len(a))
        BY <1>8, <1>10, <3>3
      <4> QED
        BY <2>3, <3>1, <3>3, <4>1
    <3> QED
      BY <3>2, <3>3
  <2> QED
    BY <2>4, <2>5 DEF c
<1> DEFINE c == a \o <<e>>
           s == c \o b
<1>13. c \in Seq(Handler) /\ Len(c) = k /\ \A i \in 1 .. k : c[i] = IF i < k THEN list[i] ELSE e
  BY <1>12
<1>14. Sorted(list, e) = s
  BY <1>9
<1> HIDE DEF c
<1>15. /\ s \in Seq(Handler) /\ Len(s) = Len(c) + Len(b)
       /\ \A i \in 1 .. Len(c) + Len(b) : s[i] = IF i <= Len(c) THEN c[i] ELSE b[i - Len(c)]
  BY <1>11, <1>13, ConcatProperties
<1> HIDE DEF s
<1>16. s \in Seq(Handler) /\ Len(s) = n + 1
  BY <1>1, <1>8, <1>11, <1>13, <1>15
<1>17. s[k] = e
  <2>1. k \in 1 .. Len(c) + Len(b) /\ k <= Len(c) /\ k \in 1 .. k /\ ~(k < k)
    BY <1>1, <1>8, <1>11, <1>13
  <2> QED
    BY <1>13, <1>15, <2>1
<1>18. ASSUME NEW i \in 1 .. n, i < k
       PROVE  s[i] = list[i]
  <2>1. i \in 1 .. Len(c) + Len(b) /\ i <= Len(c) /\ i \in 1 .. k
    BY <1>1, <1>8, <1>11, <1>13, <1>18
  <2> QED
    BY <1>13, <1>15, <1>18, <2>1
<1>19. ASSUME NEW i \in 1 .. n, i >= k
       PROVE  s[i + 1] = list[i]
  <2>1. /\ i + 1 \in 1 .. Len(c) + Len(b) /\ ~(i + 1 <= Len(c))
        /\ (i + 1) - Len(c) \in 1 .. n - k + 1 /\ k + ((i + 1) - Len(c)) - 1 = i
    BY <1>1, <1>8, <1>11, <1>13, <1>19
  <2> QED
    BY <1>11, <1>15, <2>1
<1>20. Sorted(list, e) = s /\ Place(list, e) = k /\ Len(list) = n
  BY <1>14 DEF k, n
<1> QED
  BY <1>7, <1>8, <1>16, <1>17, <1>18, <1>19, <1>20

\* The new handler is later than those of its priority, so that the list stays
\* in order.
LEMMA SortedIsOrdered ==
    ASSUME NEW list \in Lists, NEW e \in Handler, NEW m \in Nat,
           Bounded(list, m), e.serial = m + 1
    PROVE  Sorted(list, e) \in Lists /\ Bounded(Sorted(list, e), m + 1)
<1> DEFINE s == Sorted(list, e)
           k == Place(list, e)
           n == Len(list)
           old(i) == IF i < k THEN i ELSE i - 1
<1>1. /\ list \in Seq(Handler) /\ n \in Nat /\ Ordered(list)
      /\ \A i \in 1 .. n : list[i] \in Handler /\ list[i].serial <= m
  BY LenProperties, ElementOfSeq DEF Lists, Bounded
<1>2. /\ k \in 1 .. n + 1 /\ s \in Seq(Handler) /\ Len(s) = n + 1 /\ s[k] = e
      /\ \A i \in 1 .. n : i < k <=> list[i].priority <= e.priority
      /\ \A i \in 1 .. n : (i < k => s[i] = list[i]) /\ (i >= k => s[i + 1] = list[i])
  BY SortedFacts
<1>3. /\ e.priority \in Int /\ e.serial \in Nat
      /\ \A i \in 1 .. n : list[i].priority \in Int /\ list[i].serial \in Nat
  BY <1>1, HookAssumption DEF Handler
<1> HIDE DEF s, k, n
<1>4. ASSUME NEW i \in 1 .. n + 1, i # k
      PROVE  old(i) \in 1 .. n /\ s[i] = list[old(i)]
  <2>1. CASE i < k
    <3>1. i \in 1 .. n
      BY <1>1, <1>2, <2>1
    <3> QED
      BY <1>2, <2>1, <3>1
  <2>2. CASE ~(i < k)
    <3>1. i - 1 \in 1 .. n /\ i - 1 >= k /\ (i - 1) + 1 = i
      BY <1>1, <1>2, <1>4, <2>2
    <3> QED
      BY <1>2, <2>2, <3>1
  <2> QED
    BY <2>1, <2>2
<1>5. ASSUME NEW i \in 1 .. n + 1, NEW j \in 1 .. n + 1, i < j
      PROVE  Precedes(s[i], s[j])
  <2>1. CASE i = k
    <3>1. old(j) \in 1 .. n /\ s[j] = list[old(j)] /\ ~(old(j) < k)
      BY <1>2, <1>4, <1>5, <2>1
    <3> QED
      BY <1>2, <1>3, <2>1, <3>1 DEF Precedes
  <2>2. CASE j = k
    <3>1. old(i) \in 1 .. n /\ s[i] = list[old(i)] /\ old(i) < k
      BY <1>2, <1>4, <1>5, <2>2
    <3>2. list[old(i)].priority <= e.priority /\ list[old(i)].serial < e.serial
      BY <1>1, <1>2, <1>3, <3>1
    <3> HIDE DEF old
    <3> QED
      BY <1>2, <1>3, <2>2, <3>1, <3>2 DEF Precedes
  <2>3. CASE i # k /\ j # k
    <3>1. old(i) \in 1 .. n /\ s[i] = list[old(i)] /\ old(j) \in 1 .. n /\ s[j] = list[old(j)]
      BY <1>4, <2>3
    <3>2. old(i) < old(j)
      BY <1>2, <1>5, <2>3
    <3> HIDE DEF old
    <3> QED
      BY <1>1, <3>1, <3>2 DEF Ordered, n
  <2> QED
    BY <2>1, <2>2, <2>3
<1>6. ASSUME NEW i \in 1 .. n + 1
      PROVE  s[i].serial <= m + 1
  <2>1. CASE i = k
    BY <1>2, <2>1
  <2>2. CASE i # k
    <3>1. s[i].serial <= m /\ s[i].serial \in Nat
      BY <1>1, <1>3, <1>4, <2>2
    <3> QED
      BY <3>1
  <2> QED
    BY <2>1, <2>2
<1>7. Ordered(s) /\ Bounded(s, m + 1)
  BY <1>2, <1>5, <1>6 DEF Ordered, Bounded
<1> QED
  BY <1>2, <1>7 DEF Lists, s

-----------------------------------------------------------------------------
(* The hook system: each operation keeps HookInv. *)

\* An execution is where it was, or what it has called is called again, when a
\* handler gets into its list.
LEMMA GoesOnInSorted ==
    ASSUME NEW r, NEW list \in Lists, NEW e \in Handler,
           r.ran \in Seq(Handler), r.found \in Seq(Handler), GoesThrough(r, list)
    PROVE  LET s == Sorted(list, e)
           IN  /\ r.next \in 1 .. Len(s)
               /\ \A i \in 1 .. Len(r.found) : Meets(r, s, r.found[i])
               /\ ~(Place(list, e) <= r.next) => GoesThrough(r, s)
<1> DEFINE s == Sorted(list, e)
           k == Place(list, e)
           n == Len(list)
<1>1. /\ k \in 1 .. n + 1 /\ s \in Seq(Handler) /\ Len(s) = n + 1
      /\ \A i \in 1 .. n : (i < k => s[i] = list[i]) /\ (i >= k => s[i + 1] = list[i])
  BY SortedFacts
<1>2. n \in Nat /\ r.next \in 1 .. n
  BY LenProperties DEF GoesThrough, Lists
<1> HIDE DEF s, k
<1>3. ASSUME NEW i \in 1 .. Len(r.found)
      PROVE  Meets(r, s, r.found[i])
  <2> DEFINE d == r.found[i]
  <2>1. Meets(r, list, d)
    BY DEF GoesThrough
  <2>2. CASE \E j \in 1 .. Len(r.ran) : r.ran[j] = d
    BY <2>2 DEF Meets
  <2>3. ASSUME NEW j \in 1 .. n, j > r.next, list[j] = d
        PROVE  Meets(r, s, d)
    <3>1. CASE j < k
      <4>1. s[j] = d /\ j \in 1 .. Len(s)
        BY <1>1, <1>2, <2>3, <3>1
      <4> QED
        BY <2>3, <4>1 DEF Meets
    <3>2. CASE ~(j < k)
      <4>1. s[j + 1] = d /\ j + 1 \in 1 .. Len(s) /\ j + 1 > r.next
        BY <1>1, <1>2, <2>3, <3>2
      <4> QED
        BY <4>1 DEF Meets
    <3> QED
      BY <3>1, <3>2
  <2> QED
    BY <2>1, <2>2, <2>3 DEF Meets
<1>4. r.next \in 1 .. Len(s)
  BY <1>1, <1>2
<1>5. ASSUME ~(k <= r.next)
      PROVE  GoesThrough(r, s)
  <2>1. \A i \in 1 .. r.next : i \in 1 .. n /\ i < k
    BY <1>1, <1>2, <1>5
  <2>2. \A i \in 1 .. r.next : s[i] = list[i]
    BY <1>1, <2>1
  <2> QED
    BY <1>3, <1>4, <2>2 DEF GoesThrough
<1> QED
  BY <1>3, <1>4, <1>5 DEF s, k

LEMMA NewHandler ==
    ASSUME HooksInv, NEW p \in Plugin, NEW i \in Priority, NEW policy \in ErrorPolicy
    PROVE  /\ New(p, i, policy) \in Handler /\ New(p, i, policy).serial = registered + 1
           /\ New(p, i, policy).priority = i
  BY DEF New, Handler, HooksInv

LEMMA WithHandlerKeeps ==
    ASSUME HookInv, NEW hs, NEW e \in Handler, e.serial = registered + 1, WithHandler(hs, e)
    PROVE  HookInv'
<1>1. /\ hooks' = [h \in HookName |-> IF h \in hs THEN Sorted(hooks[h], e) ELSE hooks[h]]
      /\ registered' = registered + 1
      /\ execution' = [x \in Execution |->
             IF /\ execution[x].status = "handler" /\ ~execution[x].own
                /\ execution[x].hook \in hs
                /\ Place(hooks[execution[x].hook], e) <= execution[x].next
             THEN [execution[x] EXCEPT !.shifted = TRUE]
             ELSE execution[x]]
  BY DEF WithHandler
<1>2. registered \in Nat /\ \A h \in HookName : hooks[h] \in Lists /\ Bounded(hooks[h], registered)
  BY DEF HookInv, HooksInv
<1>3. ASSUME NEW h \in HookName
      PROVE  hooks'[h] \in Lists /\ Bounded(hooks'[h], registered')
  <2>1. CASE h \in hs
    <3>1. hooks'[h] = Sorted(hooks[h], e)
      BY <1>1, <2>1
    <3> QED
      BY <1>1, <1>2, <3>1, SortedIsOrdered
  <2>2. CASE h \notin hs
    <3>1. hooks'[h] = hooks[h] /\ hooks[h] \in Seq(Handler)
      BY <1>1, <1>2, <2>2 DEF Lists
    <3>2. \A i \in 1 .. Len(hooks[h]) : hooks[h][i].serial \in Nat
      <4>1. \A i \in 1 .. Len(hooks[h]) : hooks[h][i] \in Handler
        BY <3>1, ElementOfSeq
      <4> QED
        BY <4>1 DEF Handler
    <3> QED
      BY <1>1, <1>2, <3>1, <3>2 DEF Bounded
  <2> QED
    BY <2>1, <2>2
<1>4. HooksInv'
  BY <1>1, <1>2, <1>3 DEF HooksInv
<1>5. ASSUME NEW x \in Execution
      PROVE  ExecutionInv(execution[x], ListOf(x))'
  <2> DEFINE r == execution[x]
             t == execution'[x]
  <2>1. ExecutionInv(r, ListOf(x))
    BY DEF HookInv
  <2>2. r.found \in Seq(Handler) /\ r.ran \in Seq(Handler) /\ DOMAIN r = DOMAIN Unstarted
    BY <2>1 DEF ExecutionInv
  <2>3. CASE r.status = "handler" /\ ~r.own /\ r.hook \in hs
    <3> DEFINE list == hooks[r.hook]
               s == Sorted(list, e)
    <3>1. ListOf(x) = list /\ r.hook \in HookName /\ list \in Lists /\ GoesThrough(r, list)
      BY <1>2, <2>1, <2>3 DEF ExecutionInv, ListOf
    <3>2. hooks'[r.hook] = s
      BY <1>1, <2>3, <3>1
    <3>3. /\ r.next \in 1 .. Len(s)
          /\ \A i \in 1 .. Len(r.found) : Meets(r, s, r.found[i])
          /\ ~(Place(list, e) <= r.next) => GoesThrough(r, s)
      BY <2>2, <3>1, GoesOnInSorted
    <3>4. CASE Place(list, e) <= r.next
      <4>1. t = [r EXCEPT !.shifted = TRUE]
        BY <1>1, <2>3, <3>4
      <4>2. /\ t.status = r.status /\ t.hook = r.hook /\ t.own = r.own /\ t.list = r.list
            /\ t.next = r.next /\ t.found = r.found /\ t.ran = r.ran /\ t.shifted
            /\ DOMAIN t = DOMAIN Unstarted
        BY <2>2, <4>1 DEF Unstarted
      <4>3. ListOf(x)' = s
        BY <2>3, <3>2, <4>2 DEF ListOf
      <4>4. GoesThrough(t, s)
        BY <3>3, <4>2 DEF GoesThrough, Meets
      <4> HIDE DEF r, t, s
      <4>5. ExecutionInv(t, s)
        BY <2>1, <2>3, <4>2, <4>4 DEF ExecutionInv
      <4> QED
        BY <4>3, <4>5 DEF t
    <3>5. CASE ~(Place(list, e) <= r.next)
      <4>1. t = r
        BY <1>1, <3>5
      <4>2. ListOf(x)' = s
        BY <2>3, <3>2, <4>1 DEF ListOf
      <4>3. GoesThrough(r, s)
        BY <3>3, <3>5
      <4> HIDE DEF s
      <4>4. ExecutionInv(r, s)
        BY <2>1, <2>3, <4>3 DEF ExecutionInv
      <4> QED
        BY <4>1, <4>2, <4>4
    <3> QED
      BY <3>4, <3>5
  <2>4. CASE ~(r.status = "handler" /\ ~r.own /\ r.hook \in hs)
    <3>1. t = r
      BY <1>1, <2>4
    <3>2. r.status = "handler" => ListOf(x)' = ListOf(x)
      BY <1>1, <2>1, <2>4, <3>1 DEF ListOf, ExecutionInv
    <3> QED
      BY <2>1, <3>1, <3>2 DEF ExecutionInv
  <2> QED
    BY <2>3, <2>4
<1>6. execution' = [x \in Execution |-> execution'[x]]
  BY <1>1
<1> QED
  BY <1>4, <1>5, <1>6 DEF HookInv

\* Executions keep the lists that are replaced.
LEMMA KeepingKeeps ==
    ASSUME HookInv, NEW hs, Keeping(hs), HooksInv',
           \A h \in HookName : h \notin hs => hooks'[h] = hooks[h]
    PROVE  HookInv'
<1>1. execution' = [x \in Execution |->
           IF execution[x].status = "handler" /\ ~execution[x].own /\ execution[x].hook \in hs
           THEN [execution[x] EXCEPT !.own = TRUE, !.list = hooks[execution[x].hook]]
           ELSE execution[x]]
  BY DEF Keeping
<1>2. \A h \in HookName : hooks[h] \in Lists
  BY DEF HookInv, HooksInv
<1>3. ASSUME NEW x \in Execution
      PROVE  ExecutionInv(execution[x], ListOf(x))'
  <2> DEFINE e == execution[x]
             f == execution'[x]
  <2>1. ExecutionInv(e, ListOf(x))
    BY DEF HookInv
  <2>2. CASE e.status = "handler" /\ ~e.own /\ e.hook \in hs
    <3>1. f = [e EXCEPT !.own = TRUE, !.list = hooks[e.hook]]
      BY <1>1, <2>2
    <3>2. /\ f.status = e.status /\ f.hook = e.hook /\ f.own = TRUE /\ f.list = hooks[e.hook]
          /\ f.next = e.next /\ f.found = e.found /\ f.ran = e.ran /\ f.shifted = e.shifted
          /\ DOMAIN f = DOMAIN Unstarted
      BY <2>1, <3>1 DEF ExecutionInv, Unstarted
    <3>3. ListOf(x)' = hooks[e.hook] /\ ListOf(x) = hooks[e.hook]
      BY <2>2, <3>2 DEF ListOf
    <3>4. e.hook \in HookName /\ GoesThrough(f, hooks[e.hook])
      <4>1. e.hook \in HookName /\ GoesThrough(e, hooks[e.hook])
        BY <2>1, <2>2, <3>3 DEF ExecutionInv
      <4> HIDE DEF e, f
      <4>2. \A list, d : Meets(e, list, d) => Meets(f, list, d)
        BY <3>2 DEF Meets
      <4> QED
        BY <3>2, <4>1, <4>2 DEF GoesThrough
    <3>5. ExecutionInv(f, hooks[e.hook])
      <4>1. hooks[e.hook] \in Lists
        BY <1>2, <3>4
      <4> HIDE DEF e, f
      <4> QED
        BY <2>1, <2>2, <3>2, <3>4, <4>1 DEF ExecutionInv
    <3> QED
      BY <3>3, <3>5
  <2>3. CASE ~(e.status = "handler" /\ ~e.own /\ e.hook \in hs)
    <3>1. f = e
      BY <1>1, <2>3
    <3>2. e.status = "handler" => ListOf(x)' = ListOf(x)
      BY <2>1, <2>3, <3>1 DEF ListOf, ExecutionInv
    <3> QED
      BY <2>1, <3>1, <3>2 DEF ExecutionInv
  <2> QED
    BY <2>2, <2>3
<1>4. execution' = [x \in Execution |-> execution'[x]]
  BY <1>1
<1> QED
  BY <1>3, <1>4 DEF HookInv

LEMMA OthersAreOrdered ==
    ASSUME NEW list \in Lists, NEW p, NEW n \in Nat, Bounded(list, n)
    PROVE  /\ Others(p, list) \in Lists /\ Bounded(Others(p, list), n)
           /\ Even(list) => Even(Others(p, list))
<1> DEFINE positions == {i \in DOMAIN list : list[i].plugin # p}
<1>1. positions \in SUBSET (1 .. Len(list))
  BY LenProperties DEF Lists
<1>2. Others(p, list) = At(list, positions)
  BY DEF Others
<1> HIDE DEF positions
<1> QED
  BY <1>1, <1>2, AtKeepsOrder

LEMMA WithoutHandlersKeeps ==
    ASSUME HookInv, NEW p, WithoutHandlersOf(p)
    PROVE  HookInv'
<1>1. /\ hooks' = [h \in HookName |-> Others(p, hooks[h])]
      /\ registered' = registered
      /\ Keeping({h \in HookName : hooks'[h] # hooks[h]})
  BY DEF WithoutHandlersOf
<1>2. registered \in Nat /\ \A h \in HookName : hooks[h] \in Lists /\ Bounded(hooks[h], registered)
  BY DEF HookInv, HooksInv
<1>3. HooksInv'
  BY <1>1, <1>2, OthersAreOrdered DEF HooksInv
<1> QED
  BY <1>1, <1>3, KeepingKeeps

LEMMA HostUnregistersKeeps ==
    ASSUME HookInv, NEW p, NEW g \in HookName, WithoutHandlers(g, p)
    PROVE  HookInv'
<1>1. /\ hooks' = [hooks EXCEPT ![g] = Others(p, hooks[g])]
      /\ registered' = registered /\ Keeping({g})
  BY DEF WithoutHandlers
<1>2. /\ registered \in Nat /\ hooks \in [HookName -> Lists]
      /\ \A h \in HookName : Bounded(hooks[h], registered)
  BY DEF HookInv, HooksInv
<1>3. HooksInv'
  BY <1>1, <1>2, OthersAreOrdered DEF HooksInv
<1>4. \A h \in HookName : h \notin {g} => hooks'[h] = hooks[h]
  BY <1>1, <1>2
<1> QED
  BY <1>1, <1>3, <1>4, KeepingKeeps

\* The steps of one execution: the hooks stay, and so do the others.
LEMMA OneExecution ==
    ASSUME HookInv, NEW x \in Execution, NEW e,
           execution' = [execution EXCEPT ![x] = e],
           UNCHANGED <<hooks, registered>>,
           ExecutionInv(e, IF e.own THEN e.list ELSE hooks[e.hook])
    PROVE  HookInv'
<1>1. HooksInv'
  BY DEF HookInv, HooksInv
<1>2. execution = [y \in Execution |-> execution[y]]
  BY DEF HookInv
<1>3. ASSUME NEW y \in Execution
      PROVE  ExecutionInv(execution[y], ListOf(y))'
  <2>1. CASE y = x
    <3>1. execution'[x] = e
      BY <1>2
    <3>2. ListOf(x)' = IF e.own THEN e.list ELSE hooks[e.hook]
      BY <3>1 DEF ListOf
    <3> QED
      BY <2>1, <3>1, <3>2
  <2>2. CASE y # x
    <3>1. execution'[y] = execution[y] /\ ListOf(y)' = ListOf(y)
      BY <1>2, <2>2 DEF ListOf
    <3> QED
      BY <3>1 DEF HookInv
  <2> QED
    BY <2>1, <2>2
<1>4. execution' = [y \in Execution |-> execution'[y]]
  BY <1>2
<1> QED
  BY <1>1, <1>3, <1>4 DEF HookInv

LEMMA ExecuteKeeps ==
    ASSUME HookInv, NEW x \in Execution, NEW h \in HookName, Execute(x, h)
    PROVE  HookInv'
<1>1. hooks[h] \in Lists
  BY DEF HookInv, HooksInv
<1>2. CASE hooks[h] = <<>>
  <2> DEFINE e == [Unstarted EXCEPT !.status = "done", !.hook = h]
  <2>1. execution' = [execution EXCEPT ![x] = e] /\ UNCHANGED <<hooks, registered>>
    BY <1>2 DEF Execute
  <2>2. /\ DOMAIN e = DOMAIN Unstarted /\ e.status = "done"
        /\ e.found = <<>> /\ e.ran = <<>>
    BY DEF Unstarted
  <2> HIDE DEF e
  <2>3. ExecutionInv(e, IF e.own THEN e.list ELSE hooks[e.hook])
    BY <2>2 DEF ExecutionInv, Ordered
  <2> QED
    BY <2>1, <2>3, OneExecution
<1>3. CASE hooks[h] # <<>>
  <2> DEFINE list == hooks[h]
             e == [Unstarted EXCEPT !.status = "handler", !.hook = h,
                                    !.found = hooks[h], !.ran = <<hooks[h][1]>>]
  <2>1. execution' = [execution EXCEPT ![x] = e] /\ UNCHANGED <<hooks, registered>>
    BY <1>3 DEF Execute
  <2>2. /\ DOMAIN e = DOMAIN Unstarted /\ e.status = "handler" /\ e.hook = h
        /\ e.own = FALSE /\ e.next = 1 /\ e.found = list /\ e.ran = <<list[1]>>
    BY DEF Unstarted
  <2>3. /\ list \in Seq(Handler) /\ Len(list) \in Nat \ {0} /\ list[1] \in Handler
    BY <1>1, <1>3, EmptySeq, ElementOfSeq, LenProperties DEF Lists
  <2> HIDE DEF e, list
  <2>4. /\ e.ran \in Seq(Handler) /\ Len(e.ran) = 1 /\ e.ran[1] = list[1]
    BY <2>2, <2>3
  <2>5. Ordered(e.ran)
    BY <2>4 DEF Ordered
  <2>6. ASSUME NEW i \in 1 .. Len(list)
        PROVE  Meets(e, list, list[i])
    <3>1. CASE i = 1
      BY <2>4, <3>1 DEF Meets
    <3>2. CASE i # 1
      BY <2>2, <2>3, <3>2 DEF Meets
    <3> QED
      BY <3>1, <3>2
  <2>7. GoesThrough(e, list)
    BY <2>2, <2>3, <2>4, <2>6 DEF GoesThrough
  <2>8. ExecutionInv(e, list)
    BY <2>2, <2>3, <2>4, <2>5, <2>7 DEF ExecutionInv
  <2> QED
    BY <2>1, <2>2, <2>8, OneExecution DEF list
<1> QED
  BY <1>2, <1>3

\* The next handler: what was to come is called, or is still to come.
LEMMA CallNextKeeps ==
    ASSUME HookInv, NEW x \in Execution, execution[x].status = "handler", CallNext(x)
    PROVE  HookInv'
<1> DEFINE e == execution[x]
           list == ListOf(x)
           i == e.next + 1
<1>1. /\ ExecutionInv(e, list) /\ e.status = "handler"
      /\ UNCHANGED <<hooks, registered>>
      /\ execution' = [execution EXCEPT ![x] =
             IF i <= Len(list) THEN [e EXCEPT !.next = i, !.ran = Append(e.ran, list[i])]
             ELSE [e EXCEPT !.status = "done"]]
  <2>1. ExecutionInv(e, list)
    BY DEF HookInv
  <2>2. /\ e.status = "handler" /\ UNCHANGED <<hooks, registered>>
        /\ execution' = [execution EXCEPT ![x] =
             IF i <= Len(list) THEN [e EXCEPT !.next = i, !.ran = Append(e.ran, list[i])]
             ELSE [e EXCEPT !.status = "done"]]
    BY DEF CallNext
  <2> QED
    BY <2>1, <2>2
<1>2. list \in Lists
  BY <1>1 DEF HookInv, HooksInv, ExecutionInv, ListOf
<1>3. /\ e.ran \in Seq(Handler) /\ e.found \in Seq(Handler)
      /\ ~e.shifted => Ordered(e.ran)
      /\ list \in Seq(Handler) /\ Ordered(list)
      /\ GoesThrough(e, list) /\ e.hook \in HookName /\ e.own \in BOOLEAN
      /\ e.own => e.list \in Lists
      /\ DOMAIN e = DOMAIN Unstarted
  BY <1>1, <1>2 DEF ExecutionInv, Lists
<1>4. /\ Len(list) \in Nat /\ e.next \in 1 .. Len(list) /\ Len(e.ran) \in Nat
      /\ Len(e.found) \in Nat
      /\ ~e.shifted => Len(e.ran) = e.next /\ \A n \in 1 .. e.next : e.ran[n] = list[n]
      /\ \A n \in 1 .. Len(e.found) : Meets(e, list, e.found[n])
  BY <1>3, LenProperties DEF GoesThrough
<1>5. list = IF e.own THEN e.list ELSE hooks[e.hook]
  BY DEF ListOf
<1> HIDE DEF list
<1>6. CASE i <= Len(list)
  <2> DEFINE f == [e EXCEPT !.next = i, !.ran = Append(e.ran, list[i])]
  <2>1. /\ f.next = i /\ f.ran = Append(e.ran, list[i]) /\ f.status = "handler"
        /\ f.found = e.found /\ f.hook = e.hook /\ f.own = e.own /\ f.list = e.list
        /\ f.shifted = e.shifted /\ DOMAIN f = DOMAIN Unstarted
    BY <1>1, <1>3 DEF Unstarted
  <2> HIDE DEF f, e
  <2>2. list[i] \in Handler /\ i \in 1 .. Len(list)
    BY <1>3, <1>4, <1>6, ElementOfSeq
  <2>3. /\ f.ran \in Seq(Handler) /\ Len(f.ran) = Len(e.ran) + 1
        /\ \A n \in 1 .. Len(e.ran) : f.ran[n] = e.ran[n]
        /\ f.ran[Len(e.ran) + 1] = list[i]
    BY <1>3, <1>4, <2>1, <2>2, AppendProperties
  <2>4. ASSUME ~f.shifted
        PROVE  Len(f.ran) = i /\ \A n \in 1 .. i : f.ran[n] = list[n]
    <3>1. Len(e.ran) = e.next /\ \A n \in 1 .. e.next : e.ran[n] = list[n]
      BY <1>4, <2>1, <2>4
    <3>2. \A n \in 1 .. i : n \in 1 .. e.next \/ n = Len(e.ran) + 1
      BY <1>4, <3>1
    <3> QED
      BY <2>3, <3>1, <3>2
  <2>5. ASSUME ~f.shifted
        PROVE  Ordered(f.ran)
    <3>1. i \in Nat /\ i <= Len(list)
      BY <1>4, <1>6
    <3> HIDE DEF i
    <3>2. ASSUME NEW m \in 1 .. i, NEW n \in 1 .. i, m < n
          PROVE  Precedes(f.ran[m], f.ran[n])
      <4>1. m \in 1 .. Len(list) /\ n \in 1 .. Len(list)
        BY <1>4, <3>1
      <4>2. Precedes(list[m], list[n])
        BY <1>3, <3>2, <4>1 DEF Ordered
      <4> QED
        BY <2>4, <2>5, <4>2
    <3> QED
      BY <2>4, <2>5, <3>2 DEF Ordered
  <2>6. ASSUME NEW n \in 1 .. Len(f.found)
        PROVE  Meets(f, list, f.found[n])
    <3> DEFINE d == e.found[n]
    <3>1. f.found[n] = d /\ Meets(e, list, d)
      BY <1>4, <2>1
    <3> HIDE DEF d
    <3>2. ASSUME NEW j \in 1 .. Len(e.ran), e.ran[j] = d
          PROVE  Meets(f, list, d)
      <4>1. j \in 1 .. Len(f.ran) /\ f.ran[j] = d
        BY <1>4, <2>3, <3>2
      <4> QED
        BY <4>1 DEF Meets
    <3>3. ASSUME NEW j \in 1 .. Len(list), j > e.next, list[j] = d
          PROVE  Meets(f, list, d)
      <4>1. CASE j = i
        <5>1. Len(e.ran) + 1 \in 1 .. Len(f.ran) /\ f.ran[Len(e.ran) + 1] = d
          BY <1>4, <2>3, <3>3, <4>1
        <5> QED
          BY <5>1 DEF Meets
      <4>2. CASE j # i
        <5>1. j > f.next
          BY <1>4, <2>1, <3>3, <4>2
        <5> QED
          BY <3>3, <5>1 DEF Meets
      <4> QED
        BY <4>1, <4>2
    <3> QED
      BY <3>1, <3>2, <3>3 DEF Meets
  <2>7. GoesThrough(f, list)
    BY <2>1, <2>2, <2>4, <2>6 DEF GoesThrough
  <2>8. ExecutionInv(f, list)
    BY <1>3, <2>1, <2>3, <2>5, <2>7 DEF ExecutionInv
  <2>9. execution' = [execution EXCEPT ![x] = f]
    BY <1>1, <1>6 DEF f
  <2> QED
    BY <1>1, <1>5, <2>1, <2>8, <2>9, OneExecution
<1>7. CASE ~(i <= Len(list))
  <2> DEFINE f == [e EXCEPT !.status = "done"]
  <2>1. /\ f.status = "done" /\ f.ran = e.ran /\ f.found = e.found
        /\ f.shifted = e.shifted /\ DOMAIN f = DOMAIN Unstarted
    BY <1>1, <1>3 DEF Unstarted
  <2>2. execution' = [execution EXCEPT ![x] = f]
    BY <1>1, <1>7
  <2> HIDE DEF f, e
  <2>3. \A n \in 1 .. Len(e.found) : \E j \in 1 .. Len(e.ran) : e.ran[j] = e.found[n]
    <3>1. \A j \in 1 .. Len(list) : ~(j > e.next)
      BY <1>4, <1>7
    <3> QED
      BY <1>4, <3>1 DEF Meets
  <2>4. ExecutionInv(f, IF f.own THEN f.list ELSE hooks[f.hook])
    BY <1>3, <2>1, <2>3 DEF ExecutionInv
  <2> QED
    BY <1>1, <2>2, <2>4, OneExecution
<1> QED
  BY <1>6, <1>7

LEMMA HandlerThrowsKeeps ==
    ASSUME HookInv, NEW x \in Execution, HandlerThrows(x)
    PROVE  HookInv'
<1>1. CASE CallNext(x)
  BY <1>1, CallNextKeeps DEF HandlerThrows
<1>2. CASE ~CallNext(x)
  <2> DEFINE f == [execution[x] EXCEPT !.status = "threw"]
  <2>1. ExecutionInv(execution[x], ListOf(x))
    BY DEF HookInv
  <2>2. execution' = [execution EXCEPT ![x] = f] /\ UNCHANGED <<hooks, registered>>
    BY <1>2 DEF HandlerThrows
  <2>3. /\ f.status = "threw" /\ f.ran = execution[x].ran /\ f.found = execution[x].found
        /\ f.shifted = execution[x].shifted /\ DOMAIN f = DOMAIN Unstarted
    BY <2>1 DEF ExecutionInv, Unstarted
  <2> HIDE DEF f
  <2>4. ExecutionInv(f, IF f.own THEN f.list ELSE hooks[f.hook])
    BY <2>1, <2>3 DEF ExecutionInv
  <2> QED
    BY <2>2, <2>4, OneExecution
<1> QED
  BY <1>1, <1>2

LEMMA HooksUntouched ==
    ASSUME HookInv, UNCHANGED hookVars
    PROVE  HookInv'
  BY DEF HookInv, HooksInv, hookVars, ListOf

LEMMA UnstartedIsSound == \A list : ExecutionInv(Unstarted, list)
<1>1. /\ Unstarted.status = "none" /\ Unstarted.found = <<>> /\ Unstarted.ran = <<>>
      /\ DOMAIN Unstarted = DOMAIN Unstarted
  BY DEF Unstarted
<1> QED
  BY <1>1 DEF ExecutionInv, Ordered

LEMMA HookStart ==
    ASSUME scenario \in Scenarios,
           hooks = [h \in HookName |-> FirstHandlers(h)],
           registered = Len(scenario.plugins),
           execution = [x \in Execution |-> Unstarted]
    PROVE  HookInv /\ PlainInv
<1>1. Len(scenario.plugins) \in Nat
  BY PluginAssumption, LenProperties
<1>2. HooksInv
  BY <1>1, FirstHandlersAreOrdered DEF HooksInv
<1>3. PlainInv
  BY FirstHandlersAreOrdered DEF PlainInv, Unstarted
<1> QED
  BY <1>2, <1>3, UnstartedIsSound DEF HookInv

LEMMA HookRestart ==
    ASSUME scenario \in Scenarios, scenario' = scenario,
           hooks' = [h \in HookName |-> FirstHandlers(h)],
           registered' = Len(scenario.plugins),
           execution' = [x \in Execution |-> Unstarted]
    PROVE  HookInv' /\ PlainInv'
<1>1. Len(scenario.plugins) \in Nat
  BY PluginAssumption, LenProperties
<1>2. HooksInv'
  BY <1>1, FirstHandlersAreOrdered DEF HooksInv
<1>3. PlainInv'
  BY FirstHandlersAreOrdered DEF PlainInv, Unstarted
<1> QED
  BY <1>2, <1>3, UnstartedIsSound DEF HookInv

-----------------------------------------------------------------------------
(* Handlers of plugins alone. *)

LEMMA PluginsKeepEven ==
    ASSUME HookInv, PlainInv, NEW p \in Plugin, WithHandlersOf(p), UNCHANGED scenario
    PROVE  PlainInv'
<1> SUFFICES ASSUME "handle" \notin scenario.ops
             PROVE  /\ \A h \in HookName : Even(hooks'[h])
                    /\ \A x \in Execution : ~execution'[x].shifted
  BY DEF PlainInv
<1> DEFINE e == New(p, 0, "throw")
           hs == HooksOf[p]
<1>1. e \in Handler /\ e.priority = 0
  BY NewHandler, HookAssumption DEF HookInv, ErrorPolicy
<1>2. \A h \in HookName : hooks[h] \in Lists /\ Even(hooks[h])
  BY DEF PlainInv, HookInv, HooksInv
<1>3. WithHandler(hs, e)
  BY DEF WithHandlersOf
<1> HIDE DEF e, hs
<1>4. ASSUME NEW h \in HookName
      PROVE  /\ Place(hooks[h], e) = Len(hooks[h]) + 1 /\ Len(hooks[h]) \in Nat
             /\ Even(Sorted(hooks[h], e))
  <2> DEFINE list == hooks[h]
             s == Sorted(list, e)
             k == Place(list, e)
             n == Len(list)
  <2>1. list \in Lists /\ Even(list) /\ n \in Nat
    BY <1>2, LenProperties DEF Lists
  <2>2. /\ k \in 1 .. n + 1 /\ Len(s) = n + 1 /\ s[k] = e
        /\ \A i \in 1 .. n : i < k <=> list[i].priority <= e.priority
        /\ \A i \in 1 .. n : (i < k => s[i] = list[i])
    BY <1>1, <2>1, SortedFacts
  <2> HIDE DEF list, s, k
  <2>3. \A i \in 1 .. n : i < k
    BY <1>1, <2>1, <2>2 DEF Even
  <2>4. k = n + 1
    <3>1. CASE n = 0
      BY <2>1, <2>2, <3>1
    <3>2. CASE n # 0
      <4>1. n \in 1 .. n
        BY <2>1, <3>2
      <4> QED
        BY <2>1, <2>2, <2>3, <4>1
    <3> QED
      BY <3>1, <3>2
  <2>5. \A i \in 1 .. n + 1 : s[i].priority = 0
    <3>1. \A i \in 1 .. n + 1 : i \in 1 .. n \/ i = n + 1
      BY <2>1
    <3> QED
      BY <1>1, <2>1, <2>2, <2>3, <2>4, <3>1 DEF Even
  <2>6. Even(s)
    BY <2>2, <2>5 DEF Even
  <2> QED
    BY <2>1, <2>4, <2>6 DEF list, s, k
<1>5. ASSUME NEW h \in HookName
      PROVE  Even(hooks'[h])
  BY <1>2, <1>3, <1>4 DEF WithHandler
<1>6. ASSUME NEW x \in Execution
      PROVE  ~execution'[x].shifted
  <2> DEFINE r == execution[x]
  <2>1. ~r.shifted /\ ExecutionInv(r, ListOf(x))
    BY DEF PlainInv, HookInv
  <2>2. CASE r.status = "handler" /\ ~r.own
    <3>1. r.hook \in HookName /\ r.next \in 1 .. Len(hooks[r.hook])
      BY <2>1, <2>2 DEF ExecutionInv, GoesThrough, ListOf
    <3>2. ~(Place(hooks[r.hook], e) <= r.next)
      BY <1>4, <3>1
    <3> QED
      BY <1>3, <2>1, <3>2 DEF WithHandler
  <2>3. CASE ~(r.status = "handler" /\ ~r.own)
    BY <1>3, <2>1, <2>3 DEF WithHandler
  <2> QED
    BY <2>2, <2>3
<1> QED
  BY <1>5, <1>6

LEMMA LeavingKeepsEven ==
    ASSUME HookInv, PlainInv, NEW p, WithoutHandlersOf(p), UNCHANGED scenario
    PROVE  PlainInv'
<1>1. ASSUME NEW h \in HookName, Even(hooks[h])
      PROVE  Even(hooks'[h])
  BY <1>1, OthersAreOrdered DEF WithoutHandlersOf, HookInv, HooksInv
<1>2. ASSUME NEW x \in Execution, ~execution[x].shifted
      PROVE  ~execution'[x].shifted
  <2> DEFINE r == execution[x]
             t == execution'[x]
  <2>1. DOMAIN r = DOMAIN Unstarted
    BY DEF HookInv, ExecutionInv
  <2>2. t = r \/ t = [r EXCEPT !.own = TRUE, !.list = hooks[r.hook]]
    BY DEF WithoutHandlersOf, Keeping
  <2> HIDE DEF r, t
  <2>3. t.shifted = r.shifted
    BY <2>1, <2>2 DEF Unstarted
  <2> QED
    BY <1>2, <2>3 DEF r, t
<1> QED
  BY <1>1, <1>2 DEF PlainInv

LEMMA ExecutionsKeepEven ==
    ASSUME HookInv, PlainInv, NEW x \in Execution, UNCHANGED scenario,
           HandlerReturns(x) \/ HandlerThrows(x) \/ \E h \in HookName : Execute(x, h)
    PROVE  PlainInv'
<1> DEFINE e == execution[x]
<1>1. DOMAIN e = DOMAIN Unstarted /\ execution = [y \in Execution |-> execution[y]]
  BY DEF HookInv, ExecutionInv
<1>2. PICK r : /\ hooks' = hooks /\ execution' = [execution EXCEPT ![x] = r]
               /\ r.shifted => e.shifted
  <2>1. CASE CallNext(x)
    <3> DEFINE i == e.next + 1
               f == [e EXCEPT !.next = i, !.ran = Append(e.ran, ListOf(x)[i])]
               g == [e EXCEPT !.status = "done"]
    <3>1. f.shifted = e.shifted /\ g.shifted = e.shifted
      BY <1>1 DEF Unstarted
    <3>2. hooks' = hooks /\ execution' = [execution EXCEPT ![x] = IF i <= Len(ListOf(x)) THEN f ELSE g]
      BY <2>1 DEF CallNext
    <3> HIDE DEF f, g, e
    <3> QED
      BY <3>1, <3>2
  <2>2. CASE HandlerThrows(x) /\ ~CallNext(x)
    <3> DEFINE g == [e EXCEPT !.status = "threw"]
    <3>1. g.shifted = e.shifted
      BY <1>1 DEF Unstarted
    <3>2. hooks' = hooks /\ execution' = [execution EXCEPT ![x] = g]
      BY <2>2 DEF HandlerThrows
    <3> HIDE DEF g, e
    <3> QED
      BY <3>1, <3>2
  <2>3. ASSUME NEW h \in HookName, Execute(x, h)
        PROVE  \E r : /\ hooks' = hooks /\ execution' = [execution EXCEPT ![x] = r]
                      /\ r.shifted => e.shifted
    <3> DEFINE f == [Unstarted EXCEPT !.status = "done", !.hook = h]
               g == [Unstarted EXCEPT !.status = "handler", !.hook = h,
                                      !.found = hooks[h], !.ran = <<hooks[h][1]>>]
    <3>1. ~f.shifted /\ ~g.shifted
      BY DEF Unstarted
    <3>2. hooks' = hooks /\ execution' = [execution EXCEPT ![x] = IF hooks[h] = <<>> THEN f ELSE g]
      BY <2>3 DEF Execute
    <3> HIDE DEF f, g, e
    <3> QED
      BY <3>1, <3>2
  <2> QED
    BY <2>1, <2>2, <2>3 DEF HandlerReturns
<1>3. \A y \in Execution : execution'[y].shifted => execution[y].shifted
  BY <1>1, <1>2
<1> QED
  BY <1>2, <1>3 DEF PlainInv

LEMMA HookInvImplies == HookInv /\ PlainInv => HandlersRunOnce
<1> SUFFICES ASSUME HookInv, PlainInv, NEW x \in Execution
             PROVE  /\ execution[x].status = "done" =>
                         ToSet(execution[x].found) \subseteq ToSet(execution[x].ran)
                    /\ "handle" \notin scenario.ops \/ ~execution[x].shifted =>
                         \A i, j \in DOMAIN execution[x].ran :
                            i < j => Precedes(execution[x].ran[i], execution[x].ran[j])
  BY DEF HandlersRunOnce
<1> DEFINE e == execution[x]
           found == e.found
           ran == e.ran
<1>1. /\ ran \in Seq(Handler) /\ found \in Seq(Handler)
      /\ ~e.shifted => Ordered(ran)
      /\ e.status = "done" =>
           \A i \in 1 .. Len(found) : \E j \in 1 .. Len(ran) : ran[j] = found[i]
      /\ "handle" \notin scenario.ops => ~e.shifted
  BY DEF HookInv, ExecutionInv, PlainInv
<1> HIDE DEF found, ran
<1>2. DOMAIN ran = 1 .. Len(ran) /\ DOMAIN found = 1 .. Len(found)
  BY <1>1, LenProperties
<1>3. ToSet(ran) = {ran[i] : i \in DOMAIN ran} /\ ToSet(found) = {found[i] : i \in DOMAIN found}
  BY DEF ToSet
<1>4. e.status = "done" => ToSet(found) \subseteq ToSet(ran)
  BY <1>1, <1>2, <1>3
<1>5. "handle" \notin scenario.ops \/ ~e.shifted =>
         \A i, j \in DOMAIN ran : i < j => Precedes(ran[i], ran[j])
  BY <1>1, <1>2 DEF Ordered
<1> QED
  BY <1>4, <1>5 DEF found, ran

\* Whatever the manager, plugins, hosts and executions do, each step leaves the
\* handlers alone or is one of the operations above.
LEMMA HooksKept ==
    ASSUME scenario \in Scenarios, HookInv, PlainInv, [Next]_vars
    PROVE  scenario' \in Scenarios /\ HookInv' /\ PlainInv'
<1> USE DEF Happens, Goes
<1>0. UNCHANGED <<scenario, hookVars>> => scenario' \in Scenarios /\ HookInv' /\ PlainInv'
  BY HooksUntouched DEF PlainInv, hookVars
<1>1. ASSUME NEW p \in Plugin, Register(p) \/ Enable(p)
      PROVE  scenario' \in Scenarios /\ HookInv' /\ PlainInv'
  <2>1. UNCHANGED scenario /\ (WithHandlersOf(p) \/ UNCHANGED hookVars)
    BY <1>1 DEF Register, Enable
  <2>2. CASE WithHandlersOf(p)
    <3>1. /\ New(p, 0, "throw") \in Handler /\ New(p, 0, "throw").serial = registered + 1
      BY NewHandler, HookAssumption DEF HookInv, ErrorPolicy
    <3>2. HookInv'
      BY <2>2, <3>1, WithHandlerKeeps DEF WithHandlersOf
    <3> QED
      BY <2>1, <2>2, <3>2, PluginsKeepEven
  <2> QED
    BY <1>0, <2>1, <2>2
<1>2. ASSUME NEW p \in Plugin, Unregister(p) \/ Disable(p)
      PROVE  scenario' \in Scenarios /\ HookInv' /\ PlainInv'
  <2>1. UNCHANGED scenario /\ WithoutHandlersOf(p)
    BY <1>2 DEF Unregister, Disable
  <2> QED
    BY <2>1, WithoutHandlersKeeps, LeavingKeepsEven
<1>3. ASSUME NEW c \in Caller,
             \/ Initialize(c) \/ InitializeRefused(c) \/ PluginReady(c)
             \/ PluginFails(c) \/ Dispose(c) \/ Flush(c)
      PROVE  scenario' \in Scenarios /\ HookInv' /\ PlainInv'
  <2>1. UNCHANGED <<scenario, hookVars>>
    BY <1>3 DEF Initialize, InitializeRefused, PluginReady, PluginFails, Dispose, Flush
  <2> QED
    BY <1>0, <2>1
<1>4. ASSUME NEW c \in Caller, PluginDisposed(c)
      PROVE  scenario' \in Scenarios /\ HookInv' /\ PlainInv'
  <2>1. UNCHANGED scenario /\ \E p : WithoutHandlersOf(p)
    BY <1>4 DEF PluginDisposed
  <2> QED
    BY <2>1, WithoutHandlersKeeps, LeavingKeepsEven
<1>5. ASSUME NEW o \in Owner, SetState(o) \/ ClearState(o) \/ StoreStep(o)
      PROVE  scenario' \in Scenarios /\ HookInv' /\ PlainInv'
  <2>1. UNCHANGED <<scenario, hookVars>>
    BY <1>5 DEF SetState, ClearState, StoreStep
  <2> QED
    BY <1>0, <2>1
<1>6. ASSUME NEW x \in Execution, HookStep(x) \/ \E h \in HookName : ExecuteHook(x, h)
      PROVE  scenario' \in Scenarios /\ HookInv' /\ PlainInv'
  <2>1. /\ UNCHANGED scenario
        /\ HandlerReturns(x) \/ HandlerThrows(x) \/ \E h \in HookName : Execute(x, h)
    BY <1>6 DEF HookStep, ExecuteHook
  <2>2. HookInv'
    BY <2>1, ExecuteKeeps, CallNextKeeps, HandlerThrowsKeeps DEF HandlerReturns
  <2> QED
    BY <2>1, <2>2, ExecutionsKeepEven
<1>7. ASSUME NEW h \in HookName, NEW p \in Plugin,
             \/ HostUnregisters(h, p)
             \/ \E i \in Priority, e \in ErrorPolicy : HostRegisters(h, p, i, e)
      PROVE  scenario' \in Scenarios /\ HookInv' /\ PlainInv'
  <2>1. UNCHANGED scenario /\ "handle" \in scenario.ops
    BY <1>7 DEF HostUnregisters, HostRegisters
  <2>2. PlainInv'
    BY <2>1 DEF PlainInv
  <2>3. CASE HostUnregisters(h, p)
    BY <2>1, <2>2, <2>3, HostUnregistersKeeps DEF HostUnregisters
  <2>4. ASSUME NEW i \in Priority, NEW e \in ErrorPolicy, HostRegisters(h, p, i, e)
        PROVE  HookInv'
    <3>1. New(p, i, e) \in Handler /\ New(p, i, e).serial = registered + 1
      BY NewHandler DEF HookInv
    <3> QED
      BY <2>4, <3>1, WithHandlerKeeps DEF HostRegisters
  <2> QED
    BY <1>7, <2>1, <2>2, <2>3, <2>4
<1>8. CASE Crash
  <2>1. order' = scenario.plugins
    BY <1>8 DEF Crash
  <2> QED
    BY <1>8, <2>1, HookRestart DEF Crash
<1>9. CASE UNCHANGED vars
  BY <1>0, <1>9 DEF vars
<1> QED
  BY <1>1, <1>2, <1>3, <1>4, <1>5, <1>6, <1>7, <1>8, <1>9 DEF Next

\* An execution that is done has called all handlers that were there when it
\* started, whatever is registered and unregistered meanwhile; it calls them by
\* priority and registration, each once, if only plugins have handlers, or
\* unless one gets in before the handler under way (hooks/index.ts:42-93,
\* 104-154, plugins/index.ts:521-534).
THEOREM HooksRunInOrder == Spec => []HandlersRunOnce
<1> DEFINE Inv == scenario \in Scenarios /\ HookInv /\ PlainInv
<1>1. Init => Inv
  <2>1. Init => registered = Len(scenario.plugins)
    BY DEF Init
  <2> QED
    BY <2>1, HookStart DEF Init
<1>2. Inv /\ [Next]_vars => Inv'
  BY HooksKept
<1>3. Inv => HandlersRunOnce
  BY HookInvImplies
<1> QED
  BY <1>1, <1>2, <1>3, PTL DEF Spec

-----------------------------------------------------------------------------
(* The store: each operation keeps StoreInv, and what has settled. *)

\* What a flush may wait for settles in the next state too.
StaysSettled(o) ==
    /\ saves[o] <= saves'[o]
    /\ \A n \in Nat : n <= saves[o] /\ Settles(o, n) => Settles(o, n)'

\* Settles, of a save that this state names, in the next state.
SettlesNext(o, n) == n = 0 \/ n \in Pending(o)' \/ file'[o] >= n \/ failed'[o] >= n

StoreKept == StoreInv' /\ \A o \in Owner : StaysSettled(o)

LEMMA OwnerUntouched ==
    ASSUME StoreInv, NEW o \in Owner,
           UNCHANGED <<cached[o], file[o], chain[o], writing[o], saves[o], made[o],
                       failed[o], flushed[o]>>
    PROVE  OwnerInv(o)' /\ StaysSettled(o)
  BY DEF StoreInv, StoreTypes, OwnerInv, Numbered, MemoryInv, WritingInv, Settles, Covers, Pending,
         StaysSettled

\* A step that changes what the store has of one plugin.
LEMMA OneOwner ==
    ASSUME StoreInv, StoreTypes', NEW o \in Owner, OwnerInv(o)', StaysSettled(o),
           \A q \in Owner \ {o} :
              UNCHANGED <<cached[q], file[q], chain[q], writing[q], saves[q], made[q],
                          failed[q], flushed[q]>>
    PROVE  StoreKept
<1>1. ASSUME NEW q \in Owner
      PROVE  OwnerInv(q)' /\ StaysSettled(q)
  <2>1. CASE q = o
    BY <2>1
  <2>2. CASE q # o
    BY <2>2, OwnerUntouched
  <2> QED
    BY <2>1, <2>2
<1> QED
  BY <1>1 DEF StoreKept, StoreInv

LEMMA StoreUntouched ==
    ASSUME StoreInv, UNCHANGED storeVars
    PROVE  StoreKept
<1>1. StoreTypes'
  BY DEF StoreInv, StoreTypes, storeVars
<1>2. \A o \in Owner : OwnerInv(o)' /\ StaysSettled(o)
  BY OwnerUntouched DEF storeVars
<1> QED
  BY <1>1, <1>2 DEF StoreKept, StoreInv

\* The saves that are pending when one more is made, and when one is over.
LEMMA PendingAfter ==
    ASSUME NEW o \in Owner, chain[o] \in Seq(Nat)
    PROVE  /\ \A n \in Nat : chain'[o] = Append(chain[o], n) =>
                Pending(o)' = Pending(o) \cup {n}
           /\ chain[o] # <<>> =>
                /\ Head(chain[o]) \in Pending(o)
                /\ Head(chain[o]) \in Nat
                /\ Tail(chain[o]) \in Seq(Nat)
                /\ chain'[o] = Tail(chain[o]) =>
                     /\ Pending(o)' \subseteq Pending(o)
                     /\ Pending(o) \subseteq Pending(o)' \cup {Head(chain[o])}
           /\ Pending(o) \subseteq Nat
<1>1. Len(chain[o]) \in Nat /\ \A i \in 1 .. Len(chain[o]) : chain[o][i] \in Nat
  BY LenProperties, ElementOfSeq
<1>2. ASSUME NEW n \in Nat, chain'[o] = Append(chain[o], n)
      PROVE  Pending(o)' = Pending(o) \cup {n}
  <2>1. /\ Len(chain'[o]) = Len(chain[o]) + 1
        /\ \A i \in 1 .. Len(chain[o]) : chain'[o][i] = chain[o][i]
        /\ chain'[o][Len(chain[o]) + 1] = n
    BY <1>2, AppendProperties
  <2>2. \A m : m \in Pending(o)' <=> \E i \in 1 .. Len(chain'[o]) : m = chain'[o][i]
    BY DEF Pending
  <2>3. \A m : m \in Pending(o) <=> \E i \in 1 .. Len(chain[o]) : m = chain[o][i]
    BY DEF Pending
  <2>4. \A i : i \in 1 .. Len(chain'[o]) <=>
                 i \in 1 .. Len(chain[o]) \/ i = Len(chain[o]) + 1
    BY <1>1, <2>1
  <2> QED
    BY <2>1, <2>2, <2>3, <2>4
<1>3. ASSUME chain[o] # <<>>
      PROVE  /\ Head(chain[o]) \in Pending(o)
             /\ Head(chain[o]) \in Nat
             /\ Tail(chain[o]) \in Seq(Nat)
             /\ chain'[o] = Tail(chain[o]) =>
                  /\ Pending(o)' \subseteq Pending(o)
                  /\ Pending(o) \subseteq Pending(o)' \cup {Head(chain[o])}
  <2>1. Len(chain[o]) \in Nat \ {0}
    BY <1>3, EmptySeq
  <2>2. Head(chain[o]) = chain[o][1]
    BY <1>3
  <2>3. /\ Len(Tail(chain[o])) = Len(chain[o]) - 1 /\ Tail(chain[o]) \in Seq(Nat)
        /\ \A i \in 1 .. Len(Tail(chain[o])) : Tail(chain[o])[i] = chain[o][i + 1]
    BY <1>3, HeadTailProperties
  <2>4. ASSUME chain'[o] = Tail(chain[o])
        PROVE  /\ Pending(o)' \subseteq Pending(o)
               /\ Pending(o) \subseteq Pending(o)' \cup {Head(chain[o])}
    <3>1. \A i \in 1 .. Len(chain[o]) - 1 : chain'[o][i] = chain[o][i + 1]
      BY <2>3, <2>4
    <3>2. \A i \in 1 .. Len(chain[o]) - 1 : i + 1 \in 1 .. Len(chain[o])
      BY <2>1
    <3>3. ASSUME NEW i \in 1 .. Len(chain[o])
          PROVE  i = 1 \/ \E j \in 1 .. Len(chain[o]) - 1 : i = j + 1
      <4>1. i # 1 => i - 1 \in 1 .. Len(chain[o]) - 1 /\ i = (i - 1) + 1
        BY <2>1
      <4> QED
        BY <4>1
    <3>4. Len(chain'[o]) = Len(chain[o]) - 1
      BY <2>3, <2>4
    <3>5. \A m : m \in Pending(o)' <=> \E i \in 1 .. Len(chain[o]) - 1 : m = chain'[o][i]
      BY <3>4 DEF Pending
    <3>6. \A m : m \in Pending(o) <=> \E i \in 1 .. Len(chain[o]) : m = chain[o][i]
      BY DEF Pending
    <3>7. Pending(o)' \subseteq Pending(o)
      BY <3>1, <3>2, <3>5, <3>6
    <3>8. ASSUME NEW m \in Pending(o)
          PROVE  m \in Pending(o)' \cup {Head(chain[o])}
      <4>1. PICK i \in 1 .. Len(chain[o]) : m = chain[o][i]
        BY <3>6
      <4>2. CASE i = 1
        BY <2>2, <4>1, <4>2
      <4>3. CASE i # 1
        <5>1. PICK j \in 1 .. Len(chain[o]) - 1 : i = j + 1
          BY <3>3, <4>3
        <5>2. m = chain'[o][j]
          BY <3>1, <4>1, <5>1
        <5> QED
          BY <3>5, <5>2
      <4> QED
        BY <4>2, <4>3
    <3> QED
      BY <3>7, <3>8
  <2>5. 1 \in 1 .. Len(chain[o])
    BY <2>1
  <2>6. Head(chain[o]) \in Pending(o) /\ Head(chain[o]) \in Nat
    BY <1>1, <2>2, <2>5 DEF Pending
  <2> QED
    BY <2>3, <2>4, <2>6
<1> QED
  BY <1>1, <1>2, <1>3 DEF Pending

\* The invariant of one plugin, with its values at hand.
LEMMA OwnerValues ==
    ASSUME StoreInv, NEW o \in Owner
    PROVE  /\ cached[o] \in Marks /\ file[o] \in Marks /\ chain[o] \in Seq(Nat)
           /\ writing[o] \in [phase : {"none", "mkdir", "write", "rename"},
                              data : Marks, dir : BOOLEAN]
           /\ clearing[o] \in BOOLEAN
           /\ saves[o] \in Nat /\ made[o] \in Nat /\ failed[o] \in Nat /\ flushed[o] \in Nat
           /\ Numbered(o) /\ MemoryInv(o) /\ WritingInv(o)
           /\ Settles(o, made[o]) /\ Covers(o, file[o], flushed[o])
           /\ Pending(o) \subseteq Nat
<1>1. chain[o] \in Seq(Nat)
  BY DEF StoreInv, StoreTypes
<1> QED
  BY <1>1, PendingAfter DEF StoreInv, StoreTypes, OwnerInv

LEMMA LoadKeeps ==
    ASSUME StoreInv, NEW ps, LoadState(ps)
    PROVE  StoreKept
<1>1. StoreTypes'
  BY DEF StoreInv, StoreTypes, LoadState, Marks
<1>2. ASSUME NEW o \in Owner
      PROVE  OwnerInv(o)' /\ StaysSettled(o)
  <2>1. /\ UNCHANGED <<file[o], chain[o], writing[o], saves[o], made[o], failed[o], flushed[o]>>
        /\ cached'[o] = IF o \notin ps \/ cached[o] # Absent THEN cached[o]
                        ELSE IF file[o] # Absent THEN file[o] ELSE 0
    BY DEF LoadState
  <2>2. CASE cached'[o] = cached[o]
    BY <2>1, <2>2, OwnerUntouched
  <2>3. CASE cached'[o] # cached[o]
    <3>1. cached[o] = Absent /\ cached'[o] # Absent /\ cached'[o] >= file[o]
          /\ cached'[o] <= saves[o]
      BY <2>1, <2>3, OwnerValues DEF Absent, Marks, Numbered
    <3>2. UNCHANGED Pending(o)
      BY <2>1 DEF Pending
    <3>3. Numbered(o)'
      BY <2>1, <3>1, <3>2, OwnerValues DEF Numbered
    <3>4. MemoryInv(o)'
      BY <2>1, <3>1, <3>2, OwnerValues DEF MemoryInv, Covers
    <3>5. WritingInv(o)' /\ Settles(o, made[o])' /\ Covers(o, file[o], flushed[o])'
      BY <2>1, <3>2, OwnerValues DEF WritingInv, Settles, Covers
    <3> QED
      BY <2>1, <3>2, <3>3, <3>4, <3>5, OwnerValues DEF OwnerInv, StaysSettled, Settles, Covers
  <2> QED
    BY <2>2, <2>3
<1> QED
  BY <1>1, <1>2 DEF StoreKept, StoreInv

LEMMA SaveKeeps ==
    ASSUME StoreInv, NEW o \in Owner, Save(o)
    PROVE  StoreKept
<1> DEFINE n == saves[o] + 1
<1>1. n \in Nat /\ Append(chain[o], n) \in Seq(Nat)
  BY OwnerValues, AppendProperties
<1>2. StoreTypes'
  BY <1>1 DEF StoreInv, StoreTypes, Save, Marks
<1>3. \A q \in Owner \ {o} :
          UNCHANGED <<cached[q], file[q], chain[q], writing[q], saves[q], made[q],
                      failed[q], flushed[q]>>
  BY DEF Save, StoreInv, StoreTypes
<1>4. /\ cached'[o] = n /\ saves'[o] = n /\ made'[o] = n /\ chain'[o] = Append(chain[o], n)
      /\ UNCHANGED <<file[o], writing[o], failed[o], flushed[o]>>
  BY DEF Save, StoreInv, StoreTypes
<1>5. Pending(o)' = Pending(o) \cup {n}
  BY <1>1, <1>4, OwnerValues, PendingAfter
<1>6. Numbered(o)'
  BY <1>4, <1>5, OwnerValues DEF Numbered, Marks, Absent
<1>7. MemoryInv(o)'
  <2>1. \A m \in Pending(o) : m <= n /\ m \in Nat
    BY OwnerValues DEF Numbered
  <2>2. file[o] <= n /\ writing[o].data <= n /\ n # Absent /\ n >= n
    BY <1>1, OwnerValues DEF Numbered, Marks, Absent
  <2> QED
    BY <1>1, <1>4, <1>5, <2>1, <2>2, OwnerValues DEF MemoryInv, Covers, Marks, Absent
<1>8. WritingInv(o)'
  <2>1. chain[o] # <<>> => Head(chain'[o]) = Head(chain[o])
    BY <1>1, <1>4, OwnerValues, HeadTailAppend
  <2>2. chain'[o] # <<>>
    BY <1>1, <1>4, OwnerValues, AppendProperties
  <2> QED
    BY <1>4, <2>1, <2>2, OwnerValues DEF WritingInv, Covers
<1>9. /\ Settles(o, made[o])' /\ Covers(o, file[o], flushed[o])'
      /\ StaysSettled(o)
  BY <1>4, <1>5, OwnerValues DEF Settles, Covers, StaysSettled
<1> QED
  BY <1>2, <1>3, <1>6, <1>7, <1>8, <1>9, OneOwner DEF OwnerInv

LEMMA BeginSaveKeeps ==
    ASSUME StoreInv, NEW o \in Owner, BeginSave(o)
    PROVE  StoreKept
<1>1. StoreTypes'
  BY DEF StoreInv, StoreTypes, BeginSave
<1>2. \A q \in Owner \ {o} :
          UNCHANGED <<cached[q], file[q], chain[q], writing[q], saves[q], made[q],
                      failed[q], flushed[q]>>
  BY DEF BeginSave, StoreInv, StoreTypes
<1>3. /\ chain[o] # <<>>
      /\ writing'[o] = [phase |-> "mkdir", data |-> cached[o], dir |-> FALSE]
      /\ UNCHANGED <<cached[o], file[o], chain[o], saves[o], made[o], failed[o], flushed[o]>>
  BY DEF BeginSave, StoreInv, StoreTypes
<1>4. UNCHANGED Pending(o) /\ Head(chain[o]) \in Pending(o)
  BY <1>3, OwnerValues, PendingAfter DEF Pending
<1>5. Numbered(o)'
  BY <1>3, <1>4, OwnerValues DEF Numbered
<1>6. MemoryInv(o)'
  BY <1>3, <1>4, OwnerValues DEF MemoryInv, Covers, Marks, Absent
<1>7. WritingInv(o)'
  BY <1>3, <1>4, OwnerValues DEF WritingInv, MemoryInv, Covers
<1>8. /\ Settles(o, made[o])' /\ Covers(o, file[o], flushed[o])'
      /\ StaysSettled(o)
  BY <1>3, <1>4, OwnerValues DEF Settles, Covers, StaysSettled
<1> QED
  BY <1>1, <1>2, <1>5, <1>6, <1>7, <1>8, OneOwner DEF OwnerInv

\* The steps of a save that is under way.
LEMMA WritingKeeps ==
    ASSUME StoreInv, NEW o \in Owner, MakeDir(o) \/ WriteTmp(o)
    PROVE  StoreKept
<1>1. StoreTypes'
  <2> DEFINE r == writing[o]
  <2>1. CASE MakeDir(o)
    <3>1. writing' = [writing EXCEPT ![o] = [r EXCEPT !.phase = "write", !.dir = TRUE]]
      BY <2>1 DEF MakeDir, StoreInv, StoreTypes
    <3>2. [r EXCEPT !.phase = "write", !.dir = TRUE]
            \in [phase : {"none", "mkdir", "write", "rename"}, data : Marks, dir : BOOLEAN]
      BY OwnerValues
    <3> QED
      BY <2>1, <3>1, <3>2 DEF StoreInv, StoreTypes, MakeDir
  <2>2. CASE WriteTmp(o)
    BY <2>2 DEF StoreInv, StoreTypes, WriteTmp
  <2> QED
    BY <2>1, <2>2
<1>2. \A q \in Owner \ {o} :
          UNCHANGED <<cached[q], file[q], chain[q], writing[q], saves[q], made[q],
                      failed[q], flushed[q]>>
  BY DEF MakeDir, WriteTmp, StoreInv, StoreTypes
<1>3. /\ writing[o].phase # "none" /\ writing'[o].phase \in {"write", "rename"}
      /\ writing'[o].data = writing[o].data
      /\ writing'[o].phase = "rename" => writing[o].data # Absent
      /\ UNCHANGED <<cached[o], file[o], chain[o], saves[o], made[o], failed[o], flushed[o]>>
  BY DEF MakeDir, WriteTmp, StoreInv, StoreTypes
<1>4. UNCHANGED Pending(o)
  BY <1>3 DEF Pending
<1>5. Numbered(o)' /\ MemoryInv(o)' /\ WritingInv(o)'
  BY <1>3, <1>4, OwnerValues DEF Numbered, MemoryInv, WritingInv, Covers
<1>6. /\ Settles(o, made[o])' /\ Covers(o, file[o], flushed[o])'
      /\ StaysSettled(o)
  BY <1>3, <1>4, OwnerValues DEF Settles, Covers, StaysSettled
<1> QED
  BY <1>1, <1>2, <1>5, <1>6, OneOwner DEF OwnerInv

LEMMA RenameKeeps ==
    ASSUME StoreInv, NEW o \in Owner, RenameTmp(o)
    PROVE  StoreKept
<1> DEFINE data == writing[o].data
<1>1. /\ data \in Marks /\ data # Absent /\ chain[o] # <<>>
      /\ Covers(o, data, Head(chain[o])) /\ Covers(o, data, file[o])
      /\ Tail(chain[o]) \in Seq(Nat)
  <2>1. writing[o].phase = "rename"
    BY DEF RenameTmp
  <2> QED
    BY <2>1, OwnerValues, PendingAfter DEF WritingInv
<1>2. StoreTypes'
  BY <1>1 DEF StoreInv, StoreTypes, RenameTmp, Marks, NotWriting
<1>3. \A q \in Owner \ {o} :
          UNCHANGED <<cached[q], file[q], chain[q], writing[q], saves[q], made[q],
                      failed[q], flushed[q]>>
  BY DEF RenameTmp, StoreInv, StoreTypes
<1>4. /\ file'[o] = data /\ writing'[o] = NotWriting /\ chain'[o] = Tail(chain[o])
      /\ UNCHANGED <<cached[o], saves[o], made[o], failed[o], flushed[o]>>
  BY DEF RenameTmp, StoreInv, StoreTypes
<1>5. /\ Pending(o)' \subseteq Pending(o)
      /\ Pending(o) \subseteq Pending(o)' \cup {Head(chain[o])}
      /\ Head(chain[o]) \in Nat
  BY <1>1, <1>4, OwnerValues, PendingAfter
<1>6. /\ NotWriting.phase = "none" /\ NotWriting.data = Absent
      /\ writing[o].phase # "none"
  BY DEF NotWriting, RenameTmp
<1>7. Numbered(o)'
  BY <1>4, <1>5, <1>6, OwnerValues DEF Numbered, Absent
<1>8. MemoryInv(o)'
  BY <1>4, <1>5, <1>6, OwnerValues DEF MemoryInv, Covers
<1>9. WritingInv(o)'
  BY <1>4, <1>6 DEF WritingInv
<1>10. ASSUME NEW n \in Nat, Covers(o, file[o], n)
       PROVE  Covers(o, file[o], n)'
  BY <1>1, <1>4, <1>10, OwnerValues DEF Covers, Marks, Absent
<1>11. ASSUME NEW n \in Nat, Settles(o, n)
       PROVE  Settles(o, n)'
  <2>1. CASE n = Head(chain[o])
    BY <1>1, <1>4, <2>1 DEF Settles, Covers
  <2>2. CASE n # Head(chain[o])
    BY <1>5, <1>10, <1>11, <2>2 DEF Settles
  <2> QED
    BY <2>1, <2>2
<1>12. /\ Settles(o, made[o])' /\ Covers(o, file[o], flushed[o])'
       /\ StaysSettled(o)
  <2>1. Settles(o, made[o])'
    BY <1>4, <1>11, OwnerValues DEF Settles, Covers
  <2>2. Covers(o, file[o], flushed[o])'
    BY <1>4, <1>10, OwnerValues DEF Covers
  <2>3. StaysSettled(o)
    BY <1>4, <1>11, OwnerValues DEF StaysSettled
  <2> QED
    BY <2>1, <2>2, <2>3
<1> QED
  BY <1>2, <1>3, <1>7, <1>8, <1>9, <1>12, OneOwner DEF OwnerInv

LEMMA SaveFailsKeeps ==
    ASSUME StoreInv, NEW o \in Owner, SaveFails(o)
    PROVE  StoreKept
<1> DEFINE head == Head(chain[o])
<1>1. /\ writing[o].phase # "none" /\ chain[o] # <<>> /\ head \in Nat
      /\ head \in Pending(o) /\ Tail(chain[o]) \in Seq(Nat)
  <2>1. writing[o].phase # "none"
    BY DEF SaveFails
  <2> QED
    BY <2>1, OwnerValues, PendingAfter DEF WritingInv
<1>2. StoreTypes'
  BY <1>1 DEF StoreInv, StoreTypes, SaveFails, Marks, NotWriting
<1>3. \A q \in Owner \ {o} :
          UNCHANGED <<cached[q], file[q], chain[q], writing[q], saves[q], made[q],
                      failed[q], flushed[q]>>
  BY DEF SaveFails, StoreInv, StoreTypes
<1>4. /\ failed'[o] = IF head > failed[o] THEN head ELSE failed[o]
      /\ writing'[o] = NotWriting /\ chain'[o] = Tail(chain[o])
      /\ UNCHANGED <<cached[o], file[o], saves[o], made[o], flushed[o]>>
  BY DEF SaveFails, StoreInv, StoreTypes
<1>5. /\ failed'[o] >= failed[o] /\ failed'[o] >= head /\ failed'[o] <= saves[o]
      /\ failed'[o] \in Nat
  BY <1>1, <1>4, OwnerValues DEF Numbered
<1>6. /\ Pending(o)' \subseteq Pending(o)
      /\ Pending(o) \subseteq Pending(o)' \cup {head}
  BY <1>1, <1>4, OwnerValues, PendingAfter
<1>7. NotWriting.phase = "none" /\ NotWriting.data = Absent
  BY DEF NotWriting
<1> HIDE DEF head
<1>8. Numbered(o)'
  BY <1>4, <1>5, <1>6, <1>7, OwnerValues DEF Numbered, Absent
<1>9. ASSUME NEW v \in Marks, NEW n \in Marks, Covers(o, v, n)
      PROVE  failed'[o] >= n \/ v >= n
  BY <1>5, <1>9, OwnerValues DEF Covers, Marks, Absent
<1>10. MemoryInv(o)'
  <2>1. \A n \in Marks : failed[o] >= n => failed'[o] >= n
    BY <1>5, OwnerValues DEF Marks, Absent
  <2>2. \A n \in Pending(o)' : n \in Pending(o) /\ n \in Marks
    BY <1>6, OwnerValues DEF Marks
  <2> QED
    BY <1>4, <1>7, <1>9, <2>1, <2>2, OwnerValues DEF MemoryInv, Covers
<1>11. WritingInv(o)'
  BY <1>4, <1>7 DEF WritingInv
<1>12. ASSUME NEW n \in Nat, Settles(o, n)
       PROVE  Settles(o, n)'
  BY <1>4, <1>5, <1>6, <1>9, <1>12, OwnerValues DEF Settles, Covers, Marks
<1>13. /\ Settles(o, made[o])' /\ Covers(o, file[o], flushed[o])'
       /\ StaysSettled(o)
  <2>1. Settles(o, made[o])'
    BY <1>4, <1>12, OwnerValues DEF Settles, Covers
  <2>2. Covers(o, file[o], flushed[o])'
    BY <1>4, <1>9, OwnerValues DEF Covers, Marks
  <2>3. StaysSettled(o)
    BY <1>4, <1>12, OwnerValues DEF StaysSettled
  <2> QED
    BY <2>1, <2>2, <2>3
<1> QED
  BY <1>2, <1>3, <1>8, <1>10, <1>11, <1>13, OneOwner DEF OwnerInv

\* clear forgets what is in memory, and later what is on disk.
LEMMA ClearKeeps ==
    ASSUME StoreInv, NEW o \in Owner, Clear(o) \/ RemoveDir(o)
    PROVE  StoreKept
<1>1. StoreTypes'
  <2>1. CASE Clear(o)
    BY <2>1 DEF StoreInv, StoreTypes, Clear, Marks
  <2>2. CASE RemoveDir(o)
    BY <2>2 DEF StoreInv, StoreTypes, RemoveDir, Marks
  <2> QED
    BY <2>1, <2>2
<1>2. \A q \in Owner \ {o} :
          UNCHANGED <<cached[q], file[q], chain[q], writing[q], saves[q], made[q],
                      failed[q], flushed[q]>>
  BY DEF Clear, RemoveDir, StoreInv, StoreTypes
<1>3. /\ cached'[o] \in {Absent, cached[o]} /\ file'[o] \in {Absent, file[o]}
      /\ writing'[o].phase = writing[o].phase /\ writing'[o].data = writing[o].data
      /\ writing[o] = NotWriting => writing'[o] = NotWriting
      /\ failed'[o] = saves[o]
      /\ UNCHANGED <<chain[o], saves[o], made[o], flushed[o]>>
  <2>1. CASE Clear(o)
    BY <2>1 DEF StoreInv, StoreTypes, Clear
  <2>2. CASE RemoveDir(o)
    <3>1. writing'[o] = [writing[o] EXCEPT !.dir = FALSE]
      BY <2>2 DEF StoreInv, StoreTypes, RemoveDir
    <3>2. writing[o] = NotWriting => writing'[o] = NotWriting
      <4>1. [NotWriting EXCEPT !.dir = FALSE] = NotWriting
        <5> DEFINE R == [phase : {"none"}, data : {Absent}, dir : {FALSE}]
        <5>1. NotWriting \in R
          BY DEF NotWriting
        <5>2. \A r \in R : [r EXCEPT !.dir = FALSE] = r
          OBVIOUS
        <5> QED
          BY <5>1, <5>2
      <4> QED
        BY <3>1, <4>1
    <3> QED
      BY <2>2, <3>1, <3>2, OwnerValues DEF StoreInv, StoreTypes, RemoveDir
  <2> QED
    BY <2>1, <2>2
<1>4. UNCHANGED Pending(o)
  BY <1>3 DEF Pending
<1>5. Numbered(o)'
  BY <1>3, <1>4, OwnerValues DEF Numbered, Absent
<1>6. \A n \in Marks : n <= saves[o] => failed'[o] >= n
  BY <1>3, OwnerValues DEF Marks, Absent
<1>7. MemoryInv(o)'
  <2>1. \A n \in Pending(o)' : failed'[o] >= n
    BY <1>4, <1>6, OwnerValues DEF Numbered, Marks
  <2>2. failed'[o] >= writing'[o].data /\ failed'[o] >= file'[o]
    BY <1>3, <1>6, OwnerValues DEF Numbered, Marks, Absent
  <2> QED
    BY <2>1, <2>2 DEF MemoryInv, Covers
<1>8. WritingInv(o)'
  <2>1. chain[o] # <<>> => failed'[o] >= Head(chain[o])
    BY <1>6, OwnerValues, PendingAfter DEF Numbered, Marks
  <2>2. failed'[o] >= file'[o]
    BY <1>3, <1>6, OwnerValues DEF Numbered, Marks, Absent
  <2> QED
    BY <1>3, <2>1, <2>2, OwnerValues DEF WritingInv, Covers
<1>9. /\ Settles(o, made[o])' /\ Covers(o, file[o], flushed[o])'
      /\ StaysSettled(o)
  BY <1>3, <1>6, OwnerValues DEF Settles, Covers, StaysSettled, Numbered, Marks
<1> QED
  BY <1>1, <1>2, <1>5, <1>7, <1>8, <1>9, OneOwner DEF OwnerInv

\* A flush returns when none of the saves that it waits for is pending.
LEMMA FlushKeeps ==
    ASSUME StoreInv, NEW upto \in [Owner -> Nat], FlushReturns(upto),
           \A o \in Owner : upto[o] <= saves[o] /\ Settles(o, upto[o])
    PROVE  StoreKept
<1>1. StoreTypes'
  BY DEF StoreInv, StoreTypes, FlushReturns
<1>2. ASSUME NEW o \in Owner
      PROVE  OwnerInv(o)' /\ StaysSettled(o)
  <2>1. /\ flushed'[o] = IF upto[o] > flushed[o] THEN upto[o] ELSE flushed[o]
        /\ UNCHANGED <<cached[o], file[o], chain[o], writing[o], saves[o], made[o], failed[o]>>
    BY DEF FlushReturns
  <2>2. upto[o] \in Nat /\ \A n \in Pending(o) : n > upto[o]
    <3>1. DOMAIN chain[o] = 1 .. Len(chain[o])
      BY OwnerValues, LenProperties
    <3> QED
      BY <3>1 DEF FlushReturns, Flushed, Pending
  <2>3. upto[o] = 0 \/ Covers(o, file[o], upto[o])
    BY <2>2 DEF Settles
  <2>4. Covers(o, file[o], flushed[o])'
    BY <2>1, <2>3, OwnerValues DEF Covers
  <2>5. UNCHANGED Pending(o)
    BY <2>1 DEF Pending
  <2>6. Numbered(o)'
    BY <2>1, <2>5, OwnerValues DEF Numbered
  <2>7. MemoryInv(o)' /\ WritingInv(o)' /\ Settles(o, made[o])' /\ StaysSettled(o)
    BY <2>1, <2>5, OwnerValues DEF MemoryInv, WritingInv, Settles, Covers, StaysSettled
  <2> QED
    BY <2>4, <2>6, <2>7 DEF OwnerInv
<1> QED
  BY <1>1, <1>2 DEF StoreKept, StoreInv

LEMMA NothingStoredIsSound == NothingStored => StoreInv
<1> SUFFICES ASSUME NothingStored PROVE StoreInv
  OBVIOUS
<1>1. StoreTypes
  BY DEF NothingStored, StoreTypes, Marks, NotWriting
<1>2. ASSUME NEW o \in Owner
      PROVE  OwnerInv(o)
  <2>1. /\ cached[o] = Absent /\ file[o] = Absent /\ chain[o] = <<>>
        /\ writing[o] = NotWriting /\ saves[o] = 0 /\ made[o] = 0
        /\ failed[o] = 0 /\ flushed[o] = 0
    BY DEF NothingStored
  <2>2. Pending(o) = {}
    BY <2>1 DEF Pending
  <2> QED
    BY <2>1, <2>2 DEF OwnerInv, Numbered, MemoryInv, WritingInv, Settles, Covers, NotWriting, Absent
<1> QED
  BY <1>1, <1>2 DEF StoreInv

\* A crash loses what is in memory and the saves that were pending.
LEMMA DiesKeeps ==
    ASSUME StoreInv, StoreDies
    PROVE  StoreInv' /\ UNCHANGED saves
<1>1. StoreTypes'
  BY DEF StoreInv, StoreTypes, StoreDies, Marks, NotWriting
<1>2. ASSUME NEW o \in Owner
      PROVE  OwnerInv(o)'
  <2>1. /\ cached'[o] = Absent /\ chain'[o] = <<>> /\ writing'[o] = NotWriting /\ made'[o] = 0
        /\ UNCHANGED <<file[o], saves[o], failed[o], flushed[o]>>
    BY DEF StoreDies
  <2>2. Pending(o)' = {}
    BY <2>1 DEF Pending
  <2> QED
    BY <2>1, <2>2, OwnerValues
    DEF OwnerInv, Numbered, MemoryInv, WritingInv, Settles, Covers, NotWriting, Absent
<1> QED
  BY <1>1, <1>2 DEF StoreInv, StoreDies

-----------------------------------------------------------------------------
(* The manager's calls: what their flushes wait for settles. *)

\* Calls that keep what they wait for, or wait for the latest saves.
LEMMA CallsKept ==
    ASSUME StoreInv, CallInv, StoreKept,
           call' = [c \in Caller |-> call'[c]],
           \A c \in Caller :
              /\ DOMAIN call'[c] = DOMAIN Idle
              /\ \/ call'[c].upto = call[c].upto
                 \/ call'[c].upto = made
                 \/ call'[c].upto = [o \in Owner |-> 0]
    PROVE  CallInv'
<1>1. \A o \in Owner : StaysSettled(o) /\ saves[o] \in Nat /\ saves'[o] \in Nat
  BY DEF StoreKept, StoreInv, StoreTypes
<1>2. ASSUME NEW upto \in [Owner -> Nat],
             \A o \in Owner : upto[o] <= saves[o] /\ Settles(o, upto[o])
      PROVE  \A o \in Owner : upto[o] <= saves'[o] /\ SettlesNext(o, upto[o])
  <2> SUFFICES ASSUME NEW o \in Owner
               PROVE  upto[o] <= saves'[o] /\ SettlesNext(o, upto[o])
    OBVIOUS
  <2>1. upto[o] \in Nat /\ upto[o] <= saves[o] /\ Settles(o, upto[o])
    BY <1>2
  <2>2. saves[o] <= saves'[o]
    BY <1>1 DEF StaysSettled
  <2>3. \A n \in Nat : n <= saves[o] /\ Settles(o, n) => SettlesNext(o, n)
    BY <1>1 DEF StaysSettled, Settles, Covers, SettlesNext
  <2> QED
    BY <1>1, <2>1, <2>2, <2>3
<1>3. ASSUME NEW c \in Caller
      PROVE  /\ call'[c].upto \in [Owner -> Nat]
             /\ \A o \in Owner : /\ call'[c].upto[o] <= saves'[o]
                                 /\ SettlesNext(o, call'[c].upto[o])
  <2>1. CASE call'[c].upto = call[c].upto
    BY <1>2, <2>1 DEF CallInv
  <2>2. CASE call'[c].upto = made
    <3>1. made \in [Owner -> Nat]
      BY DEF StoreInv, StoreTypes
    <3>2. \A o \in Owner : made[o] <= saves[o] /\ Settles(o, made[o])
      BY OwnerValues DEF Numbered
    <3> QED
      BY <1>2, <2>2, <3>1, <3>2
  <2>3. CASE call'[c].upto = [o \in Owner |-> 0]
    BY <1>1, <2>3 DEF SettlesNext
  <2> QED
    BY <2>1, <2>2, <2>3
<1> QED
  BY <1>3 DEF CallInv, SettlesNext, Settles, Covers

LEMMA IdleCall ==
    /\ DOMAIN Idle = {"pc", "todo", "missing", "enabled", "upto", "tried"}
    /\ Idle.upto = [o \in Owner |-> 0]
  BY DEF Idle

\* The call of c becomes r, which waits for what it did, for the latest saves,
\* or for nothing.
LEMMA OneCall ==
    ASSUME StoreInv, CallInv, StoreKept, NEW c \in Caller, NEW r,
           call' = [call EXCEPT ![c] = r], DOMAIN r = DOMAIN Idle,
           \/ r.upto = call[c].upto
           \/ r.upto = made
           \/ r.upto = [o \in Owner |-> 0]
    PROVE  StoreInv' /\ CallInv'
<1>1. call = [d \in Caller |-> call[d]]
  BY DEF CallInv
<1>2. /\ call' = [d \in Caller |-> call'[d]]
      /\ call'[c] = r /\ \A d \in Caller \ {c} : call'[d] = call[d]
  BY <1>1
<1> QED
  BY <1>2, CallsKept DEF CallInv, StoreKept

\* GoOn waits for the latest saves at the end, and before that for none.
LEMMA GoOnKeeps ==
    ASSUME StoreInv, CallInv, NEW c \in Caller, NEW entries, NEW todo, NEW enabled, NEW tried,
           GoOn(c, entries, todo, enabled, tried)
    PROVE  StoreInv' /\ CallInv'
<1>1. \E ps : LoadState(ps)
  BY DEF GoOn, GiveContext
<1>2. StoreKept
  BY <1>1, LoadKeeps
<1>3. CASE todo = <<>>
  <2> DEFINE r == [Idle EXCEPT !.pc = "flush", !.upto = made]
  <2>1. call' = [call EXCEPT ![c] = r]
    BY <1>3 DEF GoOn
  <2>2. DOMAIN r = DOMAIN Idle /\ r.upto = made
    BY IdleCall
  <2> HIDE DEF r
  <2> QED
    BY <1>2, <2>1, <2>2, OneCall
<1>4. CASE todo # <<>>
  <2> DEFINE r == [Idle EXCEPT !.pc = "initialize", !.todo = todo,
                               !.missing = Missing(Head(todo)), !.enabled = enabled,
                               !.tried = tried]
  <2>1. call' = [call EXCEPT ![c] = r]
    BY <1>4 DEF GoOn
  <2>2. DOMAIN r = DOMAIN Idle /\ r.upto = [o \in Owner |-> 0]
    BY IdleCall
  <2> HIDE DEF r
  <2> QED
    BY <1>2, <2>1, <2>2, OneCall
<1> QED
  BY <1>3, <1>4

\* A step of the store, or of a call that stays what it is.
LEMMA StoreStepKeeps ==
    ASSUME StoreInv, CallInv, StoreKept, UNCHANGED call
    PROVE  StoreInv' /\ CallInv'
<1>1. call' = [c \in Caller |-> call'[c]]
  BY DEF CallInv
<1>2. \A c \in Caller : DOMAIN call'[c] = DOMAIN Idle /\ call'[c].upto = call[c].upto
  BY DEF CallInv
<1> QED
  BY <1>1, <1>2, CallsKept DEF StoreKept

LEMMA DisposeKeeps ==
    ASSUME StoreInv, CallInv, NEW c \in Caller, Dispose(c) \/ PluginDisposed(c)
    PROVE  StoreInv' /\ CallInv'
<1>1. \E ps : LoadState(ps)
  BY DEF Dispose, PluginDisposed, GiveContext
<1>2. StoreKept
  BY <1>1, LoadKeeps
<1> DEFINE flush == [Idle EXCEPT !.pc = "flush", !.upto = made]
           begun(todo) == [Idle EXCEPT !.pc = "dispose", !.todo = todo]
           gone(todo) == [call[c] EXCEPT !.todo = todo]
<1>3. DOMAIN flush = DOMAIN Idle /\ flush.upto = made
  BY IdleCall
<1>4. \A todo : DOMAIN begun(todo) = DOMAIN Idle /\ begun(todo).upto = [o \in Owner |-> 0]
  BY IdleCall
<1>5. \A todo : DOMAIN gone(todo) = DOMAIN Idle /\ gone(todo).upto = call[c].upto
  BY IdleCall DEF CallInv
<1>6. \/ call' = [call EXCEPT ![c] = flush]
      \/ \E todo : call' = [call EXCEPT ![c] = begun(todo)]
      \/ \E todo : call' = [call EXCEPT ![c] = gone(todo)]
  BY DEF Dispose, PluginDisposed
<1> HIDE DEF flush, begun, gone
<1> QED
  BY <1>2, <1>3, <1>4, <1>5, <1>6, OneCall

\* Each step of the manager and of the store keeps both.
LEMMA StoreIsKept ==
    ASSUME StoreInv, CallInv, [Next]_vars
    PROVE  StoreInv' /\ CallInv'
<1>1. ASSUME NEW p \in Plugin, Register(p) \/ Unregister(p)
      PROVE  StoreInv' /\ CallInv'
  BY <1>1, StoreUntouched, StoreStepKeeps DEF Register, Unregister, SameCalls
<1>2. ASSUME NEW p \in Plugin, Enable(p) \/ Disable(p)
      PROVE  StoreInv' /\ CallInv'
  <2>1. \E ps : LoadState(ps)
    BY <1>2 DEF Enable, Disable, GiveContext
  <2> QED
    BY <1>2, <2>1, LoadKeeps, StoreStepKeeps DEF Enable, Disable, SameCalls
<1>3. ASSUME NEW c \in Caller, Initialize(c)
      PROVE  StoreInv' /\ CallInv'
  BY <1>3, GoOnKeeps DEF Initialize
<1>4. ASSUME NEW c \in Caller, InitializeRefused(c)
      PROVE  StoreInv' /\ CallInv'
  BY <1>4, StoreUntouched, StoreStepKeeps DEF InitializeRefused, managerVars
<1>5. ASSUME NEW c \in Caller, PluginReady(c)
      PROVE  StoreInv' /\ CallInv'
  BY <1>5, GoOnKeeps DEF PluginReady
<1>6. ASSUME NEW c \in Caller, PluginFails(c)
      PROVE  StoreInv' /\ CallInv'
  <2>1. CASE Head(call[c].todo) \in scenario.stop
    <3>1. call' = [call EXCEPT ![c] = Idle] /\ UNCHANGED storeVars
      BY <1>6, <2>1 DEF PluginFails
    <3> QED
      BY <3>1, StoreUntouched, IdleCall, OneCall
  <2>2. CASE Head(call[c].todo) \notin scenario.stop
    BY <1>6, <2>2, GoOnKeeps DEF PluginFails
  <2> QED
    BY <2>1, <2>2
<1>7. ASSUME NEW c \in Caller, Dispose(c) \/ PluginDisposed(c)
      PROVE  StoreInv' /\ CallInv'
  BY <1>7, DisposeKeeps
<1>8. ASSUME NEW c \in Caller, Flush(c)
      PROVE  StoreInv' /\ CallInv'
  <2>1. StoreKept
    BY <1>8, FlushKeeps DEF Flush, CallInv
  <2>2. call' = [call EXCEPT ![c] = Idle]
    BY <1>8 DEF Flush
  <2> QED
    BY <2>1, <2>2, IdleCall, OneCall
<1>9. ASSUME NEW o \in Owner, SetState(o) \/ ClearState(o) \/ StoreStep(o)
      PROVE  StoreInv' /\ CallInv'
  <2>1. StoreKept
    BY <1>9, SaveKeeps, ClearKeeps, BeginSaveKeeps, WritingKeeps, RenameKeeps, SaveFailsKeeps
    DEF SetState, ClearState, StoreStep
  <2> QED
    BY <1>9, <2>1, StoreStepKeeps DEF SetState, ClearState, StoreStep, managerVars
<1>10. ASSUME NEW x \in Execution, HookStep(x) \/ \E h \in HookName : ExecuteHook(x, h)
       PROVE  StoreInv' /\ CallInv'
  BY <1>10, StoreUntouched, StoreStepKeeps DEF HookStep, ExecuteHook, managerVars
<1>11. CASE Crash
  <2>1. call' = [c \in Caller |-> Idle] /\ StoreDies
    BY <1>11 DEF Crash
  <2>2. StoreInv' /\ \A o \in Owner : saves'[o] \in Nat
    BY <2>1, DiesKeeps DEF StoreInv, StoreTypes
  <2>3. CallInv'
    BY <2>1, <2>2, IdleCall DEF CallInv, Settles
  <2> QED
    BY <2>2, <2>3
<1>12. CASE UNCHANGED vars
  BY <1>12, StoreUntouched, StoreStepKeeps DEF vars, managerVars
<1>13. ASSUME NEW h \in HookName, NEW p \in Plugin,
             \/ HostUnregisters(h, p)
             \/ \E i \in Priority, e \in ErrorPolicy : HostRegisters(h, p, i, e)
      PROVE  StoreInv' /\ CallInv'
  BY <1>13, StoreUntouched, StoreStepKeeps DEF HostUnregisters, HostRegisters, managerVars
<1> QED
  BY <1>1, <1>2, <1>3, <1>4, <1>5, <1>6, <1>7, <1>8, <1>9, <1>10, <1>11, <1>12, <1>13 DEF Next

\* After a flush the file has the state of every save made before it, or of a
\* later one, unless that save failed or was cleared, also after crashes
\* (state-store.ts:48-65, 84).
THEOREM FlushReachesTheDisk == Spec => []FlushedIsOnDisk
<1>1. Init => StoreInv /\ CallInv
  <2> SUFFICES ASSUME Init
               PROVE  StoreInv /\ CallInv
    OBVIOUS
  <2>1. StoreInv
    BY NothingStoredIsSound DEF Init
  <2>2. call = [c \in Caller |-> Idle] /\ \A o \in Owner : saves[o] \in Nat
    BY <2>1 DEF Init, StoreInv, StoreTypes
  <2>3. CallInv
    BY <2>2, IdleCall DEF CallInv, Settles
  <2> QED
    BY <2>1, <2>3
<1>2. StoreInv /\ CallInv /\ [Next]_vars => StoreInv' /\ CallInv'
  BY StoreIsKept
<1>3. StoreInv => FlushedIsOnDisk
  BY OwnerValues DEF FlushedIsOnDisk, Covers
<1> QED
  BY <1>1, <1>2, <1>3, PTL DEF Spec

\* What w picks from a list: the elements at the positions, in order.
Picks(list, positions, w) ==
    \E f \in [1 .. Len(w) -> positions] :
        /\ \A n \in 1 .. Len(w) : w[n] = list[f[n]]
        /\ \A m, n \in 1 .. Len(w) : m < n => f[m] < f[n]
        /\ \A i \in positions : \E n \in 1 .. Len(w) : f[n] = i

LEMMA AtPicks ==
    ASSUME NEW S, NEW list \in Seq(S), NEW positions \in SUBSET (1 .. Len(list))
    PROVE  At(list, positions) \in Seq(S) /\ Picks(list, positions, At(list, positions))
<1> DEFINE before(i) == {j \in positions : j <= i}
           N == Cardinality(positions)
           L == {p \in positions \X positions : p[1] <= p[2]}
           f == [n \in 1 .. N |-> CHOOSE i \in positions : Cardinality(before(i)) = n]
           w == At(list, positions)
<1>1. positions \subseteq Int /\ 1 \in Int /\ Len(list) \in Int
  BY LenProperties
<1>2. IsFiniteSet(positions)
  BY <1>1, FS_Interval, FS_Subset
<1>3. \A i, j \in positions : <<i, j>> \in L <=> i <= j
  OBVIOUS
<1>4. \A i \in positions : UpTo(L, positions, i) = before(i)
  BY <1>3 DEF UpTo
<1> HIDE DEF L
<1>5. TotallyOrders(L, positions)
  BY <1>1, <1>3 DEF TotallyOrders
<1>6. N \in Nat /\ Numbers(L, positions)
  BY <1>2, <1>5, Ranks
<1>c. N \in Nat
  BY <1>6
<1>7. /\ \A n \in 1 .. N : \E i \in positions : Cardinality(before(i)) = n
      /\ \A i \in positions : Cardinality(before(i)) \in 1 .. N
      /\ \A i, k \in positions : i < k => Cardinality(before(i)) < Cardinality(before(k))
  <2>1. \A i, k \in positions : i < k => <<i, k>> \in L /\ i # k
    BY <1>1, <1>3
  <2>2. /\ \A n \in 1 .. N : \E i \in positions : Cardinality(UpTo(L, positions, i)) = n
        /\ \A i \in positions : Cardinality(UpTo(L, positions, i)) \in 1 .. N
        /\ \A i, k \in positions : i < k =>
             Cardinality(UpTo(L, positions, i)) < Cardinality(UpTo(L, positions, k))
    BY <1>6, <2>1 DEF Numbers
  <2> HIDE DEF before, N
  <2> QED
    BY <1>4, <2>2
<1>8. w = [n \in 1 .. N |-> list[f[n]]]
  BY DEF At
<1> HIDE DEF before, N, w
<1>9. \A n \in 1 .. N : f[n] \in positions /\ Cardinality(before(f[n])) = n
  BY <1>7
<1> HIDE DEF f
<1>10. \A m, n \in 1 .. N : m < n => f[m] < f[n]
  <2> SUFFICES ASSUME NEW m \in 1 .. N, NEW n \in 1 .. N, m < n, ~(f[m] < f[n])
               PROVE  FALSE
    OBVIOUS
  <2>0. f[m] \in positions /\ f[n] \in positions
    BY <1>9
  <2>1. f[m] \in Int /\ f[n] \in Int /\ m \in Int /\ n \in Int
    <3>1. f[m] \in Int /\ f[n] \in Int
      BY <1>1, <2>0
    <3>2. m \in Int /\ n \in Int
      BY <1>c
    <3> QED
      BY <3>1, <3>2
  <2>2. CASE f[m] = f[n]
    BY <1>9, <2>1, <2>2
  <2>3. CASE f[n] < f[m]
    <3>1. n < m
      BY <1>7, <1>9, <2>3
    <3> QED
      BY <2>1, <3>1
  <2> QED
    BY <2>1, <2>2, <2>3
<1>11. \A i \in positions : \E n \in 1 .. N : f[n] = i
  <2> SUFFICES ASSUME NEW i \in positions PROVE f[Cardinality(before(i))] = i
    BY <1>7
  <2> DEFINE n == Cardinality(before(i))
  <2>1. n \in 1 .. N /\ f[n] \in positions /\ Cardinality(before(f[n])) = n
    BY <1>7, <1>9
  <2>2. f[n] \in Int /\ i \in Int /\ n \in Int
    <3> HIDE DEF n
    <3> QED
      <4>1. f[n] \in Int /\ i \in Int
        BY <1>1, <2>1
      <4>2. n \in Int
        BY <1>c, <2>1
      <4> QED
        BY <4>1, <4>2
  <2> HIDE DEF n
  <2>3. ~(f[n] < i) /\ ~(i < f[n])
    <3>1. Cardinality(before(i)) = n
      BY DEF n
    <3> QED
      BY <1>7, <2>1, <2>2, <3>1
  <2> QED
    BY <2>2, <2>3 DEF n
<1>12. \A n \in 1 .. N : list[f[n]] \in S
  BY <1>9, LenProperties
<1>13. w \in Seq(S) /\ Len(w) = N /\ \A n \in 1 .. N : w[n] = list[f[n]]
  BY <1>6, <1>8, <1>12
<1>14. f \in [1 .. N -> positions]
  BY <1>9 DEF f
<1> QED
  BY <1>10, <1>11, <1>13, <1>14 DEF Picks, w

-----------------------------------------------------------------------------
(* Dependencies first. *)

\* The dependencies of what is to be done are done, or come before it.
Ahead(todo, enabled, done) ==
    /\ todo \in Seq(Plugin)
    /\ \A i \in DOMAIN todo : \A d \in Deps(todo[i]) \cap enabled :
          d \in done \/ \E j \in 1 .. i - 1 : todo[j] = d

CallsAhead ==
    /\ call = [c \in Caller |-> call[c]]
    /\ \A c \in Caller :
          /\ DOMAIN call[c] = DOMAIN Idle
          /\ call[c].pc = "initialize" =>
                call[c].todo # <<>> /\ Ahead(call[c].todo, call[c].enabled, call[c].tried)

OrderInv ==
    /\ scenario \in Scenarios /\ order \in Seq(Plugin)
    /\ CallsAhead

LEMMA OrderInvImplies == OrderInv => DependenciesFirst
<1> SUFFICES ASSUME OrderInv, NEW c \in Caller, call[c].pc = "initialize",
                    NEW d \in Deps(Head(call[c].todo)) \cap call[c].enabled
             PROVE  d \in call[c].tried
  BY DEF DependenciesFirst
<1> DEFINE todo == call[c].todo
<1>1. todo \in Seq(Plugin) /\ todo # <<>>
      /\ \A i \in DOMAIN todo : \A e \in Deps(todo[i]) \cap call[c].enabled :
            e \in call[c].tried \/ \E j \in 1 .. i - 1 : todo[j] = e
  BY DEF OrderInv, CallsAhead, Ahead
<1> HIDE DEF todo
<1>2. 1 \in DOMAIN todo /\ todo[1] = Head(todo)
  BY <1>1
<1>3. d \in Deps(todo[1]) \cap call[c].enabled
  BY <1>2 DEF todo
<1> QED
  BY <1>1, <1>2, <1>3

\* When the first is done, the others have theirs done or before them.
LEMMA AheadOfTail ==
    ASSUME NEW todo, NEW enabled, NEW done, Ahead(todo, enabled, done), todo # <<>>
    PROVE  Ahead(Tail(todo), enabled, done \cup {Head(todo)}) /\ Head(todo) \in Plugin
<1>1. todo \in Seq(Plugin)
  BY DEF Ahead
<1>2. /\ Head(todo) \in Plugin /\ Tail(todo) \in Seq(Plugin)
      /\ Len(todo) \in Nat /\ DOMAIN Tail(todo) = 1 .. Len(todo) - 1
      /\ \A i \in 1 .. Len(todo) - 1 : Tail(todo)[i] = todo[i + 1]
      /\ Head(todo) = todo[1]
  BY <1>1
<1>3. ASSUME NEW i \in DOMAIN Tail(todo), NEW d \in Deps(Tail(todo)[i]) \cap enabled,
             d \notin done \cup {Head(todo)}
      PROVE  \E j \in 1 .. i - 1 : Tail(todo)[j] = d
  <2>1. i \in 1 .. Len(todo) - 1 /\ i + 1 \in 1 .. Len(todo) /\ Tail(todo)[i] = todo[i + 1]
    BY <1>2, <1>3
  <2>2. PICK j \in 1 .. (i + 1) - 1 : todo[j] = d
    BY <1>1, <1>3, <2>1 DEF Ahead
  <2>3. j # 1
    BY <1>2, <1>3, <2>2
  <2>4. j - 1 \in 1 .. i - 1 /\ Tail(todo)[j - 1] = todo[j]
    BY <1>2, <2>1, <2>2, <2>3
  <2> QED
    BY <2>2, <2>4
<1> QED
  BY <1>2, <1>3 DEF Ahead

\* One call changes.
LEMMA OthersAhead ==
    ASSUME CallsAhead, UNCHANGED scenario,
           NEW c \in Caller, NEW r, call' = [call EXCEPT ![c] = r],
           DOMAIN r = DOMAIN Idle,
           r.pc = "initialize" => r.todo # <<>> /\ Ahead(r.todo, r.enabled, r.tried)
    PROVE  CallsAhead'
<1>1. call = [d \in Caller |-> call[d]]
  BY DEF CallsAhead
<1>2. /\ call' = [d \in Caller |-> call'[d]]
      /\ call'[c] = r /\ \A d \in Caller \ {c} : call'[d] = call[d]
  BY <1>1
<1>3. ASSUME NEW d \in Caller
      PROVE  /\ DOMAIN call'[d] = DOMAIN Idle
             /\ call'[d].pc = "initialize" =>
                   call'[d].todo # <<>> /\ Ahead(call[d].todo, call[d].enabled, call[d].tried)'
  <2>1. Ahead(call[d].todo, call[d].enabled, call[d].tried)'
            <=> Ahead(call'[d].todo, call'[d].enabled, call'[d].tried)
    BY DEF Ahead, Deps
  <2>2. CASE d = c
    BY <1>2, <2>1, <2>2
  <2>3. CASE d # c
    <3>1. call'[d] = call[d]
      BY <1>2, <2>3
    <3> QED
      BY <2>1, <3>1 DEF CallsAhead
  <2> QED
    BY <2>2, <2>3
<1> QED
  BY <1>2, <1>3 DEF CallsAhead, Idle

\* GoOn keeps the invariant when what it goes on with has its dependencies done
\* or before it.
LEMMA GoOnOrders ==
    ASSUME OrderInv, UNCHANGED <<scenario, order>>,
           NEW c \in Caller, NEW entries, NEW todo, NEW enabled, NEW tried,
           Ahead(todo, enabled, tried), GoOn(c, entries, todo, enabled, tried)
    PROVE  OrderInv'
<1>1. scenario' \in Scenarios /\ order' \in Seq(Plugin) /\ CallsAhead
  BY DEF OrderInv
<1>2. CASE todo = <<>>
  <2> DEFINE r == [Idle EXCEPT !.pc = "flush", !.upto = made]
  <2>1. call' = [call EXCEPT ![c] = r]
    BY <1>2 DEF GoOn
  <2>2. DOMAIN r = DOMAIN Idle /\ r.pc = "flush"
    BY DEF Idle
  <2> HIDE DEF r
  <2>3. CallsAhead'
    BY <1>1, <2>1, <2>2, OthersAhead
  <2> QED
    BY <1>1, <2>3 DEF OrderInv
<1>3. CASE todo # <<>>
  <2> DEFINE p == Head(todo)
             r == [Idle EXCEPT !.pc = "initialize", !.todo = todo,
                               !.missing = Missing(p), !.enabled = enabled, !.tried = tried]
  <2>1. call' = [call EXCEPT ![c] = r]
    BY <1>3 DEF GoOn
  <2>2. DOMAIN r = DOMAIN Idle /\ r.todo = todo /\ r.enabled = enabled /\ r.tried = tried
    BY DEF Idle
  <2> HIDE DEF r
  <2>3. CallsAhead'
    BY <1>1, <1>3, <2>1, <2>2, OthersAhead
  <2> QED
    BY <1>1, <2>3 DEF OrderInv
<1> QED
  BY <1>2, <1>3

\* What a call begins with.
LEMMA InitializeOrders ==
    ASSUME OrderInv, NEW c \in Caller, Initialize(c)
    PROVE  OrderInv'
<1> DEFINE enabled == {p \in Range(order) : entry[p].enabled}
           ready == {p \in enabled : entry[p].state = "ready"}
           sorted == InitializationOrder.sorted
           positions == {i \in DOMAIN sorted : sorted[i] \in enabled \ ready}
           todo == At(sorted, positions)
<1>1. scenario \in Scenarios /\ order \in Seq(Plugin)
  BY DEF OrderInv
<1>2. GoOn(c, entry, todo, enabled, ready) /\ ~InitializationOrder.circular
      /\ UNCHANGED <<scenario, order>>
  BY DEF Initialize, Happens
<1>3. sorted \in Seq(Plugin) /\ AllBefore(sorted)
  BY <1>1, <1>2, InitializationOrderIsSound DEF Sorting
<1>0. enabled \subseteq Range(order)
  OBVIOUS
<1> HIDE DEF sorted, enabled, ready
<1>4. positions \in SUBSET (1 .. Len(sorted))
  BY <1>3
<1>5. \A j \in DOMAIN sorted : j \in positions <=> sorted[j] \in enabled \ ready
  OBVIOUS
<1> HIDE DEF positions
<1>6. todo \in Seq(Plugin) /\ Picks(sorted, positions, todo)
  BY <1>3, <1>4, AtPicks
<1>7. Ahead(todo, enabled, ready)
  <2>1. PICK f \in [1 .. Len(todo) -> positions] :
            /\ \A n \in 1 .. Len(todo) : todo[n] = sorted[f[n]]
            /\ \A m, n \in 1 .. Len(todo) : m < n => f[m] < f[n]
            /\ \A i \in positions : \E n \in 1 .. Len(todo) : f[n] = i
    BY <1>6 DEF Picks
  <2> SUFFICES ASSUME NEW i \in DOMAIN todo, NEW d \in Deps(todo[i]) \cap enabled, d \notin ready
               PROVE  \E j \in 1 .. i - 1 : todo[j] = d
    BY <1>6 DEF Ahead
  <2> HIDE DEF todo
  <2>2. i \in 1 .. Len(todo) /\ Len(todo) \in Nat /\ f[i] \in positions /\ todo[i] = sorted[f[i]]
    BY <1>6, <2>1
  <2>3. f[i] \in DOMAIN sorted /\ f[i] \in Int /\ d \in Deps(sorted[f[i]]) /\ Registered(d)
    BY <1>0, <1>3, <1>4, <2>2 DEF Registered
  <2>4. PICK j \in 1 .. f[i] - 1 : sorted[j] = d
    BY <1>3, <2>3 DEF AllBefore
  <2>5. j \in DOMAIN sorted
    BY <1>3, <2>3, <2>4
  <2>7. j \in positions
    BY <1>5, <2>4, <2>5
  <2>8. PICK n \in 1 .. Len(todo) : f[n] = j
    BY <2>1, <2>7
  <2>9. n < i
    <3>1. f[n] < f[i]
      BY <2>3, <2>4, <2>8
    <3>2. ~(i < n) /\ i # n
      <4>1. ~(f[i] < f[n]) /\ f[i] # f[n]
        BY <2>3, <2>4, <2>8
      <4> QED
        BY <2>1, <2>2, <4>1
    <3> QED
      BY <2>2, <3>2
  <2>10. n \in 1 .. i - 1 /\ todo[n] = d
    BY <2>1, <2>2, <2>4, <2>8, <2>9
  <2> QED
    BY <2>10
<1> HIDE DEF todo
<1> QED
  BY <1>2, <1>7, GoOnOrders

\* The plugin that a call is at is done, and the call goes on or ends.
LEMMA PluginIsOver ==
    ASSUME OrderInv, NEW c \in Caller, PluginReady(c) \/ PluginFails(c)
    PROVE  OrderInv'
<1> DEFINE p == Head(call[c].todo)
           todo == Tail(call[c].todo)
           enabled == call[c].enabled
           tried == call[c].tried \cup {p}
<1>1. /\ scenario \in Scenarios /\ order \in Seq(Plugin) /\ CallsAhead
      /\ call[c].pc = "initialize" /\ UNCHANGED <<scenario, order>>
  BY DEF OrderInv, PluginReady, PluginFails, Goes
<1>2. Ahead(todo, enabled, tried)
  BY <1>1, AheadOfTail DEF CallsAhead
<1>3. CASE \E entries : GoOn(c, entries, todo, enabled, tried)
  <2> HIDE DEF p, todo, enabled, tried
  <2> QED
    BY <1>1, <1>2, <1>3, GoOnOrders
<1>4. CASE call' = [call EXCEPT ![c] = Idle]
  <2>1. Idle.pc # "initialize"
    BY DEF Idle
  <2>2. CallsAhead'
    BY <1>1, <1>4, <2>1, OthersAhead
  <2> QED
    BY <1>1, <2>2 DEF OrderInv
<1> QED
  BY <1>3, <1>4 DEF PluginReady, PluginFails

\* Steps that are not about calls.
LEMMA CallsStay ==
    ASSUME OrderInv, UNCHANGED <<scenario, call>>, order' \in Seq(Plugin)
    PROVE  OrderInv'
<1>1. CallsAhead'
  BY DEF OrderInv, CallsAhead, Ahead, Deps
<1> QED
  BY <1>1 DEF OrderInv

LEMMA EntryStep ==
    ASSUME OrderInv, NEW p \in Plugin, Register(p) \/ Unregister(p) \/ Enable(p) \/ Disable(p)
    PROVE  OrderInv'
<1>1. scenario \in Scenarios /\ order \in Seq(Plugin)
  BY DEF OrderInv
<1>2. UNCHANGED <<scenario, call>>
  BY DEF Register, Unregister, Enable, Disable, Happens, SameCalls
<1>3. order' \in Seq(Plugin)
  <2>1. CASE Register(p)
    BY <1>1, <2>1 DEF Register
  <2>2. CASE Unregister(p)
    <3>1. {i \in DOMAIN order : order[i] # p} \in SUBSET (1 .. Len(order))
      BY <1>1
    <3> QED
      BY <1>1, <2>2, <3>1, AtPicks DEF Unregister
  <2>3. CASE Enable(p) \/ Disable(p)
    BY <1>1, <2>3 DEF Enable, Disable
  <2> QED
    BY <2>1, <2>2, <2>3
<1> QED
  BY <1>2, <1>3, CallsStay

\* A call that is no initialize.
LEMMA OtherCallStep ==
    ASSUME OrderInv, NEW c \in Caller, Dispose(c) \/ PluginDisposed(c) \/ Flush(c)
    PROVE  OrderInv'
<1>1. /\ scenario \in Scenarios /\ order \in Seq(Plugin)
      /\ CallsAhead /\ UNCHANGED <<scenario, order>>
  BY DEF OrderInv, Dispose, PluginDisposed, Flush, Happens, Goes
<1> DEFINE flush == [Idle EXCEPT !.pc = "flush", !.upto = made]
           begun(todo) == [Idle EXCEPT !.pc = "dispose", !.todo = todo]
           gone(todo) == [call[c] EXCEPT !.todo = todo]
<1>4. DOMAIN flush = DOMAIN Idle /\ flush.pc = "flush" /\ Idle.pc = "idle"
  BY DEF Idle
<1>5. \A todo : DOMAIN begun(todo) = DOMAIN Idle /\ begun(todo).pc = "dispose"
  BY DEF Idle
<1>6. \A todo : DOMAIN gone(todo) = DOMAIN Idle /\ gone(todo).pc = call[c].pc
  BY <1>1 DEF CallsAhead, Idle
<1>7. \/ call' = [call EXCEPT ![c] = flush]
      \/ call' = [call EXCEPT ![c] = Idle]
      \/ \E todo : call' = [call EXCEPT ![c] = begun(todo)]
      \/ call[c].pc = "dispose" /\ \E todo : call' = [call EXCEPT ![c] = gone(todo)]
  BY DEF Dispose, PluginDisposed, Flush
<1> HIDE DEF flush, begun, gone
<1>8. PICK r : /\ call' = [call EXCEPT ![c] = r] /\ DOMAIN r = DOMAIN Idle
               /\ r.pc # "initialize"
  BY <1>4, <1>5, <1>6, <1>7
<1>9. CallsAhead'
  BY <1>1, <1>8, OthersAhead
<1> QED
  BY <1>1, <1>9 DEF OrderInv

LEMMA IdleCalls ==
    ASSUME call = [c \in Caller |-> Idle]
    PROVE  CallsAhead
  BY DEF CallsAhead, Idle

LEMMA CrashOrders ==
    ASSUME OrderInv, Crash
    PROVE  OrderInv'
<1>1. /\ scenario \in Scenarios /\ scenario' = scenario
      /\ order' = scenario.plugins /\ call' = [c \in Caller |-> Idle]
  BY DEF Crash, Happens, OrderInv
<1>2. CallsAhead'
  BY <1>1 DEF CallsAhead, Idle
<1> QED
  BY <1>1, <1>2, PluginAssumption DEF OrderInv

LEMMA OrderIsKept ==
    ASSUME OrderInv, [Next]_vars
    PROVE  OrderInv'
<1>1. ASSUME UNCHANGED <<managerVars, scenario>>
      PROVE  OrderInv'
  BY <1>1, CallsStay DEF managerVars, OrderInv
<1>2. ASSUME NEW p \in Plugin, Register(p) \/ Unregister(p) \/ Enable(p) \/ Disable(p)
      PROVE  OrderInv'
  BY <1>2, EntryStep
<1>3. ASSUME NEW c \in Caller, \/ Initialize(c) \/ InitializeRefused(c)
                               \/ PluginReady(c) \/ PluginFails(c)
                               \/ Dispose(c) \/ PluginDisposed(c) \/ Flush(c)
      PROVE  OrderInv'
  BY <1>1, <1>3, InitializeOrders, PluginIsOver, OtherCallStep DEF InitializeRefused, Happens
<1>4. ASSUME NEW o \in Owner, SetState(o) \/ ClearState(o) \/ StoreStep(o)
      PROVE  OrderInv'
  BY <1>1, <1>4 DEF SetState, ClearState, StoreStep, Happens, Goes
<1>5. ASSUME NEW x \in Execution, HookStep(x) \/ \E h \in HookName : ExecuteHook(x, h)
      PROVE  OrderInv'
  BY <1>1, <1>5 DEF HookStep, ExecuteHook, Happens, Goes
<1>6. CASE UNCHANGED vars
  BY <1>1, <1>6 DEF vars
<1>7. ASSUME NEW h \in HookName, NEW p \in Plugin,
             \/ HostUnregisters(h, p)
             \/ \E i \in Priority, e \in ErrorPolicy : HostRegisters(h, p, i, e)
      PROVE  OrderInv'
  BY <1>1, <1>7 DEF HostUnregisters, HostRegisters, Happens
<1> QED
  BY <1>2, <1>3, <1>4, <1>5, <1>6, <1>7, CrashOrders DEF Next

\* A plugin's onInitialize is called after that of each of its dependencies,
\* whatever their priorities and whatever happens meanwhile
\* (plugins/index.ts:81-124, 636-680).
THEOREM DependenciesAreFirst == Spec => []DependenciesFirst
<1>1. Init => OrderInv
  <2> SUFFICES ASSUME Init
               PROVE  OrderInv
    OBVIOUS
  <2>1. scenario \in Scenarios /\ order = scenario.plugins /\ call = [c \in Caller |-> Idle]
    BY DEF Init
  <2> QED
    BY <2>1, PluginAssumption, IdleCalls DEF OrderInv
<1>2. OrderInv /\ [Next]_vars => OrderInv'
  BY OrderIsKept
<1> QED
  BY <1>1, <1>2, OrderInvImplies, PTL DEF Spec

\* What the search for dependents found so far reaches id.
Complete(edges, id, found) ==
    found = {n \in {e.from : e \in edges} : Resolver!Reach({<<e.from, e.to>> : e \in edges}, n, id)}

\* The transitive dependents are all that reach a node.
LEMMA DependentsAreThoseThatReach ==
    ASSUME NEW edges, NEW id, IsFiniteSet({e.from : e \in edges})
    PROVE  Complete(edges, id, Resolver!TransitiveDependents(id, edges))
<1> DEFINE D == SUBSET {e.from : e \in edges}
           froms == {e.from : e \in edges}
           pairs == {<<e.from, e.to>> : e \in edges}
           more(found) == UNION {Resolver!Dependents(n, edges) : n \in found \cup {id}}
           next(found, f) == IF more(found) \subseteq found THEN found ELSE f[found \cup more(found)]
           Step == [p \in D \X [D -> D] |-> next(p[1], p[2])]
           a == [found \in D |-> Cardinality(froms \ found)]
           b == [found \in D |-> 0]
           Solves(f) == f = [found \in D |-> next(found, f)]
           search == CHOOSE f : Solves(f)
<1>1. Resolver!TransitiveDependents(id, edges) = search[{}]
  BY DEF Resolver!TransitiveDependents
<1>2. \A found : more(found) \in D
  BY DEF Resolver!Dependents
<1>3. \A found, m : m \in more(found) <=>
        \E n \in found \cup {id} : <<m, n>> \in pairs
  BY DEF Resolver!Dependents
<1> HIDE DEF more
<1>4. ASSUME NEW found \in D
      PROVE  Cardinality(froms \ found) \in Nat
  BY FS_Difference, FS_CardinalityType
<1>5. Measures(D, a, b)
  BY <1>4 DEF Measures
<1>6. ASSUME NEW found \in D, ~(more(found) \subseteq found)
      PROVE  found \cup more(found) \in D /\ Below(a, b, found \cup more(found), found)
  <2>1. found \cup more(found) \in D
    BY <1>2
  <2> DEFINE rest == froms \ found
             left == froms \ (found \cup more(found))
  <2>2. left \in SUBSET rest /\ left # rest /\ IsFiniteSet(rest)
    BY <1>2, <1>6, FS_Difference
  <2>3. Cardinality(left) <= Cardinality(rest) /\ Cardinality(left) # Cardinality(rest)
    <3> HIDE DEF left, rest
    <3> QED
      BY <2>2, FS_Subset
  <2>4. Cardinality(left) \in Nat /\ Cardinality(rest) \in Nat
    BY <1>4, <2>1
  <2>5. a[found \cup more(found)] = Cardinality(left) /\ a[found] = Cardinality(rest)
    BY <2>1
  <2> HIDE DEF left, rest, a, b
  <2> QED
    BY <2>1, <2>3, <2>4, <2>5 DEF Below
<1>7. Step \in [D \X [D -> D] -> D]
  <2>1. \A found \in D, f \in [D -> D] : next(found, f) \in D
    BY <1>6
  <2> HIDE DEF next
  <2> QED
    BY <2>1
<1>8. \A found \in D, f \in [D -> D] : Step[<<found, f>>] = next(found, f)
  OBVIOUS
<1>9. \A found \in D, f \in [D -> D], g \in [D -> D] :
        (\A y \in D : Below(a, b, y, found) => f[y] = g[y]) => Step[<<found, f>>] = Step[<<found, g>>]
  BY <1>6, <1>8
<1>10. Recurs(D, D, a, b, Step)
  <2> HIDE DEF Step, D, a, b
  <2> QED
    BY <1>5, <1>7, <1>9 DEF Recurs
<1>11. \E f : Solves(f)
  <2>1. D # {}
    OBVIOUS
  <2>2. PICK f \in [D -> D] : Follows(Step, f, D)
    <3> HIDE DEF Step, D, a, b
    <3> QED
      BY <1>10, <2>1, Recursion
  <2>3. \A found \in D : f[found] = next(found, f)
    BY <1>8, <2>2 DEF Follows
  <2>4. f = [found \in D |-> next(found, f)]
    <3> HIDE DEF next, D
    <3> QED
      BY <2>3
  <2> QED
    BY <2>4
<1>12. Solves(search)
  <2> HIDE DEF Solves
  <2> QED
    BY <1>11
<1> HIDE DEF search
<1>13. \A found \in D : search[found] = next(found, search)
  BY <1>12
\* All that was found reaches id, and it is closed in the end.
<1> DEFINE Reaches(found) == \A n \in found : Resolver!Reach(pairs, n, id)
           Sound(found) == Reaches(found) =>
                /\ search[found] \in D /\ Reaches(search[found])
                /\ more(search[found]) \subseteq search[found]
<1>14. \A found \in D : Sound(found)
  <2> DEFINE Bad == {found \in D : ~Sound(found)}
  <2>1. SUFFICES ASSUME Bad # {} PROVE FALSE
    OBVIOUS
  <2>2. PICK found \in Bad : \A y \in D : Below(a, b, y, found) => y \notin Bad
    <3>1. Bad \in SUBSET D
      OBVIOUS
    <3> HIDE DEF Bad, D, a, b
    <3> QED
      BY <1>5, <2>1, <3>1, LeastAmong
  <2>3. found \in D /\ Reaches(found) /\ ~Sound(found)
    BY <2>2
  <2>4. CASE more(found) \subseteq found
    BY <1>13, <2>3, <2>4
  <2>5. CASE ~(more(found) \subseteq found)
    <3>1. Sound(found \cup more(found))
      BY <1>6, <2>2, <2>3, <2>5
    <3>2. search[found] = search[found \cup more(found)]
      BY <1>13, <2>3, <2>5
    <3>3. ASSUME NEW n \in more(found) PROVE Resolver!Reach(pairs, n, id)
      <4>1. PICK m \in found \cup {id} : <<n, m>> \in pairs
        BY <1>3
      <4>2. Leads(pairs, m, id)
        BY <2>3, <4>1 DEF Leads
      <4> HIDE DEF pairs
      <4> QED
        BY <4>1, <4>2, LeadsOn
    <3>4. Reaches(found \cup more(found))
      BY <2>3, <3>3
    <3> HIDE DEF Reaches
    <3> QED
      BY <2>3, <3>1, <3>2, <3>4
  <2> QED
    BY <2>4, <2>5
<1> DEFINE R == search[{}]
<1>15. R \in D /\ Reaches(R) /\ more(R) \subseteq R
  BY <1>14
<1> HIDE DEF R
<1>16. ASSUME NEW n \in froms, Resolver!Reach(pairs, n, id), n \notin R
       PROVE  FALSE
  <2> DEFINE S == {p[2] : p \in pairs} \ (R \cup {id})
  <2>1. ASSUME NEW p \in pairs, p[1] \in S \cup {n} PROVE p[2] \in S
    <3>1. p = <<p[1], p[2]>> /\ p[1] \notin R
      BY <1>16, <2>1
    <3>2. p[2] \notin R \cup {id}
      BY <1>3, <1>15, <3>1
    <3> QED
      BY <3>2
  <2>2. id \in S
    <3> HIDE DEF S, pairs
    <3> QED
      BY <1>16, <2>1, ReachStays
  <2> QED
    BY <2>2
<1>17. R = {n \in froms : Resolver!Reach(pairs, n, id)}
  BY <1>15, <1>16
<1> QED
  BY <1>1, <1>17 DEF Complete, R

-----------------------------------------------------------------------------
(* The search of the advanced resolver. *)

\* The calls that a call makes.
Deeper(reg, c) == [path |-> Append(c.path, Head(c.todo).id),
                   todo |-> Resolver!ChosenFor(reg, Head(c.todo).id).deps, found |-> c.found]
WithId(found, id) == [found EXCEPT !.ids = Append(@, id)]

LeftBelow(depth, bound) == IF depth <= bound THEN bound + 1 - depth ELSE 0
AdvancedRoom == [c \in Resolver!AdvancedCall |-> LeftBelow(Len(c.path), MaxDepth)]
AdvancedLeft == [c \in Resolver!AdvancedCall |-> Len(c.todo)]

LEMMA LeftBelowLess ==
    ASSUME NEW n \in Nat, NEW bound \in Nat, ~(n > bound)
    PROVE  LeftBelow(n + 1, bound) < LeftBelow(n, bound)
  BY DEF LeftBelow

LEMMA VisitNodeCases ==
    ASSUME NEW reg, NEW skip, NEW c, NEW f
    PROVE  LET d == Head(c.todo)
           IN  Resolver!VisitNode(reg, skip, c, f) =
                 IF c.todo = <<>> THEN c.found
                 ELSE IF Len(c.path) > MaxDepth THEN [c.found EXCEPT !.error = "depth"]
                 ELSE IF d.id \in Resolver!Range(c.path)
                 THEN f[Rest(c, [c.found EXCEPT !.circular = @ \cup {d.id}])]
                 ELSE IF d.id \in Resolver!Range(c.found.ids) THEN f[Rest(c, c.found)]
                 ELSE IF Resolver!Listed(reg, d.id) = {}
                 THEN IF c.path # <<>> /\ (d.optional \/ skip)
                      THEN f[Rest(c, [c.found EXCEPT !.unavailable = @ \cup {d.id}])]
                      ELSE [c.found EXCEPT !.error = "missing"]
                 ELSE IF f[Deeper(reg, c)].error # "none" THEN f[Deeper(reg, c)]
                 ELSE f[Rest(c, WithId(f[Deeper(reg, c)], d.id))]
  BY DEF Resolver!VisitNode, Rest, Deeper, WithId

\* The parts of a list that is not empty.
LEMMA HeadAndTail ==
    ASSUME NEW S, NEW list \in Seq(S), list # <<>>
    PROVE  /\ Head(list) \in S /\ Tail(list) \in Seq(S)
           /\ Len(list) \in Nat /\ Len(Tail(list)) \in Nat /\ Len(Tail(list)) = Len(list) - 1
           /\ Resolver!Range(list) = {Head(list)} \cup Resolver!Range(Tail(list))
<1>1. /\ Head(list) \in S /\ Tail(list) \in Seq(S)
      /\ Len(Tail(list)) = Len(list) - 1 /\ Len(list) \in Nat
      /\ \A i \in 1 .. Len(list) - 1 : Tail(list)[i] = list[i + 1]
      /\ Head(list) = list[1] /\ Len(list) >= 1
  OBVIOUS
<1>2. ASSUME NEW i \in DOMAIN list
      PROVE  list[i] \in {Head(list)} \cup Resolver!Range(Tail(list))
  <2>1. CASE i = 1
    BY <1>1, <2>1
  <2>2. CASE i # 1
    <3>1. i - 1 \in 1 .. Len(list) - 1 /\ Tail(list)[i - 1] = list[i]
      BY <1>1, <2>2
    <3> QED
      BY <1>1, <3>1 DEF Resolver!Range
  <2> QED
    BY <2>1, <2>2
<1>3. ASSUME NEW i \in DOMAIN Tail(list)
      PROVE  Tail(list)[i] \in Resolver!Range(list)
  <2>1. i + 1 \in DOMAIN list /\ Tail(list)[i] = list[i + 1]
    BY <1>1
  <2> QED
    BY <2>1 DEF Resolver!Range
<1>4. Head(list) \in Resolver!Range(list)
  BY <1>1 DEF Resolver!Range
<1> QED
  BY <1>1, <1>2, <1>3, <1>4 DEF Resolver!Range

LEMMA RangeOfAppend ==
    ASSUME NEW S, NEW list \in Seq(S), NEW x \in S
    PROVE  /\ Append(list, x) \in Seq(S) /\ Len(Append(list, x)) = Len(list) + 1
           /\ Len(list) \in Nat
           /\ Resolver!Range(Append(list, x)) = Resolver!Range(list) \cup {x}
           /\ Resolver!Range(list) \subseteq S
<1>1. /\ Append(list, x) \in Seq(S) /\ Len(Append(list, x)) = Len(list) + 1 /\ Len(list) \in Nat
      /\ DOMAIN list = 1 .. Len(list) /\ DOMAIN Append(list, x) = 1 .. Len(list) + 1
      /\ \A i \in 1 .. Len(list) : Append(list, x)[i] = list[i]
      /\ Append(list, x)[Len(list) + 1] = x
  OBVIOUS
<1> QED
  BY <1>1 DEF Resolver!Range

LEMMA AdvancedMeasures == Measures(Resolver!AdvancedCall, AdvancedRoom, AdvancedLeft)
<1>1. MaxDepth \in Nat
  BY ResolverAssumption
<1>2. ASSUME NEW c \in Resolver!AdvancedCall
      PROVE  LeftBelow(Len(c.path), MaxDepth) \in Nat /\ Len(c.todo) \in Nat
  <2>1. c.path \in Seq(Id) /\ c.todo \in Seq(Resolver!Dependency)
    BY DEF Resolver!AdvancedCall
  <2>2. Len(c.path) \in Nat /\ Len(c.todo) \in Nat
    BY <2>1
  <2> QED
    BY <1>1, <2>2 DEF LeftBelow
<1> QED
  BY <1>2 DEF Measures, AdvancedRoom, AdvancedLeft

LEMMA AdvancedRestIsBelow ==
    ASSUME NEW c \in Resolver!AdvancedCall, c.todo # <<>>, NEW found \in Resolver!AdvancedGraph
    PROVE  /\ Rest(c, found) \in Resolver!AdvancedCall
           /\ Below(AdvancedRoom, AdvancedLeft, Rest(c, found), c)
<1>1. c.path \in Seq(Id) /\ c.todo \in Seq(Resolver!Dependency)
  BY DEF Resolver!AdvancedCall
<1>2. /\ Tail(c.todo) \in Seq(Resolver!Dependency)
      /\ Len(Tail(c.todo)) \in Nat /\ Len(c.todo) \in Nat /\ Len(Tail(c.todo)) = Len(c.todo) - 1
  BY <1>1, HeadAndTail
<1>3. Rest(c, found) \in Resolver!AdvancedCall
  BY <1>1, <1>2 DEF Rest, Resolver!AdvancedCall
<1>4. /\ AdvancedRoom[Rest(c, found)] = AdvancedRoom[c]
      /\ AdvancedLeft[Rest(c, found)] = Len(Tail(c.todo)) /\ AdvancedLeft[c] = Len(c.todo)
  BY <1>3 DEF AdvancedRoom, AdvancedLeft, Rest
<1> QED
  BY <1>2, <1>3, <1>4 DEF Below

LEMMA ChosenDeps ==
    ASSUME NEW reg \in Seq(Resolver!Resource), NEW id, Resolver!Listed(reg, id) # {}
    PROVE  Resolver!ChosenFor(reg, id).deps \in Seq(Resolver!Dependency)
<1>1. Resolver!ChosenFor(reg, id) \in Resolver!Resource
  BY ChosenIsThere
<1> QED
  BY <1>1 DEF Resolver!Resource

LEMMA DeeperIsBelow ==
    ASSUME NEW reg \in Seq(Resolver!Resource),
           NEW c \in Resolver!AdvancedCall, c.todo # <<>>, ~(Len(c.path) > MaxDepth),
           Resolver!Listed(reg, Head(c.todo).id) # {}
    PROVE  /\ Deeper(reg, c) \in Resolver!AdvancedCall
           /\ Below(AdvancedRoom, AdvancedLeft, Deeper(reg, c), c)
           /\ Head(c.todo).id \in Id
<1>1. c.path \in Seq(Id) /\ c.todo \in Seq(Resolver!Dependency) /\ c.found \in Resolver!AdvancedGraph
  BY DEF Resolver!AdvancedCall
<1> DEFINE id == Head(c.todo).id
<1>2. id \in Id
  <2>1. Head(c.todo) \in Resolver!Dependency
    BY <1>1
  <2> QED
    BY <2>1 DEF Resolver!Dependency
<1>3. Resolver!ChosenFor(reg, id).deps \in Seq(Resolver!Dependency)
  BY ChosenDeps
<1>4. Append(c.path, id) \in Seq(Id) /\ Len(Append(c.path, id)) = Len(c.path) + 1
      /\ Len(c.path) \in Nat /\ MaxDepth \in Nat
  BY <1>1, <1>2, ResolverAssumption
<1>5. Deeper(reg, c) \in Resolver!AdvancedCall
  BY <1>1, <1>3, <1>4 DEF Deeper, Resolver!AdvancedCall
<1>6. /\ AdvancedRoom[Deeper(reg, c)] = LeftBelow(Len(c.path) + 1, MaxDepth)
      /\ AdvancedRoom[c] = LeftBelow(Len(c.path), MaxDepth)
  BY <1>4, <1>5 DEF AdvancedRoom, Deeper
<1>7. LeftBelow(Len(c.path) + 1, MaxDepth) < LeftBelow(Len(c.path), MaxDepth)
  BY <1>4, LeftBelowLess
<1> QED
  BY <1>2, <1>5, <1>6, <1>7 DEF Below

\* What a listed id needs.
Needs(reg) == {p \in Id \X Id : /\ Resolver!Listed(reg, p[1]) # {}
                                /\ \E d \in Resolver!Range(Resolver!ChosenFor(reg, p[1]).deps) : d.id = p[2]}

\* What the search finds in a call: what is to do, and what that needs.
Finds(reg, path, todo, found, r) ==
    /\ r \in Resolver!AdvancedGraph
    /\ r.error = "none" =>
          /\ Resolver!Range(found.ids) \subseteq Resolver!Range(r.ids)
          /\ \A d \in Resolver!Range(todo) :
                \/ d.id \in Resolver!Range(r.ids) \cup Resolver!Range(path)
                \/ path # <<>> /\ Resolver!Listed(reg, d.id) = {}
          /\ \A n \in Resolver!Range(r.ids) \ Resolver!Range(found.ids) :
                /\ Resolver!Listed(reg, n) # {}
                /\ \E d \in Resolver!Range(todo) : Leads(Needs(reg), d.id, n)
                /\ \A m : <<n, m>> \in Needs(reg) =>
                      \/ m \in Resolver!Range(r.ids) \cup Resolver!Range(path)
                      \/ Resolver!Listed(reg, m) = {}

LEMMA GraphsOfCalls ==
    ASSUME NEW found \in Resolver!AdvancedGraph, NEW id \in Id
    PROVE  /\ [found EXCEPT !.circular = @ \cup {id}] \in Resolver!AdvancedGraph
           /\ [found EXCEPT !.circular = @ \cup {id}].ids = found.ids
           /\ [found EXCEPT !.unavailable = @ \cup {id}] \in Resolver!AdvancedGraph
           /\ [found EXCEPT !.unavailable = @ \cup {id}].ids = found.ids
           /\ \A error \in {"missing", "depth"} :
                 /\ [found EXCEPT !.error = error] \in Resolver!AdvancedGraph
                 /\ [found EXCEPT !.error = error].error = error
           /\ WithId(found, id) \in Resolver!AdvancedGraph
           /\ Resolver!Range(WithId(found, id).ids) = Resolver!Range(found.ids) \cup {id}
<1>1. /\ found.ids \in Seq(Id) /\ found.circular \in SUBSET Id /\ found.unavailable \in SUBSET Id
      /\ found.error \in {"none", "missing", "depth"}
      /\ found = [ids |-> found.ids, circular |-> found.circular,
                  unavailable |-> found.unavailable, error |-> found.error]
  BY DEF Resolver!AdvancedGraph
<1>2. Append(found.ids, id) \in Seq(Id)
      /\ Resolver!Range(Append(found.ids, id)) = Resolver!Range(found.ids) \cup {id}
  BY <1>1, RangeOfAppend
<1>3. WithId(found, id).ids = Append(found.ids, id) /\ WithId(found, id) \in Resolver!AdvancedGraph
  BY <1>1, <1>2 DEF WithId, Resolver!AdvancedGraph
<1>4. /\ [found EXCEPT !.circular = @ \cup {id}] \in Resolver!AdvancedGraph
      /\ [found EXCEPT !.unavailable = @ \cup {id}] \in Resolver!AdvancedGraph
  BY <1>1 DEF Resolver!AdvancedGraph
<1>5. \A error \in {"missing", "depth"} :
         /\ [found EXCEPT !.error = error] \in Resolver!AdvancedGraph
         /\ [found EXCEPT !.error = error].error = error
  BY <1>1 DEF Resolver!AdvancedGraph
<1>6. [found EXCEPT !.circular = @ \cup {id}].ids = found.ids
      /\ [found EXCEPT !.unavailable = @ \cup {id}].ids = found.ids
  BY <1>1
<1> QED
  BY <1>2, <1>3, <1>4, <1>5, <1>6

\* The search goes on when the first one is on the path, found, or not listed.
LEMMA FindsRest ==
    ASSUME NEW reg, NEW path, NEW todo \in Seq(Resolver!Dependency), todo # <<>>,
           NEW found, NEW more, NEW r, more.ids = found.ids,
           Finds(reg, path, Tail(todo), more, r),
           \/ Head(todo).id \in Resolver!Range(path) \cup Resolver!Range(found.ids)
           \/ path # <<>> /\ Resolver!Listed(reg, Head(todo).id) = {}
    PROVE  Finds(reg, path, todo, found, r)
<1>1. Resolver!Range(todo) = {Head(todo)} \cup Resolver!Range(Tail(todo))
  BY HeadAndTail
<1> QED
  BY <1>1 DEF Finds

\* Or when what it needs was found, and then itself.
LEMMA FindsDeeper ==
    ASSUME NEW reg \in Seq(Resolver!Resource),
           NEW path \in Seq(Id), NEW todo \in Seq(Resolver!Dependency), todo # <<>>,
           NEW found \in Resolver!AdvancedGraph, NEW after, NEW r,
           Resolver!Listed(reg, Head(todo).id) # {},
           Finds(reg, Append(path, Head(todo).id), Resolver!ChosenFor(reg, Head(todo).id).deps, found, after),
           after.error = "none",
           Finds(reg, path, Tail(todo), WithId(after, Head(todo).id), r)
    PROVE  Finds(reg, path, todo, found, r)
<1> DEFINE id == Head(todo).id
           deps == Resolver!ChosenFor(reg, id).deps
           P == Resolver!Range(path)
           old == Resolver!Range(found.ids)
           mid == Resolver!Range(after.ids)
           new == Resolver!Range(r.ids)
<1>1. Head(todo) \in Resolver!Dependency
      /\ Resolver!Range(todo) = {Head(todo)} \cup Resolver!Range(Tail(todo))
  BY HeadAndTail
<1>2. id \in Id /\ after \in Resolver!AdvancedGraph
  BY <1>1 DEF Resolver!Dependency, Finds
<1>3. Resolver!Range(Append(path, id)) = P \cup {id}
  BY <1>2, RangeOfAppend
<1>4. Resolver!Range(WithId(after, id).ids) = mid \cup {id}
  <2> HIDE DEF id
  <2> QED
    BY <1>2, GraphsOfCalls
<1>5. \A d \in Resolver!Range(deps) : <<id, d.id>> \in Needs(reg)
  <2>1. deps \in Seq(Resolver!Dependency)
    BY ChosenDeps
  <2>2. \A d \in Resolver!Range(deps) : d.id \in Id
    <3> HIDE DEF deps
    <3>1. \A d \in Resolver!Range(deps) : d \in Resolver!Dependency
      BY <2>1 DEF Resolver!Range
    <3>2. \A d \in Resolver!Dependency : d.id \in Id
      BY DEF Resolver!Dependency
    <3> QED
      BY <3>1, <3>2
  <2> QED
    BY <1>2, <2>2 DEF Needs
<1>6. \A m : <<id, m>> \in Needs(reg) => \E d \in Resolver!Range(deps) : d.id = m
  BY DEF Needs
<1>7. /\ old \subseteq mid
      /\ \A d \in Resolver!Range(deps) :
            d.id \in mid \cup P \cup {id} \/ Resolver!Listed(reg, d.id) = {}
      /\ \A n \in mid \ old :
            /\ Resolver!Listed(reg, n) # {}
            /\ \E d \in Resolver!Range(deps) : Leads(Needs(reg), d.id, n)
            /\ \A m : <<n, m>> \in Needs(reg) =>
                  m \in mid \cup P \cup {id} \/ Resolver!Listed(reg, m) = {}
  BY <1>3 DEF Finds
<1>8. CASE r.error = "none"
  <2>1. /\ mid \cup {id} \subseteq new
        /\ \A d \in Resolver!Range(Tail(todo)) :
              d.id \in new \cup P \/ (path # <<>> /\ Resolver!Listed(reg, d.id) = {})
        /\ \A n \in new \ (mid \cup {id}) :
              /\ Resolver!Listed(reg, n) # {}
              /\ \E d \in Resolver!Range(Tail(todo)) : Leads(Needs(reg), d.id, n)
              /\ \A m : <<n, m>> \in Needs(reg) =>
                    m \in new \cup P \/ Resolver!Listed(reg, m) = {}
    BY <1>4, <1>8 DEF Finds
  <2>2. ASSUME NEW n \in new \ old
        PROVE  /\ Resolver!Listed(reg, n) # {}
               /\ \E d \in Resolver!Range(todo) : Leads(Needs(reg), d.id, n)
               /\ \A m : <<n, m>> \in Needs(reg) =>
                     m \in new \cup P \/ Resolver!Listed(reg, m) = {}
    <3>1. CASE n = id
      <4>1. \A m : <<id, m>> \in Needs(reg) => m \in new \cup P \/ Resolver!Listed(reg, m) = {}
        BY <1>6, <1>7, <2>1
      <4>2. Leads(Needs(reg), Head(todo).id, id)
        BY DEF Leads
      <4> QED
        BY <1>1, <3>1, <4>1, <4>2
    <3>2. CASE n \in mid
      <4>1. PICK d \in Resolver!Range(deps) : Leads(Needs(reg), d.id, n)
        BY <1>7, <2>2, <3>2
      <4>2. Leads(Needs(reg), id, n)
        <5> HIDE DEF id, deps
        <5> QED
          BY <1>5, <4>1, LeadsOn DEF Leads
      <4>3. Leads(Needs(reg), Head(todo).id, n)
        BY <4>2
      <4> QED
        BY <1>1, <1>7, <2>1, <2>2, <3>2, <4>3
    <3>3. CASE n # id /\ n \notin mid
      BY <1>1, <2>1, <2>2, <3>3
    <3> QED
      BY <3>1, <3>2, <3>3
  <2>3. \A d \in Resolver!Range(todo) :
           d.id \in new \cup P \/ (path # <<>> /\ Resolver!Listed(reg, d.id) = {})
    BY <1>1, <2>1
  <2>4. old \subseteq new
    BY <1>7, <2>1
  <2> QED
    BY <2>2, <2>3, <2>4 DEF Finds
<1>9. CASE r.error # "none"
  BY <1>9 DEF Finds
<1> QED
  BY <1>8, <1>9

\* A call of the search finds what it should when those below it do.
LEMMA VisitNodeFinds ==
    ASSUME NEW reg \in Seq(Resolver!Resource), NEW skip, NEW c \in Resolver!AdvancedCall, NEW f,
           \A d \in Resolver!AdvancedCall : Below(AdvancedRoom, AdvancedLeft, d, c) =>
               Finds(reg, d.path, d.todo, d.found, f[d])
    PROVE  Finds(reg, c.path, c.todo, c.found, Resolver!VisitNode(reg, skip, c, f))
<1> DEFINE id == Head(c.todo).id
           optional == c.path # <<>> /\ (Head(c.todo).optional \/ skip)
           r == Resolver!VisitNode(reg, skip, c, f)
           graph(found) == Finds(reg, c.path, Tail(c.todo), found, f[Rest(c, found)])
<1> SUFFICES Finds(reg, c.path, c.todo, c.found, r)
  OBVIOUS
<1>1. r = IF c.todo = <<>> THEN c.found
          ELSE IF Len(c.path) > MaxDepth THEN [c.found EXCEPT !.error = "depth"]
          ELSE IF id \in Resolver!Range(c.path)
          THEN f[Rest(c, [c.found EXCEPT !.circular = @ \cup {id}])]
          ELSE IF id \in Resolver!Range(c.found.ids) THEN f[Rest(c, c.found)]
          ELSE IF Resolver!Listed(reg, id) = {}
          THEN IF optional
               THEN f[Rest(c, [c.found EXCEPT !.unavailable = @ \cup {id}])]
               ELSE [c.found EXCEPT !.error = "missing"]
          ELSE IF f[Deeper(reg, c)].error # "none" THEN f[Deeper(reg, c)]
          ELSE f[Rest(c, WithId(f[Deeper(reg, c)], id))]
  BY VisitNodeCases
<1> HIDE DEF r
<1>2. /\ c.path \in Seq(Id) /\ c.todo \in Seq(Resolver!Dependency)
      /\ c.found \in Resolver!AdvancedGraph
  BY DEF Resolver!AdvancedCall
<1>3. ASSUME c.todo # <<>>, NEW found \in Resolver!AdvancedGraph
      PROVE  graph(found)
  <2>1. Rest(c, found) \in Resolver!AdvancedCall
        /\ Below(AdvancedRoom, AdvancedLeft, Rest(c, found), c)
    BY <1>3, AdvancedRestIsBelow
  <2>2. Rest(c, found).path = c.path /\ Rest(c, found).todo = Tail(c.todo)
        /\ Rest(c, found).found = found
    BY DEF Rest
  <2> QED
    BY <2>1, <2>2
<1>4. c.todo # <<>> => id \in Id
  <2>1. \A d \in Resolver!Dependency : d.id \in Id
    BY DEF Resolver!Dependency
  <2> QED
    BY <1>2, <2>1
<1> HIDE DEF id
<1>5. CASE c.todo = <<>>
  <2>1. r = c.found /\ Resolver!Range(c.todo) = {}
    BY <1>1, <1>5 DEF Resolver!Range
  <2> QED
    BY <1>2, <2>1 DEF Finds
<1>6. CASE c.todo # <<>> /\ r \in Resolver!AdvancedGraph /\ r.error # "none"
  BY <1>6 DEF Finds
<1>7. ASSUME c.todo # <<>>, NEW found \in Resolver!AdvancedGraph, found.ids = c.found.ids,
             \/ id \in Resolver!Range(c.path) \cup Resolver!Range(c.found.ids)
             \/ optional /\ Resolver!Listed(reg, id) = {},
             r = f[Rest(c, found)]
      PROVE  Finds(reg, c.path, c.todo, c.found, r)
  <2>1. Finds(reg, c.path, Tail(c.todo), found, r)
    BY <1>3, <1>7
  <2> QED
    BY <1>2, <1>7, <2>1, FindsRest DEF id
<1>8. CASE c.todo # <<>> /\ Len(c.path) > MaxDepth
  <2>1. r = [c.found EXCEPT !.error = "depth"]
    BY <1>1, <1>8
  <2>2. r \in Resolver!AdvancedGraph /\ r.error = "depth"
    BY <1>2, <1>4, <1>8, <2>1, GraphsOfCalls
  <2> QED
    BY <1>6, <1>8, <2>2
<1>9. CASE c.todo # <<>> /\ ~(Len(c.path) > MaxDepth) /\ id \in Resolver!Range(c.path)
  <2> DEFINE found == [c.found EXCEPT !.circular = @ \cup {id}]
  <2>1. found \in Resolver!AdvancedGraph /\ found.ids = c.found.ids
    BY <1>2, <1>4, <1>9, GraphsOfCalls
  <2>2. r = f[Rest(c, found)]
    BY <1>1, <1>9
  <2> HIDE DEF found
  <2> QED
    BY <1>7, <1>9, <2>1, <2>2
<1>10. CASE c.todo # <<>> /\ ~(Len(c.path) > MaxDepth) /\ id \notin Resolver!Range(c.path)
            /\ id \in Resolver!Range(c.found.ids)
  BY <1>1, <1>2, <1>7, <1>10
<1>11. CASE c.todo # <<>> /\ ~(Len(c.path) > MaxDepth) /\ id \notin Resolver!Range(c.path)
            /\ id \notin Resolver!Range(c.found.ids) /\ Resolver!Listed(reg, id) = {}
  <2> DEFINE found == [c.found EXCEPT !.unavailable = @ \cup {id}]
             none == [c.found EXCEPT !.error = "missing"]
  <2>1. found \in Resolver!AdvancedGraph /\ found.ids = c.found.ids
        /\ none \in Resolver!AdvancedGraph /\ none.error = "missing"
    BY <1>2, <1>4, <1>11, GraphsOfCalls
  <2>2. IF optional THEN r = f[Rest(c, found)] ELSE r = none
    BY <1>1, <1>11
  <2> HIDE DEF found, none, optional
  <2>3. CASE optional
    BY <1>7, <1>11, <2>1, <2>2, <2>3
  <2>4. CASE ~optional
    BY <1>6, <1>11, <2>1, <2>2, <2>4
  <2> QED
    BY <2>3, <2>4
<1>12. CASE c.todo # <<>> /\ ~(Len(c.path) > MaxDepth) /\ id \notin Resolver!Range(c.path)
            /\ id \notin Resolver!Range(c.found.ids) /\ Resolver!Listed(reg, id) # {}
  <2> DEFINE after == f[Deeper(reg, c)]
             deps == Resolver!ChosenFor(reg, id).deps
  <2>1. Deeper(reg, c) \in Resolver!AdvancedCall
        /\ Below(AdvancedRoom, AdvancedLeft, Deeper(reg, c), c)
    BY <1>12, DeeperIsBelow DEF id
  <2>2. Deeper(reg, c).path = Append(c.path, id) /\ Deeper(reg, c).todo = deps
        /\ Deeper(reg, c).found = c.found
    BY DEF Deeper, id
  <2>3. Finds(reg, Append(c.path, id), deps, c.found, after)
    BY <2>1, <2>2
  <2>4. after \in Resolver!AdvancedGraph
    BY <2>3 DEF Finds
  <2>5. IF after.error # "none" THEN r = after ELSE r = f[Rest(c, WithId(after, id))]
    BY <1>1, <1>12
  <2> HIDE DEF after, deps
  <2>6. CASE after.error # "none"
    BY <1>6, <1>12, <2>4, <2>5, <2>6
  <2>7. CASE after.error = "none"
    <3>1. WithId(after, id) \in Resolver!AdvancedGraph
      BY <1>4, <1>12, <2>4, GraphsOfCalls
    <3>2. Finds(reg, c.path, Tail(c.todo), WithId(after, id), r)
      BY <1>3, <1>12, <2>5, <2>7, <3>1
    <3> QED
      BY <1>2, <1>12, <2>3, <2>7, <3>2, FindsDeeper DEF id, deps
  <2> QED
    BY <2>6, <2>7
<1> QED
  BY <1>5, <1>8, <1>9, <1>10, <1>11, <1>12

LEMMA VisitNodeIsLocal ==
    ASSUME NEW reg \in Seq(Resolver!Resource), NEW skip, NEW c \in Resolver!AdvancedCall,
           NEW f \in [Resolver!AdvancedCall -> Resolver!AdvancedGraph],
           NEW g \in [Resolver!AdvancedCall -> Resolver!AdvancedGraph],
           \A d \in Resolver!AdvancedCall : Below(AdvancedRoom, AdvancedLeft, d, c) => f[d] = g[d]
    PROVE  /\ Resolver!VisitNode(reg, skip, c, f) = Resolver!VisitNode(reg, skip, c, g)
           /\ Resolver!VisitNode(reg, skip, c, f) \in Resolver!AdvancedGraph
<1> DEFINE id == Head(c.todo).id
           deeper == ~(c.todo = <<>> \/ Len(c.path) > MaxDepth \/ Resolver!Listed(reg, id) = {})
<1>1. /\ c.todo \in Seq(Resolver!Dependency) /\ c.found \in Resolver!AdvancedGraph
  BY DEF Resolver!AdvancedCall
<1>2. c.todo # <<>> => id \in Id
  <2>1. \A d \in Resolver!Dependency : d.id \in Id
    BY DEF Resolver!Dependency
  <2> QED
    BY <1>1, <2>1
<1>3. ASSUME c.todo # <<>>, NEW found \in Resolver!AdvancedGraph
      PROVE  f[Rest(c, found)] = g[Rest(c, found)] /\ f[Rest(c, found)] \in Resolver!AdvancedGraph
  BY <1>3, AdvancedRestIsBelow
<1>4. deeper => /\ f[Deeper(reg, c)] = g[Deeper(reg, c)]
                /\ f[Deeper(reg, c)] \in Resolver!AdvancedGraph
  <2>1. deeper => Deeper(reg, c) \in Resolver!AdvancedCall
                  /\ Below(AdvancedRoom, AdvancedLeft, Deeper(reg, c), c)
    BY DeeperIsBelow
  <2> QED
    BY <2>1
<1>5. c.todo # <<>> =>
        /\ [c.found EXCEPT !.circular = @ \cup {id}] \in Resolver!AdvancedGraph
        /\ [c.found EXCEPT !.unavailable = @ \cup {id}] \in Resolver!AdvancedGraph
        /\ [c.found EXCEPT !.error = "missing"] \in Resolver!AdvancedGraph
        /\ [c.found EXCEPT !.error = "depth"] \in Resolver!AdvancedGraph
        /\ deeper => WithId(f[Deeper(reg, c)], id) \in Resolver!AdvancedGraph
  <2> HIDE DEF id, deeper
  <2>1. CASE c.todo # <<>>
    BY <1>1, <1>2, <1>4, <2>1, GraphsOfCalls
  <2> QED
    BY <2>1
<1>6. \A h : Resolver!VisitNode(reg, skip, c, h) =
          IF c.todo = <<>> THEN c.found
          ELSE IF Len(c.path) > MaxDepth THEN [c.found EXCEPT !.error = "depth"]
          ELSE IF id \in Resolver!Range(c.path)
          THEN h[Rest(c, [c.found EXCEPT !.circular = @ \cup {id}])]
          ELSE IF id \in Resolver!Range(c.found.ids) THEN h[Rest(c, c.found)]
          ELSE IF Resolver!Listed(reg, id) = {}
          THEN IF c.path # <<>> /\ (Head(c.todo).optional \/ skip)
               THEN h[Rest(c, [c.found EXCEPT !.unavailable = @ \cup {id}])]
               ELSE [c.found EXCEPT !.error = "missing"]
          ELSE IF h[Deeper(reg, c)].error # "none" THEN h[Deeper(reg, c)]
          ELSE h[Rest(c, WithId(h[Deeper(reg, c)], id))]
  BY VisitNodeCases
<1> HIDE DEF id
<1>7. CASE c.todo = <<>>
  BY <1>1, <1>6, <1>7
<1>8. CASE c.todo # <<>> /\ ~deeper
  BY <1>1, <1>3, <1>5, <1>6, <1>8
<1>9. CASE c.todo # <<>> /\ deeper
  <2>1. f[Deeper(reg, c)] = g[Deeper(reg, c)] /\ f[Deeper(reg, c)] \in Resolver!AdvancedGraph
    BY <1>4, <1>9
  <2> QED
    BY <1>1, <1>3, <1>5, <1>6, <1>9, <2>1
<1> QED
  BY <1>7, <1>8, <1>9

\* The search finds the listed ids that its root leads to.
Reached(reg, root, ids) ==
    ids = {n \in Id : Resolver!Listed(reg, n) # {} /\ Leads(Needs(reg), root, n)}

LEMMA SearchReaches ==
    ASSUME NEW reg \in Seq(Resolver!Resource), NEW root \in Id, NEW skip
    PROVE  /\ Resolver!Search(reg, root, skip) \in Resolver!AdvancedGraph
           /\ Resolver!Search(reg, root, skip).error = "none" =>
                 /\ Reached(reg, root, Resolver!Range(Resolver!Search(reg, root, skip).ids))
                 /\ root \in Resolver!Range(Resolver!Search(reg, root, skip).ids)
<1> DEFINE D == Resolver!AdvancedCall
           G == Resolver!AdvancedGraph
           Step == [p \in D \X [D -> G] |-> Resolver!VisitNode(reg, skip, p[1], p[2])]
           v == [ids |-> <<>>, circular |-> {}, unavailable |-> {}, error |-> "none"]
           Solves(f) == f = [c \in D |-> Resolver!VisitNode(reg, skip, c, f)]
           visit == CHOOSE f : Solves(f)
           first == [path |-> <<>>, todo |-> <<Resolver!RootDep(root)>>, found |-> v]
<1>1. v \in G /\ first \in D
  <2>1. Resolver!RootDep(root) \in Resolver!Dependency
    BY DEF Resolver!RootDep, Resolver!Dependency, Resolver!VersionRange, Resolver!AnyVersion,
           Resolver!RangeOf, Resolver!V, Resolver!Operator, Resolver!Version
  <2> QED
    BY <2>1 DEF Resolver!AdvancedCall, Resolver!AdvancedGraph
<1>2. \A c \in D, f \in [D -> G] : Step[<<c, f>>] = Resolver!VisitNode(reg, skip, c, f)
  OBVIOUS
<1>3. Step \in [D \X [D -> G] -> G]
  <2>1. \A c \in D, f \in [D -> G] : Resolver!VisitNode(reg, skip, c, f) \in G
    BY VisitNodeIsLocal
  <2> QED
    BY <2>1
<1>4. \A c \in D, f \in [D -> G], g \in [D -> G] :
        (\A d \in D : Below(AdvancedRoom, AdvancedLeft, d, c) => f[d] = g[d])
          => Step[<<c, f>>] = Step[<<c, g>>]
  BY <1>2, VisitNodeIsLocal
<1>5. Recurs(D, G, AdvancedRoom, AdvancedLeft, Step)
  <2> HIDE DEF Step
  <2> QED
    BY <1>3, <1>4, AdvancedMeasures DEF Recurs
<1>6. \E f : Solves(f)
  <2>1. G # {}
    BY <1>1
  <2>2. PICK f \in [D -> G] : Follows(Step, f, D)
    <3> HIDE DEF Step
    <3> QED
      BY <1>5, <2>1, Recursion
  <2>3. \A c \in D : f[c] = Resolver!VisitNode(reg, skip, c, f)
    BY <1>2, <2>2 DEF Follows
  <2> QED
    BY <2>3
<1>7. Solves(visit)
  <2> HIDE DEF Solves
  <2> QED
    BY <1>6
<1>8. Resolver!Search(reg, root, skip) = visit[first]
  BY DEF Resolver!Search
<1> HIDE DEF visit
<1>9. \A c \in D : visit[c] = Resolver!VisitNode(reg, skip, c, visit)
  BY <1>7
<1>10. \A c \in D : Finds(reg, c.path, c.todo, c.found, visit[c])
  <2> DEFINE Bad == {c \in D : ~Finds(reg, c.path, c.todo, c.found, visit[c])}
  <2>1. SUFFICES ASSUME Bad # {} PROVE FALSE
    OBVIOUS
  <2>2. PICK c \in Bad : \A d \in D : Below(AdvancedRoom, AdvancedLeft, d, c) => d \notin Bad
    <3>1. Bad \in SUBSET D
      OBVIOUS
    <3> HIDE DEF Bad
    <3> QED
      BY <2>1, <3>1, AdvancedMeasures, LeastAmong
  <2>3. \A d \in D : Below(AdvancedRoom, AdvancedLeft, d, c) =>
            Finds(reg, d.path, d.todo, d.found, visit[d])
    BY <2>2
  <2>4. Finds(reg, c.path, c.todo, c.found, Resolver!VisitNode(reg, skip, c, visit))
    BY <2>3, VisitNodeFinds
  <2> QED
    BY <1>9, <2>4
<1> DEFINE r == visit[first]
           ids == Resolver!Range(r.ids)
<1>11. Finds(reg, <<>>, <<Resolver!RootDep(root)>>, v, r)
  BY <1>1, <1>10
<1> HIDE DEF r
<1>12. /\ Resolver!Range(<<Resolver!RootDep(root)>>) = {Resolver!RootDep(root)}
       /\ Resolver!Range(<<>>) = {} /\ Resolver!RootDep(root).id = root
  <2>1. \A x : Resolver!Range(<<x>>) = {x}
    BY DEF Resolver!Range
  <2>2. Resolver!Range(<<>>) = {}
    BY DEF Resolver!Range
  <2>3. Resolver!RootDep(root).id = root
    BY DEF Resolver!RootDep
  <2> QED
    BY <2>1, <2>2, <2>3
<1>13. r.error = "none" =>
        /\ root \in ids
        /\ \A n \in ids : /\ Resolver!Listed(reg, n) # {} /\ Leads(Needs(reg), root, n)
                          /\ \A m : <<n, m>> \in Needs(reg) => m \in ids \/ Resolver!Listed(reg, m) = {}
  BY <1>11, <1>12 DEF Finds
<1>14. r \in G
  BY <1>11 DEF Finds
<1>15. ids \subseteq Id
  <2>1. r.ids \in Seq(Id)
    BY <1>14 DEF Resolver!AdvancedGraph
  <2> QED
    BY <2>1 DEF Resolver!Range
<1> HIDE DEF ids
<1>16. ASSUME r.error = "none", NEW n \in Id, Resolver!Listed(reg, n) # {}, Resolver!Reach(Needs(reg), root, n)
       PROVE  n \in ids
  <2> DEFINE S == ids \cup {m \in Id : Resolver!Listed(reg, m) = {}}
  <2>1. \A p \in Needs(reg) : p[1] \in S \cup {root} => p[2] \in S
    <3> SUFFICES ASSUME NEW p \in Needs(reg), p[1] \in S \cup {root} PROVE p[2] \in S
      OBVIOUS
    <3>1. p = <<p[1], p[2]>> /\ p[2] \in Id /\ Resolver!Listed(reg, p[1]) # {}
      BY DEF Needs
    <3> QED
      BY <1>13, <1>16, <3>1
  <2>2. n \in S
    <3> HIDE DEF S
    <3> QED
      BY <1>16, <2>1, ReachStays
  <2> QED
    BY <1>16, <2>2
<1>17. r.error = "none" => Reached(reg, root, ids)
  BY <1>13, <1>15, <1>16 DEF Reached, Leads
<1> QED
  BY <1>8, <1>13, <1>14, <1>17 DEF r, ids

-----------------------------------------------------------------------------
(* The order of the nodes of a graph. *)

\* A graph: its nodes are numbers, finitely many.
IsGraph(nodes) == DOMAIN nodes \subseteq Nat /\ IsFiniteSet(DOMAIN nodes)

\* s goes on after done: new nodes, each after what it depends on, until none
\* is free.
GoesOn(nodes, done, s) ==
    /\ s \in Seq(DOMAIN nodes) /\ Distinct(s)
    /\ \A i \in DOMAIN s : s[i] \notin done
    /\ \A i \in DOMAIN s : \A e \in Resolver!InnerEdges(nodes) :
          e[1] = s[i] => e[2] \in done \/ \E j \in 1 .. i - 1 : s[j] = e[2]
    /\ Resolver!Free(nodes, done \cup {s[i] : i \in DOMAIN s}) = {}

LEMMA GoesOnWith ==
    ASSUME NEW nodes, NEW done \in SUBSET DOMAIN nodes, NEW n \in Resolver!Free(nodes, done), NEW s,
           GoesOn(nodes, done \cup {n}, s)
    PROVE  GoesOn(nodes, done, <<n>> \o s)
<1> DEFINE t == <<n>> \o s
<1>1. n \in DOMAIN nodes /\ n \notin done
      /\ \A e \in Resolver!InnerEdges(nodes) : e[1] = n => e[2] \in done
  BY DEF Resolver!Free
<1>2. /\ s \in Seq(DOMAIN nodes) /\ Distinct(s)
      /\ \A i \in DOMAIN s : s[i] \notin done \cup {n}
      /\ \A i \in DOMAIN s : \A e \in Resolver!InnerEdges(nodes) :
            e[1] = s[i] => e[2] \in done \cup {n} \/ \E j \in 1 .. i - 1 : s[j] = e[2]
      /\ Resolver!Free(nodes, done \cup {n} \cup {s[i] : i \in DOMAIN s}) = {}
  BY DEF GoesOn
<1>3. /\ t \in Seq(DOMAIN nodes) /\ Len(t) = Len(s) + 1 /\ Len(s) \in Nat
      /\ DOMAIN t = 1 .. Len(s) + 1 /\ DOMAIN s = 1 .. Len(s)
      /\ t[1] = n /\ \A i \in 1 .. Len(s) : t[i + 1] = s[i]
  <2>1. <<n>> \in Seq(DOMAIN nodes) /\ Len(<<n>>) = 1
    BY <1>1
  <2> QED
    BY <1>1, <1>2, <2>1
<1> HIDE DEF t
<1>4. \A i \in 2 .. Len(s) + 1 : i - 1 \in 1 .. Len(s) /\ t[i] = s[i - 1]
  <2> SUFFICES ASSUME NEW i \in 2 .. Len(s) + 1 PROVE i - 1 \in 1 .. Len(s) /\ t[i] = s[i - 1]
    OBVIOUS
  <2>1. i - 1 \in 1 .. Len(s) /\ (i - 1) + 1 = i
    BY <1>3
  <2>2. t[(i - 1) + 1] = s[i - 1]
    BY <1>3, <2>1
  <2> QED
    BY <2>1, <2>2
<1>5. \A i \in DOMAIN t : i = 1 \/ i \in 2 .. Len(s) + 1
  BY <1>3
<1>6. {t[i] : i \in DOMAIN t} = {n} \cup {s[i] : i \in DOMAIN s}
  <2>1. \A i \in DOMAIN t : t[i] \in {n} \cup {s[k] : k \in DOMAIN s}
    BY <1>3, <1>4, <1>5
  <2>2. \A i \in DOMAIN s : i + 1 \in DOMAIN t /\ t[i + 1] = s[i]
    BY <1>3
  <2>3. 1 \in DOMAIN t /\ t[1] = n
    BY <1>3
  <2>4. \A i \in DOMAIN s : s[i] \in {t[k] : k \in DOMAIN t}
    BY <2>2
  <2> QED
    BY <2>1, <2>3, <2>4
<1>7. \A i \in DOMAIN t : t[i] \notin done
  BY <1>1, <1>2, <1>3, <1>4, <1>5
<1>8. Distinct(t)
  <2> SUFFICES ASSUME NEW k \in DOMAIN t, NEW l \in DOMAIN t, t[k] = t[l] PROVE k = l
    BY DEF Distinct
  <2>1. \A i \in 2 .. Len(s) + 1 : t[i] # n
    BY <1>2, <1>3, <1>4
  <2>2. CASE k = 1 \/ l = 1
    BY <1>3, <1>5, <2>1, <2>2
  <2>3. CASE k # 1 /\ l # 1
    <3>1. k \in 2 .. Len(s) + 1 /\ l \in 2 .. Len(s) + 1
      BY <1>5, <2>3
    <3>2. k - 1 \in DOMAIN s /\ l - 1 \in DOMAIN s /\ s[k - 1] = s[l - 1]
      BY <1>3, <1>4, <3>1
    <3>3. k - 1 = l - 1
      BY <1>2, <3>2 DEF Distinct
    <3> QED
      BY <1>3, <3>1, <3>3
  <2> QED
    BY <2>2, <2>3
<1>9. ASSUME NEW i \in DOMAIN t, NEW e \in Resolver!InnerEdges(nodes), e[1] = t[i], e[2] \notin done
      PROVE  \E j \in 1 .. i - 1 : t[j] = e[2]
  <2>1. i # 1
    BY <1>1, <1>3, <1>9
  <2>2. i \in 2 .. Len(s) + 1 /\ i - 1 \in 1 .. Len(s) /\ t[i] = s[i - 1]
    BY <1>4, <1>5, <2>1
  <2>3. CASE e[2] = n
    <3>1. 1 \in 1 .. i - 1
      BY <1>3, <2>2
    <3> QED
      BY <1>3, <2>3, <3>1
  <2>4. CASE e[2] # n
    <3>1. PICK j \in 1 .. (i - 1) - 1 : s[j] = e[2]
      BY <1>2, <1>3, <1>9, <2>2, <2>4
    <3>2. j \in 1 .. Len(s) /\ j + 1 \in 1 .. i - 1
      BY <1>3, <2>2
    <3> QED
      BY <1>3, <3>1, <3>2
  <2> QED
    BY <2>3, <2>4
<1>10. Resolver!Free(nodes, done \cup {t[i] : i \in DOMAIN t}) = {}
  <2>1. done \cup {t[i] : i \in DOMAIN t} = done \cup {n} \cup {s[i] : i \in DOMAIN s}
    BY <1>6
  <2> QED
    BY <1>2, <2>1
<1> QED
  BY <1>3, <1>7, <1>8, <1>9, <1>10 DEF GoesOn, t

LEMMA LeastIsThere ==
    ASSUME NEW S \in SUBSET Nat, S # {}
    PROVE  Resolver!Min(S) \in S
<1>1. \E x \in S : \A y \in S : x <= y
  BY LeastNumber
<1> QED
  BY <1>1 DEF Resolver!Min

\* The order is a function of the nodes and the edges between them.
OrderOf(nodes, edges) ==
    LET free(done) == {n \in nodes \ done : \A e \in edges : e[1] = n => e[2] \in done}
        from[done \in SUBSET nodes] ==
            IF free(done) = {} THEN <<>>
            ELSE LET n == Resolver!Min(free(done)) IN <<n>> \o from[done \cup {n}]
    IN  from[{}]

LEMMA OrderIsOfEdges ==
    ASSUME NEW nodes
    PROVE  Resolver!TopologicalOrder(nodes) = OrderOf(DOMAIN nodes, Resolver!InnerEdges(nodes))
  BY DEF Resolver!TopologicalOrder, Resolver!Free, OrderOf

LEMMA OrderGoesOn ==
    ASSUME NEW nodes, IsGraph(nodes)
    PROVE  GoesOn(nodes, {}, Resolver!TopologicalOrder(nodes))
<1> DEFINE D == SUBSET DOMAIN nodes
           W == Seq(DOMAIN nodes)
           free(done) == Resolver!Free(nodes, done)
           least(done) == Resolver!Min(free(done))
           next(done, f) == IF free(done) = {} THEN <<>>
                            ELSE <<least(done)>> \o f[done \cup {least(done)}]
           Step == [p \in D \X [D -> W] |-> next(p[1], p[2])]
           a == [done \in D |-> Cardinality(DOMAIN nodes \ done)]
           b == [done \in D |-> 0]
           Solves(f) == f = [done \in D |-> next(done, f)]
           order_ == CHOOSE f : Solves(f)
<1>1. Resolver!TopologicalOrder(nodes) = order_[{}]
  BY DEF Resolver!TopologicalOrder
<1>2. DOMAIN nodes \subseteq Nat /\ IsFiniteSet(DOMAIN nodes)
  BY DEF IsGraph
<1>3. ASSUME NEW done \in D, free(done) # {}
      PROVE  least(done) \in free(done) /\ least(done) \in DOMAIN nodes /\ least(done) \notin done
  <2>1. free(done) \in SUBSET (DOMAIN nodes \ done)
    BY DEF Resolver!Free
  <2>2. Resolver!Min(free(done)) \in free(done)
    <3> HIDE DEF free
    <3> QED
      BY <1>2, <1>3, <2>1, LeastIsThere
  <2> QED
    BY <2>1, <2>2
<1> HIDE DEF least, free
<1>4. ASSUME NEW done \in D
      PROVE  IsFiniteSet(DOMAIN nodes \ done) /\ Cardinality(DOMAIN nodes \ done) \in Nat
  BY <1>2, FS_Difference, FS_CardinalityType
<1>5. Measures(D, a, b)
  BY <1>4 DEF Measures
<1>6. ASSUME NEW done \in D, free(done) # {}
      PROVE  done \cup {least(done)} \in D /\ Below(a, b, done \cup {least(done)}, done)
  <2>1. least(done) \in DOMAIN nodes \ done
    BY <1>3, <1>6
  <2>2. done \cup {least(done)} \in D
        /\ DOMAIN nodes \ (done \cup {least(done)}) = (DOMAIN nodes \ done) \ {least(done)}
    BY <2>1
  <2>3. Cardinality((DOMAIN nodes \ done) \ {least(done)}) = Cardinality(DOMAIN nodes \ done) - 1
    BY <1>4, <2>1, FS_RemoveElement
  <2>4. a[done \cup {least(done)}] = a[done] - 1 /\ a[done] \in Nat
    BY <1>4, <2>2, <2>3
  <2> HIDE DEF a, b
  <2> QED
    BY <2>2, <2>4 DEF Below
<1>7. ASSUME NEW done \in D, free(done) # {}, NEW s \in W
      PROVE  <<least(done)>> \o s \in W
  <2>1. <<least(done)>> \in W
    BY <1>3, <1>7
  <2> QED
    BY <2>1
<1>8. Step \in [D \X [D -> W] -> W]
  <2>1. ASSUME NEW done \in D, NEW f \in [D -> W] PROVE next(done, f) \in W
    <3>1. CASE free(done) = {}
      BY <3>1
    <3>2. CASE free(done) # {}
      <4>1. f[done \cup {least(done)}] \in W
        BY <1>6, <3>2
      <4> HIDE DEF W
      <4> QED
        BY <1>7, <3>2, <4>1
    <3> QED
      BY <3>1, <3>2
  <2> HIDE DEF next, W
  <2> QED
    BY <2>1
<1>9. \A done \in D, f \in [D -> W] : Step[<<done, f>>] = next(done, f)
  <2> HIDE DEF W, next
  <2> QED
    OBVIOUS
<1>10. \A done \in D, f \in [D -> W], g \in [D -> W] :
        (\A y \in D : Below(a, b, y, done) => f[y] = g[y]) => Step[<<done, f>>] = Step[<<done, g>>]
  <2> SUFFICES ASSUME NEW done \in D, NEW f \in [D -> W], NEW g \in [D -> W],
                      \A y \in D : Below(a, b, y, done) => f[y] = g[y]
               PROVE  Step[<<done, f>>] = Step[<<done, g>>]
    OBVIOUS
  <2>1. free(done) # {} => f[done \cup {least(done)}] = g[done \cup {least(done)}]
    BY <1>6
  <2>2. Step[<<done, f>>] = next(done, f) /\ Step[<<done, g>>] = next(done, g)
    <3> HIDE DEF Step, W, D, next
    <3> QED
      BY <1>9
  <2> HIDE DEF Step
  <2> QED
    BY <2>1, <2>2
<1>11. Recurs(D, W, a, b, Step)
  <2> HIDE DEF Step, D, a, b, W
  <2> QED
    BY <1>5, <1>8, <1>10 DEF Recurs
<1>12. \E f : Solves(f)
  <2>1. W # {}
    <3>1. <<>> \in W
      OBVIOUS
    <3> QED
      BY <3>1
  <2>2. PICK f \in [D -> W] : Follows(Step, f, D)
    <3> HIDE DEF Step, D, a, b, W
    <3> QED
      BY <1>11, <2>1, Recursion
  <2> HIDE DEF Step, W, D, next
  <2>3. \A done \in D : f[done] = next(done, f)
    BY <1>9, <2>2 DEF Follows
  <2>4. f = [done \in D |-> next(done, f)]
    BY <2>3
  <2> QED
    BY <2>4
<1>13. Solves(order_)
  <2> HIDE DEF Solves
  <2> QED
    BY <1>12
<1> HIDE DEF order_
<1>14. \A done \in D : order_[done] = next(done, order_)
  BY <1>13
<1>15. \A done \in D : GoesOn(nodes, done, order_[done])
  <2> DEFINE Bad == {done \in D : ~GoesOn(nodes, done, order_[done])}
  <2>1. SUFFICES ASSUME Bad # {} PROVE FALSE
    OBVIOUS
  <2>2. PICK done \in Bad : \A y \in D : Below(a, b, y, done) => y \notin Bad
    <3>1. Bad \in SUBSET D
      OBVIOUS
    <3> HIDE DEF Bad, D, a, b
    <3> QED
      BY <1>5, <2>1, <3>1, LeastAmong
  <2>3. CASE free(done) = {}
    <3>1. order_[done] = <<>>
      BY <1>14, <2>2, <2>3
    <3>2. GoesOn(nodes, done, <<>>)
      <4>1. done \cup {<<>>[i] : i \in DOMAIN <<>>} = done
        OBVIOUS
      <4>2. <<>> \in Seq(DOMAIN nodes) /\ DOMAIN <<>> = {}
        OBVIOUS
      <4>3. Resolver!Free(nodes, done \cup {<<>>[i] : i \in DOMAIN <<>>}) = {}
        BY <2>3, <4>1 DEF free
      <4> QED
        BY <4>2, <4>3 DEF GoesOn, Distinct
    <3> QED
      BY <2>2, <3>1, <3>2
  <2>4. CASE free(done) # {}
    <3>1. order_[done] = <<least(done)>> \o order_[done \cup {least(done)}]
      BY <1>14, <2>2, <2>4
    <3>2. GoesOn(nodes, done \cup {least(done)}, order_[done \cup {least(done)}])
      BY <1>6, <2>2, <2>4
    <3>3. least(done) \in Resolver!Free(nodes, done) /\ done \in SUBSET DOMAIN nodes
      BY <1>3, <2>2, <2>4 DEF free
    <3>4. GoesOn(nodes, done, order_[done])
      BY <3>1, <3>2, <3>3, GoesOnWith
    <3> QED
      BY <2>2, <3>4
  <2> QED
    BY <2>3, <2>4
<1> QED
  BY <1>1, <1>15

LEMMA Counts ==
    ASSUME NEW S
    PROVE  Resolver!Cardinality(S) = Cardinality(S)
  BY DEF Resolver!Cardinality, Cardinality

LEMMA DistinctCount ==
    ASSUME NEW S, NEW s \in Seq(S), Distinct(s)
    PROVE  Len(s) = Cardinality(Resolver!Range(s))
<1>1. s \in Surjection(1 .. Len(s), Resolver!Range(s))
  BY DEF Surjection, Resolver!Range
<1>2. s \in Injection(1 .. Len(s), Resolver!Range(s))
  BY <1>1 DEF Surjection, Injection, IsInjective, Distinct
<1>3. IsFiniteSet(1 .. Len(s)) /\ Cardinality(1 .. Len(s)) = Len(s)
  <2>1. 1 \in Int /\ Len(s) \in Int /\ Len(s) \in Nat
    OBVIOUS
  <2>2. IsFiniteSet(1 .. Len(s)) /\ Cardinality(1 .. Len(s)) = IF 1 > Len(s) THEN 0 ELSE Len(s) - 1 + 1
    BY <2>1, FS_Interval
  <2> QED
    BY <2>1, <2>2
<1> QED
  BY <1>1, <1>2, <1>3, FS_Surjection

\* The nodes that reach no cycle.
Acyclic(nodes) ==
    {n \in DOMAIN nodes : ~\E m \in DOMAIN nodes :
        /\ Resolver!Reach(Resolver!InnerEdges(nodes), m, m)
        /\ m = n \/ Resolver!Reach(Resolver!InnerEdges(nodes), n, m)}

\* Nodes that all have an edge to one of them lead to a cycle.
LEMMA LeadsToCycle ==
    ASSUME NEW pairs, NEW rest, IsFiniteSet(rest), NEW n \in rest,
           \A x \in rest : \E y \in rest : <<x, y>> \in pairs
    PROVE  \E m \in rest : Resolver!Reach(pairs, m, m) /\ Leads(pairs, n, m)
<1> DEFINE A == {x \in rest : Leads(pairs, n, x)}
           R == {p \in A \X A : Resolver!Reach(pairs, p[2], p[1])}
<1>1. n \in A /\ A \in SUBSET rest
  BY DEF Leads
<1>2. IsFiniteSet(A)
  BY <1>1, FS_Subset
<1> SUFFICES ASSUME \A m \in A : ~Resolver!Reach(pairs, m, m)
             PROVE  FALSE
  OBVIOUS
<1>3. \A i, j \in A : <<i, j>> \in R <=> Resolver!Reach(pairs, j, i)
  OBVIOUS
<1> HIDE DEF R
<1>4. \A i \in A : <<i, i>> \notin R
  BY <1>3
<1>5. ASSUME NEW i \in A, NEW j \in A, NEW k \in A, <<i, j>> \in R, <<j, k>> \in R
      PROVE  <<i, k>> \in R
  <2>1. Resolver!Reach(pairs, j, i) /\ Resolver!Reach(pairs, k, j)
    BY <1>3, <1>5
  <2>2. Resolver!Reach(pairs, k, i)
    BY <2>1, ReachOn
  <2> QED
    BY <1>3, <2>2
<1>6. PICK x \in A : \A y \in A : <<y, x>> \notin R
  <2> HIDE DEF A
  <2> QED
    BY <1>1, <1>2, <1>4, <1>5, Topmost
<1>7. PICK y \in rest : <<x, y>> \in pairs
  BY <1>6
<1>8. Resolver!Reach(pairs, x, y)
  BY <1>7, ReachStep
<1>9. Leads(pairs, n, y)
  <2>1. n = x \/ Resolver!Reach(pairs, n, x)
    BY <1>6 DEF Leads
  <2> QED
    BY <1>8, <2>1, ReachOn DEF Leads
<1>10. y \in A
  BY <1>7, <1>9
<1> QED
  BY <1>3, <1>6, <1>8, <1>10

LEMMA OrderIsSound ==
    ASSUME NEW nodes, IsGraph(nodes)
    PROVE  Resolver!WellOrdered(Resolver!TopologicalOrder(nodes), Acyclic(nodes),
                                Resolver!InnerEdges(nodes))
<1> DEFINE s == Resolver!TopologicalOrder(nodes)
           pairs == Resolver!InnerEdges(nodes)
           N == DOMAIN nodes
           found == {s[i] : i \in DOMAIN s}
<1>1. /\ s \in Seq(N) /\ Distinct(s)
      /\ \A i \in DOMAIN s : \A e \in pairs : e[1] = s[i] => \E j \in 1 .. i - 1 : s[j] = e[2]
      /\ Resolver!Free(nodes, found) = {}
  <2>1. GoesOn(nodes, {}, s)
    BY OrderGoesOn
  <2>2. {} \cup found = found
    OBVIOUS
  <2> HIDE DEF s
  <2> QED
    BY <2>1, <2>2 DEF GoesOn
<1>2. IsFiniteSet(N)
  BY DEF IsGraph
<1>3. /\ \A p \in pairs : p = <<p[1], p[2]>> /\ p[2] \in N
      /\ \A x \in N \ found : \E p \in pairs : p[1] = x /\ p[2] \notin found
  <2> HIDE DEF s
  <2>1. \A p \in pairs : p = <<p[1], p[2]>> /\ p[2] \in N
    BY DEF Resolver!InnerEdges
  <2> HIDE DEF found
  <2>2. \A x \in N \ found : \E p \in pairs : p[1] = x /\ p[2] \notin found
    BY <1>1 DEF Resolver!Free
  <2> QED
    BY <2>1, <2>2
<1> HIDE DEF s, pairs
<1>4. found = Resolver!Range(s) /\ DOMAIN s = 1 .. Len(s) /\ Len(s) \in Nat
  BY <1>1 DEF Resolver!Range
\* What one of the order reaches comes before it.
<1>5. ASSUME NEW i \in DOMAIN s, NEW m, Resolver!Reach(pairs, s[i], m)
      PROVE  \E j \in 1 .. i - 1 : s[j] = m
  <2> DEFINE S == {s[j] : j \in 1 .. i - 1}
  <2>1. ASSUME NEW p \in pairs, p[1] \in S \cup {s[i]} PROVE p[2] \in S
    <3>1. PICK k \in 1 .. i : s[k] = p[1]
      BY <1>4, <2>1
    <3>2. k \in DOMAIN s
      BY <1>4, <3>1
    <3>3. PICK j \in 1 .. k - 1 : s[j] = p[2]
      BY <1>1, <3>1, <3>2
    <3>4. j \in 1 .. i - 1
      BY <1>4, <3>1, <3>3
    <3> QED
      BY <3>3, <3>4
  <2>2. m \in S
    <3> HIDE DEF S
    <3> QED
      BY <1>5, <2>1, ReachStays
  <2> QED
    BY <2>2
<1>6. \A i \in DOMAIN s : ~Resolver!Reach(pairs, s[i], s[i])
  <2> SUFFICES ASSUME NEW i \in DOMAIN s, Resolver!Reach(pairs, s[i], s[i]) PROVE FALSE
    OBVIOUS
  <2>1. PICK j \in 1 .. i - 1 : s[j] = s[i]
    BY <1>5
  <2>2. j \in DOMAIN s /\ j # i
    BY <1>4, <2>1
  <2> QED
    BY <1>1, <2>1, <2>2 DEF Distinct
<1>7. ASSUME NEW n \in found PROVE n \in Acyclic(nodes)
  <2>1. PICK i \in DOMAIN s : n = s[i]
    BY <1>7
  <2>2. n \in N
    BY <1>1, <1>4, <2>1
  <2>3. ASSUME NEW m \in N, Resolver!Reach(pairs, m, m), m = n \/ Resolver!Reach(pairs, n, m)
        PROVE  FALSE
    <3>1. \E j \in DOMAIN s : s[j] = m
      <4>1. CASE m = n
        BY <2>1, <4>1
      <4>2. CASE Resolver!Reach(pairs, n, m)
        <5>1. PICK j \in 1 .. i - 1 : s[j] = m
          BY <1>5, <2>1, <4>2
        <5>2. j \in DOMAIN s
          BY <1>4, <2>1, <5>1
        <5> QED
          BY <5>1, <5>2
      <4> QED
        BY <2>3, <4>1, <4>2
    <3> QED
      BY <1>6, <2>3, <3>1
  <2> QED
    BY <2>2, <2>3 DEF Acyclic, pairs
<1>8. ASSUME NEW n \in Acyclic(nodes) PROVE n \in found
  <2> DEFINE rest == N \ found
  <2>1. SUFFICES ASSUME n \notin found PROVE FALSE
    OBVIOUS
  <2> HIDE DEF found
  <2>2. n \in rest
    BY <1>8, <2>1 DEF Acyclic
  <2>3. \A x \in rest : \E y \in rest : <<x, y>> \in pairs
    BY <1>3
  <2>4. IsFiniteSet(rest)
    BY <1>2, FS_Difference
  <2> HIDE DEF rest
  <2>5. PICK m \in rest : Resolver!Reach(pairs, m, m) /\ Leads(pairs, n, m)
    BY <2>2, <2>3, <2>4, LeadsToCycle
  <2>6. m \in N
    BY DEF rest
  <2> QED
    BY <1>8, <2>5, <2>6 DEF Acyclic, Leads, pairs
<1>9. Resolver!Range(s) = Acyclic(nodes)
  <2> HIDE DEF found
  <2> QED
    BY <1>4, <1>7, <1>8
<1>10. Len(s) = Cardinality(Acyclic(nodes))
  BY <1>1, <1>9, DistinctCount
<1>11. ASSUME NEW i \in DOMAIN s, NEW j \in DOMAIN s, <<s[i], s[j]>> \in pairs, i < j
       PROVE  FALSE
  <2>1. PICK k \in 1 .. i - 1 : s[k] = s[j]
    <3>1. <<s[i], s[j]>>[1] = s[i] /\ <<s[i], s[j]>>[2] = s[j]
      OBVIOUS
    <3> QED
      BY <1>1, <1>11, <3>1
  <2>2. k \in DOMAIN s /\ k # j
    BY <1>4, <1>11, <2>1
  <2> QED
    BY <1>1, <2>1, <2>2 DEF Distinct
<1>12. \A i, j \in DOMAIN s :
          <<s[i], s[j]>> \in pairs /\ i < j => Resolver!Reach(pairs, s[j], s[i])
  BY <1>11
<1>13. Resolver!WellOrdered(s, Acyclic(nodes), pairs)
  BY <1>9, <1>10, <1>12, Counts DEF Resolver!WellOrdered
<1> QED
  BY <1>13 DEF s, pairs

-----------------------------------------------------------------------------
(* An advanced result. *)

LEMMA RangeBackwards ==
    ASSUME NEW S, NEW s \in Seq(S)
    PROVE  /\ Resolver!Backwards(s) \in Seq(S)
           /\ Resolver!Range(Resolver!Backwards(s)) = Resolver!Range(s)
<1> DEFINE t == Resolver!Backwards(s)
<1>1. Len(s) \in Nat /\ DOMAIN s = 1 .. Len(s) /\ \A i \in DOMAIN s : s[i] \in S
  OBVIOUS
<1>2. t = [i \in 1 .. Len(s) |-> s[Len(s) + 1 - i]]
  BY <1>1 DEF Resolver!Backwards
<1>3. \A i \in 1 .. Len(s) : Len(s) + 1 - i \in 1 .. Len(s) /\ Len(s) + 1 - (Len(s) + 1 - i) = i
  BY <1>1
<1>4. DOMAIN t = 1 .. Len(s) /\ \A i \in 1 .. Len(s) : t[i] = s[Len(s) + 1 - i] /\ t[i] \in S
  BY <1>1, <1>2, <1>3
<1>5. t \in Seq(S)
  <2>1. t \in [1 .. Len(s) -> S]
    BY <1>1, <1>2, <1>3
  <2> QED
    BY <1>1, <2>1, SeqDef
<1> HIDE DEF t
<1>6. \A i \in 1 .. Len(s) : s[i] \in Resolver!Range(t)
  <2> TAKE i \in 1 .. Len(s)
  <2>1. t[Len(s) + 1 - i] = s[Len(s) + 1 - (Len(s) + 1 - i)] /\ Len(s) + 1 - i \in DOMAIN t
    BY <1>3, <1>4
  <2>2. t[Len(s) + 1 - i] = s[i]
    BY <1>3, <2>1
  <2> QED
    BY <2>1, <2>2 DEF Resolver!Range
<1>7. \A i \in DOMAIN t : t[i] \in Resolver!Range(s)
  BY <1>1, <1>3, <1>4 DEF Resolver!Range
<1> QED
  BY <1>1, <1>5, <1>6, <1>7 DEF Resolver!Range, t

\* What the dependencies of a listed id are, a registry with them listed
\* backwards says too.
LEMMA RelistedIsThere ==
    ASSUME NEW reg \in Seq(Resolver!Resource)
    PROVE  /\ Resolver!Relisted(reg) \in Seq(Resolver!Resource)
           /\ DOMAIN Resolver!Relisted(reg) = DOMAIN reg
           /\ \A i \in DOMAIN reg :
                 /\ Resolver!Relisted(reg)[i].id = reg[i].id
                 /\ Resolver!Relisted(reg)[i].version = reg[i].version
                 /\ Resolver!Relisted(reg)[i].runs = reg[i].runs
                 /\ Resolver!Range(Resolver!Relisted(reg)[i].deps) = Resolver!Range(reg[i].deps)
<1> DEFINE t == Resolver!Relisted(reg)
<1>1. Len(reg) \in Nat /\ DOMAIN reg = 1 .. Len(reg) /\ \A i \in DOMAIN reg : reg[i] \in Resolver!Resource
  OBVIOUS
<1>2. t = [i \in 1 .. Len(reg) |-> [reg[i] EXCEPT !.deps = Resolver!Backwards(reg[i].deps)]]
  BY <1>1 DEF Resolver!Relisted
<1>3. ASSUME NEW i \in 1 .. Len(reg)
      PROVE  /\ t[i] \in Resolver!Resource
             /\ t[i].id = reg[i].id /\ t[i].version = reg[i].version /\ t[i].runs = reg[i].runs
             /\ Resolver!Range(t[i].deps) = Resolver!Range(reg[i].deps)
  <2> DEFINE r == reg[i]
  <2>1. r \in Resolver!Resource /\ t[i] = [r EXCEPT !.deps = Resolver!Backwards(r.deps)]
    BY <1>1, <1>2
  <2>2. /\ r.id \in Id /\ r.alias \in Id \cup {NoAlias} /\ r.version \in Resolver!Version
        /\ r.deps \in Seq(Resolver!Dependency) /\ r.runs \in BOOLEAN
        /\ t[i] = [id |-> r.id, alias |-> r.alias, version |-> r.version,
                   deps |-> Resolver!Backwards(r.deps), runs |-> r.runs]
    BY <2>1 DEF Resolver!Resource
  <2>3. /\ Resolver!Backwards(r.deps) \in Seq(Resolver!Dependency)
        /\ Resolver!Range(Resolver!Backwards(r.deps)) = Resolver!Range(r.deps)
    BY <2>2, RangeBackwards
  <2> HIDE DEF r, t
  <2>4. t[i] \in Resolver!Resource
    BY <2>2, <2>3 DEF Resolver!Resource
  <2> QED
    BY <2>2, <2>3, <2>4 DEF r
<1>4. t \in Seq(Resolver!Resource) /\ DOMAIN t = DOMAIN reg
  <2>1. t \in [1 .. Len(reg) -> Resolver!Resource]
    BY <1>2, <1>3
  <2> QED
    BY <1>1, <2>1, SeqDef
<1> QED
  BY <1>1, <1>3, <1>4

\* The resources of an id that are chosen from.
Eligible(reg, id) ==
    LET here == {i \in Resolver!Listed(reg, id) : reg[i].runs}
    IN  IF here # {} THEN here ELSE Resolver!Listed(reg, id)

LEMMA ChosenIsEligible ==
    ASSUME NEW reg, NEW id
    PROVE  /\ Resolver!ChosenFor(reg, id) = Resolver!LatestOf(reg, Eligible(reg, id))
           /\ Eligible(reg, id) \in SUBSET DOMAIN reg
           /\ Resolver!Listed(reg, id) # {} => Eligible(reg, id) # {}
  BY DEF Resolver!ChosenFor, Eligible, Resolver!Listed

LEMMA RelistedChoosesTheSame ==
    ASSUME NEW reg \in Seq(Resolver!Resource), NEW id
    PROVE  /\ Resolver!Listed(Resolver!Relisted(reg), id) = Resolver!Listed(reg, id)
           /\ Resolver!Listed(reg, id) # {} =>
                 Resolver!Range(Resolver!ChosenFor(Resolver!Relisted(reg), id).deps) =
                     Resolver!Range(Resolver!ChosenFor(reg, id).deps)
<1> DEFINE t == Resolver!Relisted(reg)
           at == Eligible(reg, id)
<1>1. /\ t \in Seq(Resolver!Resource) /\ DOMAIN t = DOMAIN reg
      /\ \A i \in DOMAIN reg : /\ t[i].id = reg[i].id /\ t[i].version = reg[i].version
                               /\ t[i].runs = reg[i].runs
                               /\ Resolver!Range(t[i].deps) = Resolver!Range(reg[i].deps)
  BY RelistedIsThere
<1> HIDE DEF t
<1>2. Resolver!Listed(t, id) = Resolver!Listed(reg, id)
  BY <1>1 DEF Resolver!Listed
<1>3. Eligible(t, id) = at
  <2>1. {i \in Resolver!Listed(t, id) : t[i].runs} = {i \in Resolver!Listed(reg, id) : reg[i].runs}
    BY <1>1, <1>2 DEF Resolver!Listed
  <2> QED
    BY <1>2, <2>1 DEF Eligible
<1>4. ASSUME Resolver!Listed(reg, id) # {}
      PROVE  Resolver!Range(Resolver!ChosenFor(t, id).deps) = Resolver!Range(Resolver!ChosenFor(reg, id).deps)
  <2>1. /\ at \in SUBSET DOMAIN reg /\ at # {}
        /\ Resolver!ChosenFor(reg, id) = Resolver!LatestOf(reg, at)
    BY <1>4, ChosenIsEligible
  <2>2. Resolver!ChosenFor(t, id) = Resolver!LatestOf(t, at)
    BY <1>3, ChosenIsEligible
  <2> HIDE DEF at
  <2>3. PICK i \in at : Resolver!LatestOf(reg, at) = reg[i] /\ Latest(reg, at, i)
    BY <2>1, LatestIsThere
  <2>4. PICK k \in at : Resolver!LatestOf(t, at) = t[k] /\ Latest(t, at, k)
    BY <1>1, <2>1, LatestIsThere
  <2>5. Latest(reg, at, k)
    BY <1>1, <2>1, <2>4 DEF Latest
  <2>6. i = k
    BY <2>1, <2>3, <2>5, LatestIsOne
  <2> QED
    BY <1>1, <2>1, <2>2, <2>3, <2>4, <2>6
<1> QED
  BY <1>2, <1>4 DEF t

LEMMA RelistedNeedsTheSame ==
    ASSUME NEW reg \in Seq(Resolver!Resource)
    PROVE  Needs(Resolver!Relisted(reg)) = Needs(reg)
<1> DEFINE t == Resolver!Relisted(reg)
<1>1. \A id : /\ Resolver!Listed(t, id) = Resolver!Listed(reg, id)
              /\ Resolver!Listed(reg, id) # {} =>
                    Resolver!Range(Resolver!ChosenFor(t, id).deps) =
                        Resolver!Range(Resolver!ChosenFor(reg, id).deps)
  BY RelistedChoosesTheSame
<1> HIDE DEF t
<1>2. Needs(t) = Needs(reg)
  BY <1>1 DEF Needs
<1> QED
  BY <1>2 DEF t

\* The nodes of a graph of listed ids, and the edges between them.
NodesOf(reg, ids) == [id \in ids |-> Resolver!NodeOf(reg, id)]

LEMMA EdgesAreNeeds ==
    ASSUME NEW reg \in Seq(Resolver!Resource), NEW ids \in SUBSET Id,
           \A id \in ids : Resolver!Listed(reg, id) # {}
    PROVE  Resolver!InnerEdges(NodesOf(reg, ids)) = Needs(reg) \cap (ids \X ids)
<1> DEFINE nodes == NodesOf(reg, ids)
           deps(id) == Resolver!ChosenFor(reg, id).deps
<1>1. ASSUME NEW id \in ids
      PROVE  /\ deps(id) \in Seq(Resolver!Dependency)
             /\ nodes[id].edges = [i \in DOMAIN deps(id) |->
                    Resolver!Edge(id, deps(id)[i].id, deps(id)[i].range, deps(id)[i].optional)]
  BY ChosenDeps DEF NodesOf, Resolver!NodeOf
<1>2. DOMAIN nodes = ids
  BY DEF NodesOf
<1> HIDE DEF nodes, deps
<1>3. ASSUME NEW id \in ids, NEW e \in Resolver!Range(nodes[id].edges)
      PROVE  e.from = id /\ \E d \in Resolver!Range(deps(id)) : e.to = d.id
  <2>1. DOMAIN nodes[id].edges = DOMAIN deps(id)
    BY <1>1
  <2>2. PICK i \in DOMAIN deps(id) : e = nodes[id].edges[i]
    BY <2>1 DEF Resolver!Range
  <2>3. e = Resolver!Edge(id, deps(id)[i].id, deps(id)[i].range, deps(id)[i].optional)
    BY <1>1, <2>2
  <2>4. e.from = id /\ e.to = deps(id)[i].id
    BY <2>3 DEF Resolver!Edge
  <2>5. deps(id)[i] \in Resolver!Range(deps(id))
    BY DEF Resolver!Range
  <2> QED
    BY <2>4, <2>5
<1>4. ASSUME NEW id \in ids, NEW d \in Resolver!Range(deps(id))
      PROVE  \E e \in Resolver!Range(nodes[id].edges) : e.from = id /\ e.to = d.id
  <2>1. PICK i \in DOMAIN deps(id) : d = deps(id)[i]
    BY DEF Resolver!Range
  <2>2. /\ i \in DOMAIN nodes[id].edges
        /\ nodes[id].edges[i] = Resolver!Edge(id, deps(id)[i].id, deps(id)[i].range, deps(id)[i].optional)
    BY <1>1, <2>1
  <2>3. nodes[id].edges[i].from = id /\ nodes[id].edges[i].to = d.id
    BY <2>1, <2>2 DEF Resolver!Edge
  <2> QED
    BY <2>2, <2>3 DEF Resolver!Range
<1>5. \A p \in Resolver!InnerEdges(nodes) : \E id \in ids : \E e \in Resolver!Range(nodes[id].edges) :
         p = <<e.from, e.to>> /\ e.to \in ids
  BY <1>2 DEF Resolver!InnerEdges, Resolver!EdgesOf
<1>6. \A id \in ids : \A e \in Resolver!Range(nodes[id].edges) :
         e.to \in ids => <<e.from, e.to>> \in Resolver!InnerEdges(nodes)
  BY <1>2 DEF Resolver!InnerEdges, Resolver!EdgesOf
<1>7. \A id \in ids, m \in ids : <<id, m>> \in Needs(reg) <=> \E d \in Resolver!Range(deps(id)) : d.id = m
  BY DEF Needs, deps
<1>8. ASSUME NEW p \in Resolver!InnerEdges(nodes) PROVE p \in Needs(reg) \cap (ids \X ids)
  <2>1. PICK id \in ids : \E e \in Resolver!Range(nodes[id].edges) : p = <<e.from, e.to>> /\ e.to \in ids
    BY <1>5
  <2>2. PICK e \in Resolver!Range(nodes[id].edges) : p = <<e.from, e.to>> /\ e.to \in ids
    BY <2>1
  <2>3. e.from = id /\ \E d \in Resolver!Range(deps(id)) : e.to = d.id
    BY <1>3
  <2>4. p = <<id, e.to>>
    BY <2>2, <2>3
  <2>5. <<id, e.to>> \in Needs(reg)
    BY <1>7, <2>2, <2>3
  <2> QED
    BY <2>2, <2>4, <2>5
<1>9. ASSUME NEW p \in Needs(reg) \cap (ids \X ids) PROVE p \in Resolver!InnerEdges(nodes)
  <2>1. PICK id \in ids, m \in ids : p = <<id, m>>
    OBVIOUS
  <2>2. PICK d \in Resolver!Range(deps(id)) : d.id = m
    BY <1>7, <2>1
  <2>3. PICK e \in Resolver!Range(nodes[id].edges) : e.from = id /\ e.to = d.id
    BY <1>4
  <2> QED
    BY <1>6, <2>1, <2>2, <2>3
<1> QED
  BY <1>8, <1>9 DEF nodes

\* A result of a search that found all there is to find.
IsResultOf(reg, root, result) ==
    \E ids \in SUBSET Id :
        /\ Reached(reg, root, ids)
        /\ result.error = "none"
        /\ result.nodes = NodesOf(reg, ids)
        /\ result.order = Resolver!TopologicalOrder(NodesOf(reg, ids))

LEMMA AdvancedResult ==
    ASSUME NEW reg \in Seq(Resolver!Resource), NEW root \in Id, NEW skip, NEW deny \in BOOLEAN,
           Resolver!AdvancedResolve(reg, root, skip, deny).error = "none"
    PROVE  /\ IsResultOf(reg, root, Resolver!AdvancedResolve(reg, root, skip, deny))
           /\ Resolver!AdvancedResolve(reg, root, skip, deny) =
                  Resolver!AdvancedResolve(reg, root, skip, FALSE)
<1> DEFINE found == Resolver!Search(reg, root, skip)
           nodes == [id \in Resolver!Range(found.ids) |-> Resolver!NodeOf(reg, id)]
           itself == \E r \in Resolver!Range(reg) :
                         r.id = root /\ \E d \in Resolver!Range(r.deps) : d.id = root
           conflicts == Resolver!RangeConflicts(nodes)
           graph == [error |-> "none", nodes |-> nodes, conflicts |-> conflicts,
                     order |-> Resolver!TopologicalOrder(nodes),
                     circular |-> found.circular # {} \/ Resolver!HasCycle(nodes),
                     unavailable |-> found.unavailable]
           result(d) == Resolver!AdvancedResolve(reg, root, skip, d)
<1>1. \A d : result(d) =
         IF itself THEN [error |-> "circular"]
         ELSE IF found.error # "none" THEN [error |-> found.error]
         ELSE IF d /\ conflicts # {} THEN [error |-> "conflict"]
         ELSE graph
  BY DEF Resolver!AdvancedResolve
<1>2. graph.error = "none" /\ graph.nodes = nodes /\ graph.order = Resolver!TopologicalOrder(nodes)
  OBVIOUS
<1> HIDE DEF graph, conflicts, itself, found, nodes
<1> SUFFICES IsResultOf(reg, root, result(deny)) /\ result(deny) = result(FALSE)
  OBVIOUS
<1>3. result(deny).error = "none"
  OBVIOUS
<1> HIDE DEF result
<1>4. /\ ~itself /\ found.error = "none" /\ ~(deny /\ conflicts # {}) /\ result(deny) = graph
  <2>1. [error |-> "circular"].error # "none" /\ [error |-> "conflict"].error # "none"
        /\ [error |-> found.error].error = found.error
    OBVIOUS
  <2>2. CASE itself
    BY <1>1, <1>3, <2>1, <2>2
  <2>3. CASE ~itself /\ found.error # "none"
    BY <1>1, <1>3, <2>1, <2>3
  <2>4. CASE ~itself /\ found.error = "none" /\ deny /\ conflicts # {}
    BY <1>1, <1>3, <2>1, <2>4
  <2>5. CASE ~itself /\ found.error = "none" /\ ~(deny /\ conflicts # {})
    BY <1>1, <2>5
  <2> QED
    BY <2>2, <2>3, <2>4, <2>5
<1>5. result(FALSE) = graph
  BY <1>1, <1>4
<1>6. Reached(reg, root, Resolver!Range(found.ids))
  <2>1. Resolver!Search(reg, root, skip).error = "none"
    BY <1>4 DEF found
  <2> QED
    BY <2>1, SearchReaches DEF found
<1>7. Resolver!Range(found.ids) \in SUBSET Id
  BY <1>6 DEF Reached
<1>8. nodes = NodesOf(reg, Resolver!Range(found.ids))
  BY DEF nodes, NodesOf
<1>9. IsResultOf(reg, root, graph)
  BY <1>2, <1>6, <1>7, <1>8 DEF IsResultOf
<1> QED
  BY <1>4, <1>5, <1>9

\* What a result says of its own nodes.
LEMMA ResultIsOrdered ==
    ASSUME NEW reg \in Seq(Resolver!Resource), NEW root \in Id, NEW result,
           IsResultOf(reg, root, result)
    PROVE  Resolver!WellOrdered(result.order, Acyclic(result.nodes), Resolver!InnerEdges(result.nodes))
<1>1. PICK ids \in SUBSET Id :
         /\ Reached(reg, root, ids)
         /\ result.nodes = NodesOf(reg, ids)
         /\ result.order = Resolver!TopologicalOrder(NodesOf(reg, ids))
  BY DEF IsResultOf
<1>2. IsGraph(NodesOf(reg, ids))
  BY ResolverAssumption, FS_Subset DEF IsGraph, NodesOf
<1> QED
  BY <1>1, <1>2, OrderIsSound

\* Its order does not depend on how the dependencies are listed.
LEMMA ResultIsIndependent ==
    ASSUME NEW reg \in Seq(Resolver!Resource), NEW root \in Id, NEW result, NEW other,
           IsResultOf(reg, root, result), IsResultOf(Resolver!Relisted(reg), root, other)
    PROVE  other.order = result.order
<1> DEFINE t == Resolver!Relisted(reg)
<1>1. PICK ids \in SUBSET Id :
         /\ Reached(reg, root, ids)
         /\ result.order = Resolver!TopologicalOrder(NodesOf(reg, ids))
  BY DEF IsResultOf
<1>2. PICK others \in SUBSET Id :
         /\ Reached(t, root, others)
         /\ other.order = Resolver!TopologicalOrder(NodesOf(t, others))
  BY DEF IsResultOf
<1>3. /\ t \in Seq(Resolver!Resource) /\ Needs(t) = Needs(reg)
      /\ \A id : Resolver!Listed(t, id) = Resolver!Listed(reg, id)
  BY RelistedIsThere, RelistedNeedsTheSame, RelistedChoosesTheSame
<1> HIDE DEF t
<1>4. others = ids
  BY <1>1, <1>2, <1>3 DEF Reached
<1>5. \A id \in ids : Resolver!Listed(reg, id) # {} /\ Resolver!Listed(t, id) # {}
  BY <1>1, <1>3 DEF Reached
<1>6. Resolver!InnerEdges(NodesOf(reg, ids)) = Needs(reg) \cap (ids \X ids)
  BY <1>5, EdgesAreNeeds
<1>7. Resolver!InnerEdges(NodesOf(t, ids)) = Needs(reg) \cap (ids \X ids)
  BY <1>3, <1>5, EdgesAreNeeds
<1>8. DOMAIN NodesOf(reg, ids) = ids /\ DOMAIN NodesOf(t, ids) = ids
  BY DEF NodesOf
<1> QED
  BY <1>1, <1>2, <1>4, <1>6, <1>7, <1>8, OrderIsOfEdges

-----------------------------------------------------------------------------
(* The resolver. *)

\* What resolveAdvanced gives, and keeps.
Results == {Resolver!AdvancedResolve(reg, root, skip, deny) :
                reg \in Seq(Resolver!Resource), root \in Id, skip \in BOOLEAN, deny \in BOOLEAN}
Graphs == {r \in Results : r.error = "none"}

\* An entry of the cache is of the present registry unless it was made before
\* that came.
Entries ==
    {e \in [key : Id \X BOOLEAN, result : Graphs, at : Nat] :
        /\ e.at <= now
        /\ \/ e.at <= changed
           \/ e.result = Resolver!AdvancedResolve(Resolver!registry, e.key[1], e.key[2], FALSE)}

\* What a request has been answered.
AnswerIsGood ==
    /\ answer.op = "advanced" =>
          /\ answer.request \in Requests
          /\ answer.result \in Results
          /\ \/ now - changed <= TTL
             \/ \E deny \in {answer.request.deny, FALSE} :
                   answer.result = Resolver!AdvancedResolve(Resolver!registry, answer.request.roots[1],
                                                            answer.request.skip, deny)
    /\ answer.op \in {"impact", "dependents"} =>
          /\ {e.from : e \in answer.result.edges} \subseteq Id
          /\ Complete(answer.result.edges, answer.request.roots[1], answer.result.dependents)

ResolverInv ==
    /\ history \in Seq(Seq(Resolver!Resource)) /\ history # <<>>
    /\ now \in Nat /\ changed \in Nat
    /\ cache \in Seq(Entries)
    /\ lastResult \in {Resolver!NoResult} \cup Graphs
    /\ AnswerIsGood

LEMMA ResolverStarts ==
    ASSUME Resolver!Init
    PROVE  ResolverInv
<1>1. history \in Seq(Seq(Resolver!Resource)) /\ history # <<>>
  BY ResolverAssumption DEF Resolver!Init
<1>2. now \in Nat /\ changed \in Nat
  BY ResolverAssumption DEF Resolver!Init
<1>3. cache \in Seq(Entries)
  BY DEF Resolver!Init
<1>4. answer.op = "none"
  BY DEF Resolver!Init, Resolver!NoAnswer
<1> QED
  BY <1>1, <1>2, <1>3, <1>4 DEF ResolverInv, AnswerIsGood, Resolver!Init

LEMMA Request ==
    ASSUME NEW q \in Requests
    PROVE  q.roots[1] \in Id /\ q.skip \in BOOLEAN /\ q.deny \in BOOLEAN
<1>1. q.roots # <<>> /\ q.roots \in Seq(Id)
  BY ResolverAssumption
<1>2. q.roots[1] \in Id
  BY <1>1
<1> QED
  BY <1>2, ResolverAssumption

LEMMA PresentRegistry ==
    ASSUME ResolverInv
    PROVE  Resolver!registry \in Seq(Resolver!Resource)
  BY DEF ResolverInv, Resolver!registry

\* The cache is of entries that stay good until the next registry comes.
LEMMA CacheShrinks ==
    ASSUME NEW S, NEW s \in Seq(S)
    PROVE  /\ \A i \in DOMAIN s : Resolver!RemoveAt(s, i) \in Seq(S)
           /\ s # <<>> => Tail(s) \in Seq(S)
           /\ \A x \in S : Append(s, x) \in Seq(S)
<1>1. ASSUME NEW i \in DOMAIN s PROVE Resolver!RemoveAt(s, i) \in Seq(S)
  <2>1. i \in 1 .. Len(s) /\ Len(s) \in Nat
    OBVIOUS
  <2>2. SubSeq(s, 1, i - 1) \in Seq(S)
    BY <2>1, SubSeqProperties
  <2>3. SubSeq(s, i + 1, Len(s)) \in Seq(S)
    BY <2>1, SubSeqProperties
  <2> QED
    BY <2>2, <2>3 DEF Resolver!RemoveAt
<1> QED
  BY <1>1

\* The part of the resolver that a request leaves alone.
Kept == UNCHANGED <<history, now, changed>>

LEMMA EntriesKept ==
    ASSUME Kept
    PROVE  Entries' = Entries
  BY DEF Kept, Entries, Resolver!registry

LEMMA Answers ==
    ASSUME NEW q \in Requests, NEW result, Resolver!Answered(q, result)
    PROVE  /\ Kept /\ answer = Resolver!NoAnswer
           /\ answer'.op = q.op /\ answer'.request = q /\ answer'.result = result
  BY DEF Resolver!Answered, Kept

\* A request after which the answer, the cache and the last result are good.
LEMMA GoodAnswerKeeps ==
    ASSUME ResolverInv, Kept, AnswerIsGood', cache' \in Seq(Entries),
           lastResult' \in {Resolver!NoResult} \cup Graphs
    PROVE  ResolverInv'
<1>1. Entries' = Entries
  BY EntriesKept
<1>2. Graphs' = Graphs
  BY DEF Graphs, Results
<1>3. Resolver!NoResult' = Resolver!NoResult
  BY DEF Resolver!NoResult
<1> QED
  BY <1>1, <1>2, <1>3 DEF ResolverInv, Kept

LEMMA ResolveKeeps ==
    ASSUME ResolverInv, NEW q \in Requests,
           Resolver!ResolveRequest(q) \/ Resolver!PlanRequest(q)
    PROVE  ResolverInv'
<1>1. UNCHANGED <<cache, lastResult>>
  BY DEF Resolver!ResolveRequest, Resolver!PlanRequest
<1>2. \E result : Resolver!Answered(q, result) /\ q.op \in {"resolve", "offline", "plan"}
  BY DEF Resolver!ResolveRequest, Resolver!PlanRequest
<1>3. PICK result : Resolver!Answered(q, result) /\ q.op \in {"resolve", "offline", "plan"}
  BY <1>2
<1>4. Kept /\ answer'.op = q.op
  BY <1>3, Answers
<1>5. AnswerIsGood'
  BY <1>3, <1>4 DEF AnswerIsGood
<1>6. cache' \in Seq(Entries) /\ lastResult' \in {Resolver!NoResult} \cup Graphs
  BY <1>1 DEF ResolverInv
<1> QED
  BY <1>4, <1>5, <1>6, GoodAnswerKeeps

\* An answer with the dependents that edges give.
LEMMA DependentsKeep ==
    ASSUME ResolverInv, NEW q \in Requests, NEW result, Resolver!Answered(q, result),
           UNCHANGED <<cache, lastResult>>, q.op \in {"impact", "dependents"},
           {e.from : e \in result.edges} \subseteq Id,
           result.dependents = Resolver!TransitiveDependents(q.roots[1], result.edges)
    PROVE  ResolverInv'
<1>1. Kept /\ answer'.op = q.op /\ answer'.request = q /\ answer'.result = result
  BY Answers
<1>2. IsFiniteSet({e.from : e \in result.edges})
  BY ResolverAssumption, FS_Subset
<1>3. Complete(result.edges, q.roots[1], result.dependents)
  BY <1>2, DependentsAreThoseThatReach
<1>4. AnswerIsGood'
  <2>1. answer'.op # "advanced"
    BY <1>1
  <2>2. {e.from : e \in answer'.result.edges} \subseteq Id
    BY <1>1
  <2>3. Complete(answer'.result.edges, answer'.request.roots[1], answer'.result.dependents)
    BY <1>1, <1>3
  <2> QED
    BY <2>1, <2>2, <2>3 DEF AnswerIsGood, Complete
<1>5. cache' \in Seq(Entries) /\ lastResult' \in {Resolver!NoResult} \cup Graphs
  BY DEF ResolverInv
<1> QED
  BY <1>1, <1>4, <1>5, GoodAnswerKeeps

LEMMA ImpactKeeps ==
    ASSUME ResolverInv, NEW q \in Requests, Resolver!ImpactRequest(q)
    PROVE  ResolverInv'
<1> DEFINE reg == Resolver!registry
           first(i) == \A j \in DOMAIN reg : reg[j].id = reg[i].id => i <= j
           edges == UNION {{Resolver!Edge(reg[i].id, d.id, d.range, d.optional) :
                                d \in Resolver!Range(reg[i].deps)} : i \in {i \in DOMAIN reg : first(i)}}
           result == Resolver!Impact(reg, q.roots[1], q.version)
<1>1. result.edges = edges /\ result.dependents = Resolver!TransitiveDependents(q.roots[1], edges)
  BY DEF Resolver!Impact
<1>2. /\ q.op = "impact" /\ Resolver!Answered(q, result)
      /\ UNCHANGED <<cache, lastResult>>
  BY DEF Resolver!ImpactRequest
<1>3. \A i \in DOMAIN reg : reg[i].id \in Id
  <2>1. reg \in Seq(Resolver!Resource)
    BY PresentRegistry
  <2>2. \A i \in DOMAIN reg : reg[i] \in Resolver!Resource
    BY <2>1
  <2> QED
    BY <2>2 DEF Resolver!Resource
<1>4. ASSUME NEW e \in edges PROVE e.from \in Id
  <2>1. PICK i \in DOMAIN reg : \E d \in Resolver!Range(reg[i].deps) :
           e = Resolver!Edge(reg[i].id, d.id, d.range, d.optional)
    OBVIOUS
  <2>2. e.from = reg[i].id
    BY <2>1 DEF Resolver!Edge
  <2> QED
    BY <1>3, <2>2
<1> HIDE DEF result, edges
<1> QED
  BY <1>1, <1>2, <1>4, DependentsKeep

\* The edges of a graph that is kept go from its nodes.
LEMMA GraphsHaveIds ==
    ASSUME NEW r \in Graphs
    PROVE  \E reg \in Seq(Resolver!Resource), root \in Id : IsResultOf(reg, root, r)
<1>1. PICK reg \in Seq(Resolver!Resource), root \in Id, skip \in BOOLEAN, deny \in BOOLEAN :
         r = Resolver!AdvancedResolve(reg, root, skip, deny) /\ r.error = "none"
  BY DEF Graphs, Results
<1>2. Resolver!AdvancedResolve(reg, root, skip, deny).error = "none"
  BY <1>1
<1>3. IsResultOf(reg, root, Resolver!AdvancedResolve(reg, root, skip, deny))
  BY <1>2, AdvancedResult
<1> QED
  BY <1>1, <1>3

LEMMA DependentsOfGraphKeep ==
    ASSUME ResolverInv, NEW q \in Requests, Resolver!DependentsRequest(q)
    PROVE  ResolverInv'
<1> DEFINE edges == Resolver!EdgesOf(lastResult.nodes)
           result == [error |-> "none", edges |-> edges,
                      dependents |-> Resolver!TransitiveDependents(q.roots[1], edges)]
<1>1. /\ q.op = "dependents" /\ lastResult \in Graphs
      /\ Resolver!Answered(q, result) /\ UNCHANGED <<cache, lastResult>>
  BY DEF Resolver!DependentsRequest, ResolverInv
<1>2. PICK reg \in Seq(Resolver!Resource), root \in Id : IsResultOf(reg, root, lastResult)
  BY <1>1, GraphsHaveIds
<1>3. PICK ids \in SUBSET Id : Reached(reg, root, ids) /\ lastResult.nodes = NodesOf(reg, ids)
  BY <1>2 DEF IsResultOf
<1>4. \A id \in ids : Resolver!Listed(reg, id) # {}
  BY <1>3 DEF Reached
<1>5. ASSUME NEW e \in edges PROVE e.from \in Id
  <2>1. edges = UNION {Resolver!Range(Resolver!NodeOf(reg, id).edges) : id \in ids}
    BY <1>3 DEF Resolver!EdgesOf, NodesOf
  <2>2. PICK id \in ids : e \in Resolver!Range(Resolver!NodeOf(reg, id).edges)
    BY <1>5, <2>1
  <2>3. e.from = id
    <3> DEFINE deps == Resolver!ChosenFor(reg, id).deps
               out == [i \in DOMAIN deps |->
                           Resolver!Edge(id, deps[i].id, deps[i].range, deps[i].optional)]
    <3>1. Resolver!NodeOf(reg, id).edges = out
      BY DEF Resolver!NodeOf
    <3> HIDE DEF deps
    <3>2. PICK i \in DOMAIN deps : e = Resolver!Edge(id, deps[i].id, deps[i].range, deps[i].optional)
      BY <2>2, <3>1 DEF Resolver!Range
    <3> QED
      BY <3>2 DEF Resolver!Edge
  <2> QED
    BY <2>3
<1>6. result.edges = edges /\ result.dependents = Resolver!TransitiveDependents(q.roots[1], edges)
  OBVIOUS
<1> HIDE DEF result, edges
<1> QED
  BY <1>1, <1>5, <1>6, DependentsKeep

LEMMA WithoutIsKept ==
    ASSUME ResolverInv, NEW q
    PROVE  Resolver!Without(q) \in Seq(Entries)
<1>1. cache \in Seq(Entries)
  BY DEF ResolverInv
<1>2. CASE Resolver!Held(q) = {}
  BY <1>1, <1>2 DEF Resolver!Without
<1>3. CASE Resolver!Held(q) # {}
  <2>1. Resolver!Entry(q) \in DOMAIN cache
    BY <1>3 DEF Resolver!Entry, Resolver!Held
  <2>2. Resolver!RemoveAt(cache, Resolver!Entry(q)) \in Seq(Entries)
    BY <1>1, <2>1, CacheShrinks
  <2> QED
    BY <1>3, <2>2 DEF Resolver!Without
<1> QED
  BY <1>2, <1>3

LEMMA StoredIsKept ==
    ASSUME NEW s \in Seq(Entries), NEW q, NEW result,
           [key |-> Resolver!Key(q), result |-> result, at |-> now] \in Entries
    PROVE  Resolver!Stored(s, q, result) \in Seq(Entries)
<1>1. MaxSize \in Nat \ {0} /\ Len(s) \in Nat
  BY ResolverAssumption
<1>2. Len(s) >= MaxSize => s # <<>>
  <2>1. s = <<>> => Len(s) = 0
    OBVIOUS
  <2> QED
    BY <1>1, <2>1
<1>3. (IF Len(s) >= MaxSize THEN Tail(s) ELSE s) \in Seq(Entries)
  BY <1>2, CacheShrinks
<1> QED
  BY <1>3, CacheShrinks DEF Resolver!Stored

LEMMA AdvancedKeeps ==
    ASSUME ResolverInv, NEW q \in Requests, Resolver!AdvancedRequest(q)
    PROVE  ResolverInv'
<1> DEFINE held == Resolver!Held(q) # {} /\ Resolver!Fresh(cache[Resolver!Entry(q)])
           root == q.roots[1]
           gives(deny) == Resolver!AdvancedResolve(Resolver!registry, root, q.skip, deny)
           result == gives(q.deny)
<1>1. /\ root \in Id /\ q.skip \in BOOLEAN /\ q.deny \in BOOLEAN
      /\ Resolver!registry \in Seq(Resolver!Resource)
      /\ cache \in Seq(Entries) /\ now \in Nat /\ changed \in Nat /\ TTL \in Nat
      /\ lastResult \in {Resolver!NoResult} \cup Graphs
  BY Request, PresentRegistry, ResolverAssumption DEF ResolverInv
<1>2. q.op = "advanced"
  BY DEF Resolver!AdvancedRequest
\* An answer is good when it is a result of the present registry, or one from
\* before a change of not long ago.
<1>3. ASSUME NEW r \in Results, Resolver!Answered(q, r),
             now - changed <= TTL \/ \E deny \in {q.deny, FALSE} : r = gives(deny)
      PROVE  Kept /\ AnswerIsGood'
  <2>1. Kept /\ answer'.op = "advanced" /\ answer'.request = q /\ answer'.result = r
    BY <1>2, <1>3, Answers
  <2>2. now' = now /\ changed' = changed /\ Resolver!registry' = Resolver!registry
    BY <2>1 DEF Kept, Resolver!registry
  <2>3. Results' = Results
    BY DEF Results
  <2>4. \/ now' - changed' <= TTL
        \/ \E deny \in {answer'.request.deny, FALSE} :
              answer'.result = Resolver!AdvancedResolve(Resolver!registry', answer'.request.roots[1],
                                                        answer'.request.skip, deny)
    BY <1>3, <2>1, <2>2
  <2> HIDE DEF gives, root, result
  <2> QED
    BY <1>3, <2>1, <2>3, <2>4 DEF AnswerIsGood
<1>4. CASE held
  <2> DEFINE e == cache[Resolver!Entry(q)]
  <2>1. Resolver!Answered(q, e.result) /\ UNCHANGED <<cache, lastResult>>
    BY <1>4 DEF Resolver!AdvancedRequest
  <2>2. Resolver!Entry(q) \in DOMAIN cache /\ e.key = <<root, q.skip>>
    BY <1>4 DEF Resolver!Entry, Resolver!Held, Resolver!Key
  <2>3. e \in Entries /\ now - e.at <= TTL
    BY <1>1, <1>4, <2>2 DEF Resolver!Fresh
  <2> HIDE DEF e
  <2>4. /\ e.result \in Graphs /\ e.at \in Nat
        /\ \/ e.at <= changed
           \/ e.result = Resolver!AdvancedResolve(Resolver!registry, e.key[1], e.key[2], FALSE)
    BY <2>3 DEF Entries
  <2>5. e.result \in Results
    BY <2>4 DEF Graphs
  <2>6. now - changed <= TTL \/ e.result = gives(FALSE)
    <3>1. e.key[1] = root /\ e.key[2] = q.skip
      BY <2>2
    <3>2. CASE e.at <= changed
      <4>1. \A at \in Nat : at <= changed /\ now - at <= TTL => now - changed <= TTL
        BY <1>1
      <4> QED
        BY <2>3, <2>4, <3>2, <4>1
    <3>3. CASE e.result = Resolver!AdvancedResolve(Resolver!registry, e.key[1], e.key[2], FALSE)
      BY <3>1, <3>3
    <3> QED
      BY <2>4, <3>2, <3>3
  <2>7. Kept /\ AnswerIsGood'
    BY <1>3, <2>1, <2>5, <2>6
  <2>8. cache' \in Seq(Entries) /\ lastResult' \in {Resolver!NoResult} \cup Graphs
    BY <1>1, <2>1
  <2> QED
    BY <2>7, <2>8, GoodAnswerKeeps
<1>5. CASE ~held
  <2>1. /\ Resolver!Answered(q, result)
        /\ IF result.error = "none"
           THEN cache' = Resolver!Stored(Resolver!Without(q), q, result) /\ lastResult' = result
           ELSE cache' = Resolver!Without(q) /\ UNCHANGED lastResult
    BY <1>5 DEF Resolver!AdvancedRequest
  <2>2. result \in Results
    BY <1>1 DEF Results
  <2> HIDE DEF held
  <2>3. Kept /\ AnswerIsGood'
    BY <1>3, <2>1, <2>2
  <2>4. Resolver!Without(q) \in Seq(Entries)
    BY WithoutIsKept
  <2>5. CASE result.error = "none"
    <3>1. result \in Graphs
      BY <2>2, <2>5 DEF Graphs
    <3>2. result = gives(FALSE)
      BY <1>1, <2>5, AdvancedResult
    <3>3. [key |-> Resolver!Key(q), result |-> result, at |-> now] \in Entries
      <4> DEFINE e == [key |-> <<root, q.skip>>, result |-> result, at |-> now]
      <4>1. e.key = <<root, q.skip>> /\ e.result = result /\ e.at = now
        OBVIOUS
      <4>2. <<root, q.skip>> \in Id \X BOOLEAN
            /\ <<root, q.skip>>[1] = root /\ <<root, q.skip>>[2] = q.skip
        BY <1>1
      <4>3. e \in [key : Id \X BOOLEAN, result : Graphs, at : Nat]
        BY <1>1, <3>1, <4>2
      <4>4. e.at <= now
        BY <1>1, <4>1
      <4>5. e.result = Resolver!AdvancedResolve(Resolver!registry, e.key[1], e.key[2], FALSE)
        BY <3>2, <4>1, <4>2
      <4> HIDE DEF e, result, gives, root
      <4>6. e \in Entries
        BY <4>3, <4>4, <4>5 DEF Entries
      <4> QED
        BY <4>6 DEF e, Resolver!Key, root
    <3> HIDE DEF result, gives
    <3>4. cache' \in Seq(Entries)
      BY <2>1, <2>4, <2>5, <3>3, StoredIsKept
    <3> QED
      BY <2>1, <2>3, <2>5, <3>1, <3>4, GoodAnswerKeeps
  <2>6. CASE result.error # "none"
    <3>1. cache' \in Seq(Entries) /\ lastResult' \in {Resolver!NoResult} \cup Graphs
      BY <1>1, <2>1, <2>4, <2>6
    <3> QED
      BY <2>3, <3>1, GoodAnswerKeeps
  <2> QED
    BY <2>5, <2>6
<1> QED
  BY <1>4, <1>5

\* What the caller and the clock do: there is no answer then.
LEMMA NoAnswerIsGood ==
    ASSUME answer' = Resolver!NoAnswer
    PROVE  AnswerIsGood'
<1>1. answer'.op = "none"
  BY DEF Resolver!NoAnswer
<1> QED
  BY <1>1 DEF AnswerIsGood

LEMMA OtherStepsKeep ==
    ASSUME ResolverInv,
           \/ Resolver!Settle \/ Resolver!SetResources
           \/ Resolver!InvalidateResolutionCache \/ Resolver!Tick
    PROVE  ResolverInv'
<1>1. answer' = Resolver!NoAnswer
  BY DEF Resolver!Settle, Resolver!SetResources, Resolver!InvalidateResolutionCache, Resolver!Tick
<1>2. AnswerIsGood'
  BY <1>1, NoAnswerIsGood
<1>3. Graphs' = Graphs /\ Resolver!NoResult' = Resolver!NoResult
  BY DEF Graphs, Results, Resolver!NoResult
<1>4. CASE Resolver!Settle
  <2>1. Kept /\ UNCHANGED <<cache, lastResult>>
    BY <1>4 DEF Resolver!Settle, Kept
  <2>2. cache' \in Seq(Entries) /\ lastResult' \in {Resolver!NoResult} \cup Graphs
    BY <2>1 DEF ResolverInv
  <2> QED
    BY <1>2, <2>1, <2>2, GoodAnswerKeeps
<1>5. CASE Resolver!SetResources
  <2>1. /\ Len(history) > 1 /\ history' = Tail(history) /\ changed' = now
        /\ UNCHANGED <<cache, lastResult, now>>
    BY <1>5 DEF Resolver!SetResources
  <2>2. history' \in Seq(Seq(Resolver!Resource)) /\ history' # <<>>
    <3>1. history \in Seq(Seq(Resolver!Resource))
      BY DEF ResolverInv
    <3> DEFINE rest == Tail(history)
    <3>2. rest \in Seq(Seq(Resolver!Resource)) /\ Len(rest) = Len(history) - 1 /\ Len(history) \in Nat
      <4>1. history # <<>>
        BY DEF ResolverInv
      <4> QED
        BY <3>1, <4>1, HeadTailProperties
    <3>3. Len(rest) # 0
      <4> HIDE DEF rest
      <4>1. Len(rest) = Len(history) - 1 /\ Len(history) \in Nat
        BY <3>2
      <4> DEFINE n == Len(history)
      <4>2. n > 1
        BY <2>1
      <4>3. Len(rest) = n - 1 /\ n \in Nat
        BY <4>1
      <4> HIDE DEF n
      <4>4. n - 1 # 0
        BY <4>2, <4>3
      <4> QED
        BY <4>3, <4>4
    <3>4. rest # <<>>
      <4> HIDE DEF rest
      <4> QED
        BY <3>3
    <3> QED
      BY <2>1, <3>2, <3>4
  <2>3. Entries \subseteq Entries'
    BY <1>3, <2>1 DEF Entries
  <2>4. cache' \in Seq(Entries')
    <3>1. cache \in Seq(Entries)
      BY DEF ResolverInv
    <3> QED
      BY <2>1, <2>3, <3>1
  <2> QED
    BY <1>2, <1>3, <2>1, <2>2, <2>4 DEF ResolverInv
<1>6. CASE Resolver!InvalidateResolutionCache
  <2>1. Kept /\ cache' = <<>> /\ lastResult' = Resolver!NoResult
    BY <1>6 DEF Resolver!InvalidateResolutionCache, Kept
  <2> QED
    BY <1>2, <2>1, GoodAnswerKeeps
<1>7. CASE Resolver!Tick
  <2>1. now' = now + 1 /\ UNCHANGED <<history, cache, lastResult, changed>>
    BY <1>7 DEF Resolver!Tick
  <2>2. Resolver!registry' = Resolver!registry
    BY <2>1 DEF Resolver!registry
  <2>3. \A at \in Nat : now \in Nat /\ at <= now => at <= now'
    BY <2>1
  <2>4. Entries \subseteq Entries'
    BY <1>3, <2>1, <2>2, <2>3 DEF Entries, ResolverInv
  <2>5. cache' \in Seq(Entries')
    <3>1. cache \in Seq(Entries)
      BY DEF ResolverInv
    <3> QED
      BY <2>1, <2>4, <3>1
  <2> QED
    BY <1>2, <1>3, <2>1, <2>5 DEF ResolverInv
<1> QED
  BY <1>4, <1>5, <1>6, <1>7

LEMMA ResolverStops ==
    ASSUME ResolverInv, UNCHANGED resolverVars
    PROVE  ResolverInv'
<1>1. Kept /\ UNCHANGED <<cache, lastResult, answer>>
  BY DEF resolverVars, Kept
<1>2. cache' \in Seq(Entries) /\ lastResult' \in {Resolver!NoResult} \cup Graphs
  BY <1>1 DEF ResolverInv
<1>3. Results' = Results
  BY DEF Results
<1>4. AnswerIsGood'
  BY <1>1, <1>3 DEF ResolverInv, AnswerIsGood, Kept, Resolver!registry
<1> QED
  BY <1>1, <1>2, <1>4, GoodAnswerKeeps

LEMMA ResolverIsKept == ExtensionsSpec => []ResolverInv
<1>1. ExtensionsInit => ResolverInv
  BY ResolverStarts DEF ExtensionsInit
<1>2. ResolverInv /\ [ExtensionsNext]_extensionVars => ResolverInv'
  <2> SUFFICES ASSUME ResolverInv, [ExtensionsNext]_extensionVars PROVE ResolverInv'
    OBVIOUS
  <2>1. CASE Resolver!Next
    BY <2>1, ResolveKeeps, ImpactKeeps, AdvancedKeeps, DependentsOfGraphKeep, OtherStepsKeep
       DEF Resolver!Next
  <2>2. CASE UNCHANGED resolverVars
    BY <2>2, ResolverStops
  <2> QED
    BY <2>1, <2>2 DEF ExtensionsNext, extensionVars
<1> QED
  BY <1>1, <1>2, PTL DEF ExtensionsSpec

\* An advanced answer is of the present registry, or the registry changed at most
\* the time to live ago (resolution-cache.ts:62-72): an entry that a caller
\* is given was made before the last change, and is not too old, or after it.
THEOREM AdvancedIsFresh == ExtensionsSpec => []StaleAtMostTTL
<1>1. ResolverInv => StaleAtMostTTL
  BY DEF ResolverInv, AnswerIsGood, StaleAtMostTTL, Resolver!StaleAtMostTTL
<1> QED
  BY <1>1, ResolverIsKept, PTL

\* The dependents of a resource are all that reach it, whatever the cycles
\* (graph.ts:254-276, advanced-resolver.ts:292-312).
THEOREM DependentsAreFound == ExtensionsSpec => []DependentsAreComplete
<1>1. ASSUME ResolverInv, answer.op \in {"impact", "dependents"}
      PROVE  LET pairs == {<<e.from, e.to>> : e \in answer.result.edges}
             IN  answer.result.dependents =
                     {n \in Id : Resolver!Reach(pairs, n, answer.request.roots[1])}
  <2> DEFINE edges == answer.result.edges
             root == answer.request.roots[1]
             pairs == {<<e.from, e.to>> : e \in edges}
             froms == {e.from : e \in edges}
  <2>1. froms \subseteq Id /\ Complete(edges, root, answer.result.dependents)
    BY <1>1 DEF ResolverInv, AnswerIsGood
  <2>2. answer.result.dependents = {n \in froms : Resolver!Reach(pairs, n, root)}
    BY <2>1 DEF Complete
  <2>3. \A p \in pairs : p[1] \in froms
    OBVIOUS
  <2> HIDE DEF pairs, froms
  <2>4. ASSUME NEW n, Resolver!Reach(pairs, n, root)
        PROVE  n \in froms
    <3> SUFFICES ASSUME n \notin froms PROVE FALSE
      OBVIOUS
    <3> DEFINE none == {}
    <3>1. \A x : x \notin none
      OBVIOUS
    <3> HIDE DEF none
    <3>2. \A p \in pairs : p[1] \in none \cup {n} => p[2] \in none
      BY <2>3, <3>1
    <3>3. root \in none
      BY <2>4, <3>2, ReachStays
    <3> QED
      BY <3>1, <3>3
  <2>5. answer.result.dependents = {n \in Id : Resolver!Reach(pairs, n, root)}
    BY <2>1, <2>2, <2>4
  <2> QED
    BY <2>5 DEF pairs
<1>2. ResolverInv => DependentsAreComplete
  BY <1>1 DEF DependentsAreComplete, Resolver!DependentsAreComplete
<1> QED
  BY <1>2, ResolverIsKept, PTL

\* An advanced answer orders the nodes that reach no cycle, each after those it
\* depends on, and in the same order however the registry lists the dependencies
\* (graph.ts:155-211, advanced-resolver.ts:237).
LEMMA AdvancedAnswer ==
    ASSUME ResolverInv
    PROVE  Resolver!AdvancedIsSound
<1> SUFFICES ASSUME answer.op = "advanced", answer.result.error = "none"
             PROVE  Resolver!AdvancedIsSound
  BY DEF Resolver!AdvancedIsSound
<1> DEFINE result == answer.result
           q == answer.request
           pairs == Resolver!InnerEdges(result.nodes)
           gives(reg) == Resolver!AdvancedResolve(reg, q.roots[1], q.skip, q.deny)
           other == gives(Resolver!Relisted(Resolver!registry))
<1>1. result \in Graphs /\ q \in Requests
  BY DEF ResolverInv, AnswerIsGood, Graphs
<1>2. q.roots[1] \in Id /\ q.skip \in BOOLEAN /\ q.deny \in BOOLEAN
  BY <1>1, Request
<1>3. /\ Resolver!registry \in Seq(Resolver!Resource)
      /\ Resolver!Relisted(Resolver!registry) \in Seq(Resolver!Resource)
  BY PresentRegistry, RelistedIsThere
<1>4. PICK reg \in Seq(Resolver!Resource), root \in Id : IsResultOf(reg, root, result)
  BY <1>1, GraphsHaveIds
<1>5. Resolver!WellOrdered(result.order, Acyclic(result.nodes), pairs)
  BY <1>4, ResultIsOrdered
<1>6. ASSUME gives(Resolver!registry) = result, other.error = "none"
      PROVE  other.order = result.order
  <2>1. gives(Resolver!registry).error = "none"
    BY <1>6
  <2>2. IsResultOf(Resolver!registry, q.roots[1], gives(Resolver!registry))
    BY <1>2, <1>3, <2>1, AdvancedResult
  <2>3. IsResultOf(Resolver!Relisted(Resolver!registry), q.roots[1], other)
    BY <1>2, <1>3, <1>6, AdvancedResult
  <2> HIDE DEF other, gives
  <2> QED
    BY <1>2, <1>3, <1>6, <2>2, <2>3, ResultIsIndependent
<1> QED
  BY <1>5, <1>6 DEF Resolver!AdvancedIsSound, Acyclic

LEMMA TypesKeep ==
    ASSUME TypesInv, [Types!RegistriesNext]_typeVars
    PROVE  TypesInv'
<1>1. CASE Types!RegistriesNext
  BY <1>1, RegisterTypeKeeps, UnregisterTypeKeeps, RegisterInstallerKeeps, UnregisterInstallerKeeps
     DEF Types!RegistriesNext
<1>2. CASE UNCHANGED typeVars
  BY <1>2 DEF typeVars, TypesInv
<1> QED
  BY <1>1, <1>2

LEMMA IndexIsKept == ExtensionsSpec => []IndexInv
<1>1. ExtensionsInit => IndexInv
  BY DEF ExtensionsInit, Indexing!IndexInit, IndexInv
<1>2. IndexInv /\ [ExtensionsNext]_extensionVars => IndexInv'
  <2> SUFFICES ASSUME IndexInv, [ExtensionsNext]_extensionVars PROVE IndexInv'
    OBVIOUS
  <2>1. [Indexing!IndexNext]_indexVars
    BY DEF ExtensionsNext, extensionVars
  <2> QED
    BY <2>1, IndexKeeps
<1> QED
  BY <1>1, <1>2, PTL DEF ExtensionsSpec

LEMMA TypesAreKept == ExtensionsSpec => []TypesInv
<1>1. ExtensionsInit => TypesInv
  BY TypesStart DEF ExtensionsInit
<1>2. TypesInv /\ [ExtensionsNext]_extensionVars => TypesInv'
  <2> SUFFICES ASSUME TypesInv, [ExtensionsNext]_extensionVars PROVE TypesInv'
    OBVIOUS
  <2>1. [Types!RegistriesNext]_typeVars
    BY DEF ExtensionsNext, extensionVars
  <2> QED
    BY <2>1, TypesKeep
<1> QED
  BY <1>1, <1>2, PTL DEF ExtensionsSpec

-----------------------------------------------------------------------------
(* The graph that is resolved. *)

Targets(refs) == {ref[1] : ref \in Resolver!Range(refs)}
RefPairs(nodes) ==
    UNION {{<<n.id, ref[1]>> : ref \in Resolver!Range(n.refs)} : n \in Resolver!Range(nodes)}

\* What a node depends on is before it, or the search is under way to it still, or
\* it depends on the node in turn: then there is a cycle.
Backs(path, r, i, t) ==
    \/ \E j \in 1 .. i - 1 : r.nodes[j].id = t
    \/ /\ r.circular # {}
       /\ \/ t \in path
          \/ t \in Resolver!IdsOf(r.nodes) /\ Resolver!Reach(RefPairs(r.nodes), t, r.nodes[i].id)

\* There is a cycle, or there will be one when the path is done.
Loops(path, r) ==
    \/ \E n : Resolver!Reach(RefPairs(r.nodes), n, n)
    \/ \E t \in Targets(r.refs), q \in path : Leads(RefPairs(r.nodes), t, q)

\* From what was found, the search finds r with the dependencies deps of the node
\* at the end of the path.
Resolves(path, deps, found, r) ==
    /\ r \in Resolver!Graph
    /\ r.error = "none" =>
          /\ found.error = "none"
          /\ Begins(found.nodes, r.nodes)
          /\ Targets(found.refs) \subseteq Targets(r.refs)
          /\ Targets(r.refs) \subseteq Targets(found.refs) \cup {d.id : d \in deps}
          /\ found.circular # {} => r.circular # {}
          /\ r.circular # {} => found.circular # {} \/ Loops(path, r)
          /\ \A t \in Targets(r.refs) \ Targets(found.refs) :
                t \in Resolver!IdsOf(r.nodes) \/ (r.circular # {} /\ t \in path)
          /\ \A d \in deps : d.optional \/ d.id \in Resolver!IdsOf(r.nodes) \cup path
          /\ \A i \in Len(found.nodes) + 1 .. Len(r.nodes) :
                /\ r.nodes[i].id \notin path
                /\ \A j \in 1 .. i - 1 : r.nodes[j].id # r.nodes[i].id
                /\ \E t \in Targets(r.refs) : Leads(RefPairs(r.nodes), t, r.nodes[i].id)
                /\ \A t \in Targets(r.nodes[i].refs) : Backs(path, r, i, t)

LEMMA GraphsAre ==
    ASSUME NEW r \in Resolver!Graph
    PROVE  /\ r.nodes \in Seq(Resolver!Node) /\ r.refs \in Seq(Resolver!Reference)
           /\ r.circular \in SUBSET Seq(Id) /\ r.error \in {"none", "missing", "depth"}
           /\ Len(r.nodes) \in Nat /\ DOMAIN r.nodes = 1 .. Len(r.nodes)
           /\ r = [nodes |-> r.nodes, refs |-> r.refs, circular |-> r.circular, error |-> r.error]
  BY DEF Resolver!Graph

\* More nodes have more ids and more pairs.
LEMMA Grown ==
    ASSUME NEW s \in Seq(Resolver!Node), NEW t \in Seq(Resolver!Node), Begins(s, t)
    PROVE  /\ Resolver!IdsOf(s) \subseteq Resolver!IdsOf(t)
           /\ RefPairs(s) \subseteq RefPairs(t)
<1>1. Resolver!Range(s) \subseteq Resolver!Range(t)
  <2>1. /\ DOMAIN s = 1 .. Len(s) /\ DOMAIN t = 1 .. Len(t) /\ Len(s) \in Nat /\ Len(t) \in Nat
        /\ Len(s) <= Len(t) /\ \A i \in 1 .. Len(s) : s[i] = t[i]
    BY DEF Begins
  <2>2. \A i \in DOMAIN s : i \in DOMAIN t /\ t[i] = s[i]
    BY <2>1
  <2> QED
    BY <2>2 DEF Resolver!Range
<1> QED
  BY <1>1 DEF Resolver!IdsOf, RefPairs

\* One dependency after another.
LEMMA Joined ==
    ASSUME NEW path, NEW A, NEW B, NEW found \in Resolver!Graph, NEW mid \in Resolver!Graph, NEW r,
           Resolves(path, A, found, mid), Resolves(path, B, mid, r)
    PROVE  Resolves(path, A \cup B, found, r)
<1>1. r \in Resolver!Graph
  BY DEF Resolves
<1>2. SUFFICES ASSUME r.error = "none" PROVE Resolves(path, A \cup B, found, r)
  BY <1>1 DEF Resolves
<1> DEFINE a == Len(found.nodes)
           b == Len(mid.nodes)
           c == Len(r.nodes)
<1>0. mid.error = "none"
  BY <1>2 DEF Resolves
<1>3. /\ Begins(found.nodes, mid.nodes)
      /\ Targets(found.refs) \subseteq Targets(mid.refs)
      /\ Targets(mid.refs) \subseteq Targets(found.refs) \cup {d.id : d \in A}
      /\ found.circular # {} => mid.circular # {}
      /\ mid.circular # {} => found.circular # {} \/ Loops(path, mid)
      /\ \A t \in Targets(mid.refs) \ Targets(found.refs) :
            t \in Resolver!IdsOf(mid.nodes) \/ (mid.circular # {} /\ t \in path)
      /\ \A d \in A : d.optional \/ d.id \in Resolver!IdsOf(mid.nodes) \cup path
      /\ \A i \in a + 1 .. b :
            /\ mid.nodes[i].id \notin path
            /\ \A j \in 1 .. i - 1 : mid.nodes[j].id # mid.nodes[i].id
            /\ \E t \in Targets(mid.refs) : Leads(RefPairs(mid.nodes), t, mid.nodes[i].id)
            /\ \A t \in Targets(mid.nodes[i].refs) : Backs(path, mid, i, t)
  BY <1>0 DEF Resolves
<1>4. /\ Begins(mid.nodes, r.nodes)
      /\ Targets(mid.refs) \subseteq Targets(r.refs)
      /\ Targets(r.refs) \subseteq Targets(mid.refs) \cup {d.id : d \in B}
      /\ mid.circular # {} => r.circular # {}
      /\ r.circular # {} => mid.circular # {} \/ Loops(path, r)
      /\ \A t \in Targets(r.refs) \ Targets(mid.refs) :
            t \in Resolver!IdsOf(r.nodes) \/ (r.circular # {} /\ t \in path)
      /\ \A d \in B : d.optional \/ d.id \in Resolver!IdsOf(r.nodes) \cup path
      /\ \A i \in b + 1 .. c :
            /\ r.nodes[i].id \notin path
            /\ \A j \in 1 .. i - 1 : r.nodes[j].id # r.nodes[i].id
            /\ \E t \in Targets(r.refs) : Leads(RefPairs(r.nodes), t, r.nodes[i].id)
            /\ \A t \in Targets(r.nodes[i].refs) : Backs(path, r, i, t)
  BY <1>2 DEF Resolves
<1>5. /\ found.nodes \in Seq(Resolver!Node) /\ mid.nodes \in Seq(Resolver!Node)
      /\ r.nodes \in Seq(Resolver!Node) /\ a \in Nat /\ b \in Nat /\ c \in Nat
  BY <1>1, GraphsAre
<1>6. /\ Resolver!IdsOf(mid.nodes) \subseteq Resolver!IdsOf(r.nodes)
      /\ RefPairs(mid.nodes) \subseteq RefPairs(r.nodes)
  BY <1>4, <1>5, Grown
<1>7. /\ a <= b /\ b <= c
      /\ \A i \in 1 .. a : found.nodes[i] = mid.nodes[i]
      /\ \A i \in 1 .. b : mid.nodes[i] = r.nodes[i]
  BY <1>3, <1>4 DEF Begins
<1> HIDE DEF a, b, c
<1>8. Begins(found.nodes, r.nodes)
  <2>1. a <= c /\ \A i \in 1 .. a : i \in 1 .. b
    BY <1>5, <1>7
  <2> QED
    BY <1>7, <2>1 DEF Begins, a, c
<1>9. ASSUME NEW i \in a + 1 .. b
      PROVE  /\ r.nodes[i].id \notin path
             /\ \A j \in 1 .. i - 1 : r.nodes[j].id # r.nodes[i].id
             /\ \E t \in Targets(r.refs) : Leads(RefPairs(r.nodes), t, r.nodes[i].id)
             /\ \A t \in Targets(r.nodes[i].refs) : Backs(path, r, i, t)
  <2>1. i \in 1 .. b /\ \A j \in 1 .. i - 1 : j \in 1 .. b
    BY <1>5
  <2>2. mid.nodes[i] = r.nodes[i] /\ \A j \in 1 .. i - 1 : mid.nodes[j] = r.nodes[j]
    BY <1>7, <2>1
  <2>3. r.nodes[i].id \notin path /\ \A j \in 1 .. i - 1 : r.nodes[j].id # r.nodes[i].id
    BY <1>3, <2>2
  <2>4. PICK t \in Targets(mid.refs) : Leads(RefPairs(mid.nodes), t, r.nodes[i].id)
    BY <1>3, <2>2
  <2>5. t \in Targets(r.refs) /\ Leads(RefPairs(r.nodes), t, r.nodes[i].id)
    BY <1>4, <1>6, <2>4, LeadsMore
  <2>6. ASSUME NEW u \in Targets(r.nodes[i].refs)
        PROVE  Backs(path, r, i, u)
    <3>1. Backs(path, mid, i, u)
      BY <1>3, <2>2
    <3>2. CASE \E j \in 1 .. i - 1 : mid.nodes[j].id = u
      BY <2>2, <3>2 DEF Backs
    <3>3. CASE mid.circular # {} /\ u \in path
      BY <1>4, <3>3 DEF Backs
    <3>4. CASE /\ mid.circular # {} /\ u \in Resolver!IdsOf(mid.nodes)
               /\ Resolver!Reach(RefPairs(mid.nodes), u, mid.nodes[i].id)
      <4>1. Resolver!Reach(RefPairs(r.nodes), u, r.nodes[i].id)
        BY <1>6, <2>2, <3>4, ReachMore
      <4> QED
        BY <1>4, <1>6, <3>4, <4>1 DEF Backs
    <3> QED
      BY <3>1, <3>2, <3>3, <3>4 DEF Backs
  <2> QED
    BY <2>3, <2>5, <2>6
<1>10. \A i \in a + 1 .. c :
          /\ r.nodes[i].id \notin path
          /\ \A j \in 1 .. i - 1 : r.nodes[j].id # r.nodes[i].id
          /\ \E t \in Targets(r.refs) : Leads(RefPairs(r.nodes), t, r.nodes[i].id)
          /\ \A t \in Targets(r.nodes[i].refs) : Backs(path, r, i, t)
  <2>1. \A i \in a + 1 .. c : i \in a + 1 .. b \/ i \in b + 1 .. c
    BY <1>5, <1>7
  <2> QED
    BY <1>4, <1>9, <2>1
<1>11. Loops(path, mid) => Loops(path, r)
  <2>1. \A n : Resolver!Reach(RefPairs(mid.nodes), n, n) => Resolver!Reach(RefPairs(r.nodes), n, n)
    BY <1>6, ReachMore
  <2>2. \A t, q : Leads(RefPairs(mid.nodes), t, q) => Leads(RefPairs(r.nodes), t, q)
    BY <1>6, LeadsMore
  <2> QED
    BY <1>4, <2>1, <2>2 DEF Loops
<1>12. r.circular # {} => found.circular # {} \/ Loops(path, r)
  BY <1>3, <1>4, <1>11
<1>13. \A t \in Targets(r.refs) \ Targets(found.refs) :
          t \in Resolver!IdsOf(r.nodes) \/ (r.circular # {} /\ t \in path)
  BY <1>3, <1>4, <1>6
<1>14. \A d \in A \cup B : d.optional \/ d.id \in Resolver!IdsOf(r.nodes) \cup path
  BY <1>3, <1>4, <1>6
<1>15. Targets(r.refs) \subseteq Targets(found.refs) \cup {d.id : d \in A \cup B}
  BY <1>3, <1>4
<1>16. /\ Targets(found.refs) \subseteq Targets(r.refs) /\ (found.circular # {} => r.circular # {})
       /\ found.error = "none"
  BY <1>0, <1>3, <1>4 DEF Resolves
<1> QED
  BY <1>1, <1>8, <1>10, <1>12, <1>13, <1>14, <1>15, <1>16 DEF Resolves, a, c

\* An optional dependency that is passed over.
LEMMA PassedOver ==
    ASSUME NEW path, NEW d, d.optional, NEW found \in Resolver!Graph
    PROVE  Resolves(path, {d}, found, found)
<1>1. found.nodes \in Seq(Resolver!Node) /\ Len(found.nodes) \in Nat
  BY GraphsAre
<1>2. Begins(found.nodes, found.nodes) /\ \A i \in Len(found.nodes) + 1 .. Len(found.nodes) : FALSE
  BY <1>1 DEF Begins
<1> QED
  BY <1>2 DEF Resolves

LEMMA OneMoreTarget ==
    ASSUME NEW refs \in Seq(Resolver!Reference), NEW id \in Id, NEW v \in Resolver!Version
    PROVE  /\ Append(refs, <<id, v>>) \in Seq(Resolver!Reference)
           /\ Targets(Append(refs, <<id, v>>)) = Targets(refs) \cup {id}
<1>1. <<id, v>> \in Resolver!Reference /\ <<id, v>>[1] = id
  BY DEF Resolver!Reference
<1>2. /\ Append(refs, <<id, v>>) \in Seq(Resolver!Reference)
      /\ Resolver!Range(Append(refs, <<id, v>>)) = Resolver!Range(refs) \cup {<<id, v>>}
  BY <1>1, RangeOfAppend
<1> QED
  BY <1>1, <1>2 DEF Targets

\* A dependency that is found already, or is on the path and closes a cycle.
LEMMA ReferredTo ==
    ASSUME NEW path, NEW d, NEW found \in Resolver!Graph, NEW r \in Resolver!Graph,
           r.nodes = found.nodes, r.error = found.error, Targets(r.refs) = Targets(found.refs) \cup {d.id},
           \/ d.id \in Resolver!IdsOf(found.nodes) /\ r.circular = found.circular
           \/ d.id \in path /\ r.circular # {}
    PROVE  Resolves(path, {d}, found, r)
<1>1. found.nodes \in Seq(Resolver!Node) /\ Len(found.nodes) \in Nat
  BY GraphsAre
<1>2. Begins(found.nodes, r.nodes) /\ \A i \in Len(found.nodes) + 1 .. Len(r.nodes) : FALSE
  BY <1>1 DEF Begins
<1>3. d.id \in path => Loops(path, r)
  BY DEF Loops, Leads
<1>4. r.circular # {} => found.circular # {} \/ Loops(path, r)
  BY <1>3
<1> QED
  BY <1>2, <1>4 DEF Resolves

\* A node that is added after those that it depends on.
LEMMA NodeAdded ==
    ASSUME NEW path, NEW d, NEW deps, NEW found \in Resolver!Graph, NEW start \in Resolver!Graph,
           start.nodes = found.nodes, start.refs = <<>>, start.circular = found.circular,
           start.error = found.error,
           NEW child \in Resolver!Graph, child.error = "none",
           Resolves(path \cup {d.id}, deps, start, child),
           d.id \notin path, d.id \notin Resolver!IdsOf(found.nodes),
           NEW node \in Resolver!Node, node.id = d.id, node.refs = child.refs,
           NEW r \in Resolver!Graph,
           r.nodes = Append(child.nodes, node), r.circular = child.circular,
           Targets(r.refs) = Targets(found.refs) \cup {d.id}
    PROVE  Resolves(path, {d}, found, r)
<1> DEFINE a == Len(found.nodes)
           b == Len(child.nodes)
           x == d.id
<1>1. /\ Begins(found.nodes, child.nodes) /\ found.error = "none"
      /\ found.circular # {} => child.circular # {}
      /\ child.circular # {} => found.circular # {} \/ Loops(path \cup {x}, child)
      /\ \A t \in Targets(child.refs) \ Targets(start.refs) :
            t \in Resolver!IdsOf(child.nodes) \/ (child.circular # {} /\ t \in path \cup {x})
      /\ \A i \in a + 1 .. b :
            /\ child.nodes[i].id \notin path \cup {x}
            /\ \A j \in 1 .. i - 1 : child.nodes[j].id # child.nodes[i].id
            /\ \E t \in Targets(child.refs) : Leads(RefPairs(child.nodes), t, child.nodes[i].id)
            /\ \A t \in Targets(child.nodes[i].refs) : Backs(path \cup {x}, child, i, t)
  BY DEF Resolves
<1>2. Targets(start.refs) = {}
  BY DEF Targets, Resolver!Range
<1>3. /\ found.nodes \in Seq(Resolver!Node) /\ child.nodes \in Seq(Resolver!Node)
      /\ r.nodes \in Seq(Resolver!Node) /\ a \in Nat /\ b \in Nat
      /\ Len(r.nodes) = b + 1 /\ r.nodes[b + 1] = node
      /\ \A i \in 1 .. b : r.nodes[i] = child.nodes[i]
  <2>1. found.nodes \in Seq(Resolver!Node) /\ child.nodes \in Seq(Resolver!Node)
    BY GraphsAre
  <2>2. /\ Append(child.nodes, node) \in Seq(Resolver!Node) /\ Len(Append(child.nodes, node)) = b + 1
        /\ Append(child.nodes, node)[b + 1] = node
        /\ \A i \in 1 .. b : Append(child.nodes, node)[i] = child.nodes[i]
    BY <2>1
  <2> QED
    BY <2>1, <2>2
<1>4. a <= b /\ \A i \in 1 .. a : found.nodes[i] = child.nodes[i]
  BY <1>1 DEF Begins
<1>5. DOMAIN r.nodes = 1 .. b + 1 /\ DOMAIN found.nodes = 1 .. a /\ DOMAIN child.nodes = 1 .. b
  BY <1>3
<1> HIDE DEF a, b, x
<1>6. Begins(child.nodes, r.nodes) /\ Begins(found.nodes, r.nodes)
  <2>1. \A i \in 1 .. a : i \in 1 .. b
    BY <1>3, <1>4
  <2>2. b <= b + 1 /\ a <= b + 1
    BY <1>3, <1>4
  <2> QED
    BY <1>3, <1>4, <2>1, <2>2 DEF Begins, a, b
<1>7. /\ Resolver!IdsOf(child.nodes) \subseteq Resolver!IdsOf(r.nodes)
      /\ RefPairs(child.nodes) \subseteq RefPairs(r.nodes)
  BY <1>3, <1>6, Grown
<1>8. b + 1 \in DOMAIN r.nodes /\ node \in Resolver!Range(r.nodes)
  <2>1. b + 1 \in DOMAIN r.nodes
    BY <1>3, <1>5
  <2> QED
    BY <1>3, <2>1 DEF Resolver!Range
<1>9. x \in Resolver!IdsOf(r.nodes) /\ \A u \in Targets(child.refs) : <<x, u>> \in RefPairs(r.nodes)
  <2>1. x = node.id
    BY DEF x
  <2>2. x \in Resolver!IdsOf(r.nodes)
    BY <1>8, <2>1 DEF Resolver!IdsOf
  <2>3. \A ref \in Resolver!Range(node.refs) : <<node.id, ref[1]>> \in RefPairs(r.nodes)
    BY <1>8 DEF RefPairs
  <2>4. \A u \in Targets(child.refs) : \E ref \in Resolver!Range(node.refs) : u = ref[1]
    BY DEF Targets
  <2> QED
    BY <2>1, <2>2, <2>3, <2>4
<1>10. \A u \in Targets(child.refs) : \A m : Leads(RefPairs(child.nodes), u, m) =>
          Resolver!Reach(RefPairs(r.nodes), x, m)
  <2> TAKE u \in Targets(child.refs)
  <2> TAKE m
  <2> HAVE Leads(RefPairs(child.nodes), u, m)
  <2>1. Leads(RefPairs(r.nodes), u, m)
    BY <1>7, LeadsMore
  <2> QED
    BY <1>9, <2>1, LeadsOn
<1>11. x \in Targets(r.refs)
  BY DEF x
<1>12. ASSUME NEW i \in a + 1 .. b
       PROVE  /\ r.nodes[i].id \notin path
              /\ \A j \in 1 .. i - 1 : r.nodes[j].id # r.nodes[i].id
              /\ \E t \in Targets(r.refs) : Leads(RefPairs(r.nodes), t, r.nodes[i].id)
              /\ \A t \in Targets(r.nodes[i].refs) : Backs(path, r, i, t)
  <2>1. i \in 1 .. b /\ \A j \in 1 .. i - 1 : j \in 1 .. b
    BY <1>3
  <2>2. child.nodes[i] = r.nodes[i] /\ \A j \in 1 .. i - 1 : child.nodes[j] = r.nodes[j]
    BY <1>3, <2>1
  <2>3. r.nodes[i].id \notin path /\ \A j \in 1 .. i - 1 : r.nodes[j].id # r.nodes[i].id
    BY <1>1, <2>2
  <2>4. Resolver!Reach(RefPairs(r.nodes), x, r.nodes[i].id)
    <3>1. PICK t \in Targets(child.refs) : Leads(RefPairs(child.nodes), t, r.nodes[i].id)
      BY <1>1, <2>2
    <3> QED
      BY <1>10, <3>1
  <2>5. \E t \in Targets(r.refs) : Leads(RefPairs(r.nodes), t, r.nodes[i].id)
    BY <1>11, <2>4 DEF Leads
  <2>6. ASSUME NEW u \in Targets(r.nodes[i].refs)
        PROVE  Backs(path, r, i, u)
    <3>1. Backs(path \cup {x}, child, i, u)
      BY <1>1, <2>2
    <3>2. CASE \E j \in 1 .. i - 1 : child.nodes[j].id = u
      BY <2>2, <3>2 DEF Backs
    <3>3. CASE child.circular # {} /\ u \in path
      BY <3>3 DEF Backs
    <3>4. CASE child.circular # {} /\ u = x
      BY <1>9, <2>4, <3>4 DEF Backs
    <3>5. CASE /\ child.circular # {} /\ u \in Resolver!IdsOf(child.nodes)
               /\ Resolver!Reach(RefPairs(child.nodes), u, child.nodes[i].id)
      <4>1. Resolver!Reach(RefPairs(r.nodes), u, r.nodes[i].id)
        BY <1>7, <2>2, <3>5, ReachMore
      <4> QED
        BY <1>7, <3>5, <4>1 DEF Backs
    <3> QED
      BY <3>1, <3>2, <3>3, <3>4, <3>5 DEF Backs
  <2> QED
    BY <2>3, <2>5, <2>6
<1>13. /\ r.nodes[b + 1].id = x /\ x \notin path
       /\ \A j \in 1 .. b : r.nodes[j].id # x
       /\ \E t \in Targets(r.refs) : Leads(RefPairs(r.nodes), t, x)
       /\ \A t \in Targets(node.refs) : Backs(path, r, b + 1, t)
  <2>1. r.nodes[b + 1].id = x /\ x \notin path
    BY <1>3 DEF x
  <2>2. ASSUME NEW j \in 1 .. b PROVE r.nodes[j].id # x
    <3>1. CASE j \in 1 .. a
      <4>1. r.nodes[j] = found.nodes[j] /\ j \in DOMAIN found.nodes
        BY <1>3, <1>4, <1>5, <3>1
      <4>2. found.nodes[j].id \in Resolver!IdsOf(found.nodes)
        BY <4>1 DEF Resolver!IdsOf, Resolver!Range
      <4> QED
        BY <4>1, <4>2 DEF x
    <3>2. CASE j \notin 1 .. a
      <4>1. j \in a + 1 .. b
        BY <1>3, <3>2
      <4> QED
        BY <1>1, <1>3, <4>1
    <3> QED
      BY <3>1, <3>2
  <2>3. \E t \in Targets(r.refs) : Leads(RefPairs(r.nodes), t, x)
    BY <1>11 DEF Leads
  <2>4. ASSUME NEW u \in Targets(node.refs)
        PROVE  Backs(path, r, b + 1, u)
    <3>1. u \in Resolver!IdsOf(child.nodes) \/ (child.circular # {} /\ u \in path \cup {x})
      BY <1>1, <1>2
    <3>2. CASE u \in Resolver!IdsOf(child.nodes)
      <4>1. PICK j \in 1 .. b : child.nodes[j].id = u
        BY <1>5, <3>2 DEF Resolver!IdsOf, Resolver!Range
      <4>2. j \in 1 .. (b + 1) - 1 /\ r.nodes[j].id = u
        BY <1>3, <4>1
      <4> QED
        BY <4>2 DEF Backs
    <3>3. CASE child.circular # {} /\ u \in path
      BY <3>3 DEF Backs
    <3>4. CASE child.circular # {} /\ u = x
      <4>1. Resolver!Reach(RefPairs(r.nodes), u, r.nodes[b + 1].id)
        BY <1>9, <2>1, <2>4, <3>4, ReachStep
      <4> QED
        BY <1>9, <3>4, <4>1 DEF Backs
    <3> QED
      BY <3>1, <3>2, <3>3, <3>4
  <2> QED
    BY <2>1, <2>2, <2>3, <2>4
<1>14. \A i \in a + 1 .. Len(r.nodes) :
          /\ r.nodes[i].id \notin path
          /\ \A j \in 1 .. i - 1 : r.nodes[j].id # r.nodes[i].id
          /\ \E t \in Targets(r.refs) : Leads(RefPairs(r.nodes), t, r.nodes[i].id)
          /\ \A t \in Targets(r.nodes[i].refs) : Backs(path, r, i, t)
  <2>1. \A i \in a + 1 .. Len(r.nodes) : i \in a + 1 .. b \/ (i = b + 1 /\ i - 1 = b)
    BY <1>3
  <2> QED
    BY <1>3, <1>12, <1>13, <2>1
<1>15. Loops(path \cup {x}, child) => Loops(path, r)
  <2>1. CASE \E n : Resolver!Reach(RefPairs(child.nodes), n, n)
    BY <1>7, <2>1, ReachMore DEF Loops
  <2>2. ASSUME NEW t \in Targets(child.refs), NEW q \in path \cup {x}, Leads(RefPairs(child.nodes), t, q)
        PROVE  Loops(path, r)
    <3>1. Resolver!Reach(RefPairs(r.nodes), x, q)
      BY <1>10, <2>2
    <3> QED
      BY <1>11, <3>1 DEF Loops, Leads
  <2> QED
    BY <2>1, <2>2 DEF Loops
<1>16. r.circular # {} => found.circular # {} \/ Loops(path, r)
  BY <1>1, <1>15
<1>17. \A t \in Targets(r.refs) \ Targets(found.refs) : t \in Resolver!IdsOf(r.nodes)
  BY <1>9 DEF x
<1>18. \A e \in {d} : e.optional \/ e.id \in Resolver!IdsOf(r.nodes) \cup path
  BY <1>9 DEF x
<1> QED
  BY <1>1, <1>6, <1>14, <1>16, <1>17, <1>18 DEF Resolves, a

\* The calls of a call, and the graphs that it goes on with.
Child(reg, c) == [path |-> Append(c.path, Head(c.todo).id), todo |-> Resolver!BestFor(reg, Head(c.todo)).deps,
                  found |-> [c.found EXCEPT !.refs = <<>>]]
Referring(found, id, v) == [found EXCEPT !.refs = Append(@, <<id, v>>)]
Closing(found, path, id) == [found EXCEPT !.circular = @ \cup {Resolver!CycleOf(path, id)}]
NodeFor(reg, d, child) == [id |-> d.id, version |-> Resolver!BestFor(reg, d).version,
                           refs |-> child.refs, optional |-> d.optional]
Adding(reg, d, found, child) ==
    Referring(Resolver!AddNode(child, found.refs, NodeFor(reg, d, child)), d.id,
              Resolver!BestFor(reg, d).version)

LEMMA ResolveNodeCases ==
    ASSUME NEW reg, NEW skip, NEW bound, NEW c, NEW f
    PROVE  LET d == Head(c.todo)
               v == Resolver!BestFor(reg, d).version
           IN  Resolver!ResolveNode(reg, skip, bound, c, f) =
                   IF c.todo = <<>> THEN c.found
                   ELSE IF d.optional /\ (skip \/ ~Resolver!Resolvable(reg, d)) THEN f[Rest(c, c.found)]
                   ELSE IF ~Resolver!Resolvable(reg, d) THEN [c.found EXCEPT !.error = "missing"]
                   ELSE IF d.id \in Resolver!Range(c.path)
                   THEN f[Rest(c, Referring(Closing(c.found, c.path, d.id), d.id, v))]
                   ELSE IF d.id \in Resolver!IdsOf(c.found.nodes)
                   THEN f[Rest(c, Referring(c.found, d.id, Resolver!VersionOf(c.found.nodes, d.id)))]
                   ELSE IF Len(c.path) >= bound THEN [c.found EXCEPT !.error = "depth"]
                   ELSE IF f[Child(reg, c)].error # "none" THEN f[Child(reg, c)]
                   ELSE f[Rest(c, Adding(reg, d, c.found, f[Child(reg, c)]))]
  BY DEF Resolver!ResolveNode, Rest, Referring, Closing, Child, Adding, NodeFor

LEMMA CycleIsThere ==
    ASSUME NEW path \in Seq(Id), NEW id \in Resolver!Range(path)
    PROVE  Resolver!CycleOf(path, id) \in Seq(Id)
<1> DEFINE k == CHOOSE i \in DOMAIN path : path[i] = id
<1>1. k \in DOMAIN path /\ id \in Id
  BY DEF Resolver!Range
<1> HIDE DEF k
<1>2. /\ k \in Int /\ Len(path) \in Int
      /\ \A i \in k .. Len(path) : path[i] \in Id
  BY <1>1
<1>3. SubSeq(path, k, Len(path)) \in Seq(Id)
  BY <1>2, SubSeqProperties
<1>4. Append(SubSeq(path, k, Len(path)), id) \in Seq(Id)
  BY <1>1, <1>3
<1> QED
  BY <1>4 DEF Resolver!CycleOf, k

LEMMA VersionIsThere ==
    ASSUME NEW nodes \in Seq(Resolver!Node), NEW id \in Resolver!IdsOf(nodes)
    PROVE  Resolver!VersionOf(nodes, id) \in Resolver!Version
<1>1. \E n \in Resolver!Range(nodes) : n.id = id
  BY DEF Resolver!IdsOf
<1>2. \A n \in Resolver!Range(nodes) : n \in Resolver!Node
  BY DEF Resolver!Range
<1>3. \A n \in Resolver!Node : n.version \in Resolver!Version
  BY DEF Resolver!Node
<1> QED
  BY <1>1, <1>2, <1>3 DEF Resolver!VersionOf

LEMMA ReferringIs ==
    ASSUME NEW found \in Resolver!Graph, NEW id \in Id, NEW v \in Resolver!Version
    PROVE  /\ Referring(found, id, v) \in Resolver!Graph
           /\ Referring(found, id, v).nodes = found.nodes
           /\ Referring(found, id, v).circular = found.circular
           /\ Referring(found, id, v).error = found.error
           /\ Targets(Referring(found, id, v).refs) = Targets(found.refs) \cup {id}
<1> DEFINE refs == Append(found.refs, <<id, v>>)
<1>1. /\ found.nodes \in Seq(Resolver!Node) /\ found.refs \in Seq(Resolver!Reference)
      /\ found.circular \in SUBSET Seq(Id) /\ found.error \in {"none", "missing", "depth"}
      /\ found = [nodes |-> found.nodes, refs |-> found.refs, circular |-> found.circular,
                  error |-> found.error]
  BY GraphsAre
<1>2. refs \in Seq(Resolver!Reference) /\ Targets(refs) = Targets(found.refs) \cup {id}
  BY <1>1, OneMoreTarget
<1>3. Referring(found, id, v) \in Resolver!Graph
  BY <1>1, <1>2 DEF Referring, Resolver!Graph
<1>4. /\ Referring(found, id, v).nodes = found.nodes /\ Referring(found, id, v).refs = refs
      /\ Referring(found, id, v).circular = found.circular
      /\ Referring(found, id, v).error = found.error
  BY <1>1 DEF Referring
<1> HIDE DEF refs
<1> QED
  BY <1>2, <1>3, <1>4

LEMMA ClosingIs ==
    ASSUME NEW found \in Resolver!Graph, NEW path \in Seq(Id), NEW id \in Resolver!Range(path)
    PROVE  /\ Closing(found, path, id) \in Resolver!Graph
           /\ Closing(found, path, id).nodes = found.nodes
           /\ Closing(found, path, id).refs = found.refs
           /\ Closing(found, path, id).circular # {}
           /\ Closing(found, path, id).error = found.error
<1> DEFINE circular == found.circular \cup {Resolver!CycleOf(path, id)}
<1>1. /\ found.nodes \in Seq(Resolver!Node) /\ found.refs \in Seq(Resolver!Reference)
      /\ found.circular \in SUBSET Seq(Id) /\ found.error \in {"none", "missing", "depth"}
      /\ found = [nodes |-> found.nodes, refs |-> found.refs, circular |-> found.circular,
                  error |-> found.error]
  BY GraphsAre
<1>2. circular \in SUBSET Seq(Id) /\ circular # {}
  BY <1>1, CycleIsThere
<1>3. Closing(found, path, id) \in Resolver!Graph
  BY <1>1, <1>2 DEF Closing, Resolver!Graph
<1>4. /\ Closing(found, path, id).nodes = found.nodes /\ Closing(found, path, id).refs = found.refs
      /\ Closing(found, path, id).circular = circular
      /\ Closing(found, path, id).error = found.error
  BY <1>1 DEF Closing
<1> HIDE DEF circular
<1> QED
  BY <1>2, <1>3, <1>4

LEMMA FailingIs ==
    ASSUME NEW found \in Resolver!Graph, NEW error \in {"missing", "depth"}
    PROVE  /\ [found EXCEPT !.error = error] \in Resolver!Graph
           /\ [found EXCEPT !.error = error].error = error
  BY GraphsAre DEF Resolver!Graph

LEMMA StartIs ==
    ASSUME NEW found \in Resolver!Graph
    PROVE  /\ [found EXCEPT !.refs = <<>>] \in Resolver!Graph
           /\ [found EXCEPT !.refs = <<>>].nodes = found.nodes
           /\ [found EXCEPT !.refs = <<>>].refs = <<>>
           /\ [found EXCEPT !.refs = <<>>].circular = found.circular
           /\ [found EXCEPT !.refs = <<>>].error = found.error
<1>1. /\ found.nodes \in Seq(Resolver!Node) /\ found.refs \in Seq(Resolver!Reference)
      /\ found.circular \in SUBSET Seq(Id) /\ found.error \in {"none", "missing", "depth"}
      /\ found = [nodes |-> found.nodes, refs |-> found.refs, circular |-> found.circular,
                  error |-> found.error]
  BY GraphsAre
<1>2. <<>> \in Seq(Resolver!Reference)
  OBVIOUS
<1>3. [found EXCEPT !.refs = <<>>] \in Resolver!Graph
  BY <1>1, <1>2 DEF Resolver!Graph
<1>4. /\ [found EXCEPT !.refs = <<>>].nodes = found.nodes /\ [found EXCEPT !.refs = <<>>].refs = <<>>
      /\ [found EXCEPT !.refs = <<>>].circular = found.circular
      /\ [found EXCEPT !.refs = <<>>].error = found.error
  BY <1>1
<1> QED
  BY <1>3, <1>4

Added(d, found, child, node, r) ==
    /\ node \in Resolver!Node /\ node.id = d.id /\ node.refs = child.refs
    /\ r \in Resolver!Graph /\ r.nodes = Append(child.nodes, node) /\ r.circular = child.circular
    /\ Targets(r.refs) = Targets(found.refs) \cup {d.id}

LEMMA AddingIs ==
    ASSUME NEW reg \in Seq(Resolver!Resource), NEW d \in Resolver!Dependency,
           Resolver!Resolvable(reg, d), NEW found \in Resolver!Graph, NEW child \in Resolver!Graph
    PROVE  Added(d, found, child, NodeFor(reg, d, child), Adding(reg, d, found, child))
<1> DEFINE node == NodeFor(reg, d, child)
           grown == Resolver!AddNode(child, found.refs, node)
           v == Resolver!BestFor(reg, d).version
<1>1. d.id \in Id /\ d.optional \in BOOLEAN
  BY DEF Resolver!Dependency
<1>2. v \in Resolver!Version
  BY BestIsThere DEF Resolver!Resource
<1>3. /\ child.nodes \in Seq(Resolver!Node) /\ child.refs \in Seq(Resolver!Reference)
      /\ child.circular \in SUBSET Seq(Id) /\ child.error \in {"none", "missing", "depth"}
      /\ child = [nodes |-> child.nodes, refs |-> child.refs, circular |-> child.circular,
                  error |-> child.error]
      /\ found.refs \in Seq(Resolver!Reference)
  BY GraphsAre
<1>4. node \in Resolver!Node /\ node.id = d.id /\ node.refs = child.refs
  <2> HIDE DEF v
  <2>1. node = [id |-> d.id, version |-> v, refs |-> child.refs, optional |-> d.optional]
    BY DEF NodeFor, v
  <2> HIDE DEF node
  <2> QED
    BY <1>1, <1>2, <1>3, <2>1 DEF Resolver!Node
<1> HIDE DEF node
<1>5. /\ grown.nodes = Append(child.nodes, node) /\ grown.refs = found.refs
      /\ grown.circular = child.circular /\ grown.error = child.error
  BY <1>3 DEF Resolver!AddNode
<1>6. Append(child.nodes, node) \in Seq(Resolver!Node)
  BY <1>3, <1>4
<1>7. grown \in Resolver!Graph
  BY <1>3, <1>6 DEF Resolver!Graph, Resolver!AddNode
<1> HIDE DEF v, grown
<1>8. /\ Referring(grown, d.id, v) \in Resolver!Graph
      /\ Referring(grown, d.id, v).nodes = grown.nodes
      /\ Referring(grown, d.id, v).circular = grown.circular
      /\ Targets(Referring(grown, d.id, v).refs) = Targets(grown.refs) \cup {d.id}
  BY <1>1, <1>2, <1>7, ReferringIs
<1>9. Adding(reg, d, found, child) = Referring(grown, d.id, v)
  BY DEF Adding, grown, node, v
<1> QED
  BY <1>4, <1>5, <1>8, <1>9 DEF node, Added

ResolveRoom(bound) == [c \in Resolver!Call |-> LeftBelow(Len(c.path), bound)]
ResolveLeft == [c \in Resolver!Call |-> Len(c.todo)]

LEMMA CallIs ==
    ASSUME NEW c \in Resolver!Call
    PROVE  /\ c.path \in Seq(Id) /\ c.todo \in Seq(Resolver!Dependency) /\ c.found \in Resolver!Graph
           /\ Len(c.path) \in Nat /\ Len(c.todo) \in Nat
           /\ c.todo # <<>> => Head(c.todo) \in Resolver!Dependency /\ Head(c.todo).id \in Id
<1>1. c.path \in Seq(Id) /\ c.todo \in Seq(Resolver!Dependency) /\ c.found \in Resolver!Graph
  BY DEF Resolver!Call
<1>2. Len(c.path) \in Nat /\ Len(c.todo) \in Nat
  BY <1>1
<1>3. c.todo # <<>> => Head(c.todo) \in Resolver!Dependency
  BY <1>1
<1>4. \A d \in Resolver!Dependency : d.id \in Id
  BY DEF Resolver!Dependency
<1> QED
  BY <1>1, <1>2, <1>3, <1>4

LEMMA ResolveMeasures ==
    ASSUME NEW bound \in Nat
    PROVE  Measures(Resolver!Call, ResolveRoom(bound), ResolveLeft)
<1>1. ASSUME NEW c \in Resolver!Call
      PROVE  LeftBelow(Len(c.path), bound) \in Nat /\ Len(c.todo) \in Nat
  BY CallIs DEF LeftBelow
<1> QED
  BY <1>1 DEF Measures, ResolveRoom, ResolveLeft

LEMMA ResolveRestIsBelow ==
    ASSUME NEW bound \in Nat, NEW c \in Resolver!Call, c.todo # <<>>, NEW found \in Resolver!Graph
    PROVE  /\ Rest(c, found) \in Resolver!Call
           /\ Below(ResolveRoom(bound), ResolveLeft, Rest(c, found), c)
<1>1. c.path \in Seq(Id) /\ c.todo \in Seq(Resolver!Dependency)
  BY CallIs
<1>2. /\ Tail(c.todo) \in Seq(Resolver!Dependency)
      /\ Len(Tail(c.todo)) \in Nat /\ Len(c.todo) \in Nat /\ Len(Tail(c.todo)) = Len(c.todo) - 1
  BY <1>1, HeadAndTail
<1>3. Rest(c, found) \in Resolver!Call
  BY <1>1, <1>2 DEF Rest, Resolver!Call
<1>4. /\ ResolveRoom(bound)[Rest(c, found)] = ResolveRoom(bound)[c]
      /\ ResolveLeft[Rest(c, found)] = Len(Tail(c.todo)) /\ ResolveLeft[c] = Len(c.todo)
  BY <1>3 DEF ResolveRoom, ResolveLeft, Rest
<1> QED
  BY <1>2, <1>3, <1>4 DEF Below

LEMMA ChildIsBelow ==
    ASSUME NEW reg \in Seq(Resolver!Resource), NEW bound \in Nat,
           NEW c \in Resolver!Call, c.todo # <<>>, ~(Len(c.path) >= bound),
           Resolver!Resolvable(reg, Head(c.todo))
    PROVE  /\ Child(reg, c) \in Resolver!Call
           /\ Below(ResolveRoom(bound), ResolveLeft, Child(reg, c), c)
<1> DEFINE d == Head(c.todo)
           deps == Resolver!BestFor(reg, d).deps
           start == [c.found EXCEPT !.refs = <<>>]
<1>1. /\ c.path \in Seq(Id) /\ c.found \in Resolver!Graph /\ Len(c.path) \in Nat
      /\ d \in Resolver!Dependency /\ d.id \in Id
  BY CallIs
<1>2. deps \in Seq(Resolver!Dependency)
  BY <1>1, BestIsThere DEF Resolver!Resource
<1>3. start \in Resolver!Graph
  BY <1>1, StartIs
<1>4. Append(c.path, d.id) \in Seq(Id) /\ Len(Append(c.path, d.id)) = Len(c.path) + 1
  BY <1>1
<1>5. Child(reg, c) = [path |-> Append(c.path, d.id), todo |-> deps, found |-> start]
  BY DEF Child
<1> HIDE DEF d, deps, start
<1>6. Child(reg, c) \in Resolver!Call
  BY <1>2, <1>3, <1>4, <1>5 DEF Resolver!Call
<1>7. /\ ResolveRoom(bound)[Child(reg, c)] = LeftBelow(Len(c.path) + 1, bound)
      /\ ResolveRoom(bound)[c] = LeftBelow(Len(c.path), bound)
  BY <1>4, <1>5, <1>6 DEF ResolveRoom
<1>8. LeftBelow(Len(c.path) + 1, bound) < LeftBelow(Len(c.path), bound)
  BY <1>1, LeftBelowLess
<1> QED
  BY <1>6, <1>7, <1>8 DEF Below

\* A call resolves its dependencies when those below it do.
LEMMA ResolveNodeResolves ==
    ASSUME NEW reg \in Seq(Resolver!Resource), NEW skip, NEW bound \in Nat, NEW c \in Resolver!Call, NEW f,
           \A y \in Resolver!Call : Below(ResolveRoom(bound), ResolveLeft, y, c) =>
               Resolves(Resolver!Range(y.path), Resolver!Range(y.todo), y.found, f[y])
    PROVE  Resolves(Resolver!Range(c.path), Resolver!Range(c.todo), c.found,
                    Resolver!ResolveNode(reg, skip, bound, c, f))
<1> DEFINE d == Head(c.todo)
           v == Resolver!BestFor(reg, d).version
           P == Resolver!Range(c.path)
           r == Resolver!ResolveNode(reg, skip, bound, c, f)
<1> SUFFICES Resolves(P, Resolver!Range(c.todo), c.found, r)
  OBVIOUS
<1>1. r = IF c.todo = <<>> THEN c.found
          ELSE IF d.optional /\ (skip \/ ~Resolver!Resolvable(reg, d)) THEN f[Rest(c, c.found)]
          ELSE IF ~Resolver!Resolvable(reg, d) THEN [c.found EXCEPT !.error = "missing"]
          ELSE IF d.id \in P
          THEN f[Rest(c, Referring(Closing(c.found, c.path, d.id), d.id, v))]
          ELSE IF d.id \in Resolver!IdsOf(c.found.nodes)
          THEN f[Rest(c, Referring(c.found, d.id, Resolver!VersionOf(c.found.nodes, d.id)))]
          ELSE IF Len(c.path) >= bound THEN [c.found EXCEPT !.error = "depth"]
          ELSE IF f[Child(reg, c)].error # "none" THEN f[Child(reg, c)]
          ELSE f[Rest(c, Adding(reg, d, c.found, f[Child(reg, c)]))]
  BY ResolveNodeCases
<1> HIDE DEF r
<1>2. /\ c.path \in Seq(Id) /\ c.todo \in Seq(Resolver!Dependency) /\ c.found \in Resolver!Graph
      /\ c.todo # <<>> => d \in Resolver!Dependency /\ d.id \in Id
  BY CallIs
<1>3. c.todo # <<>> /\ Resolver!Resolvable(reg, d) => v \in Resolver!Version
  BY <1>2, BestIsThere DEF Resolver!Resource
<1>4. c.todo # <<>> => Resolver!Range(c.todo) = {d} \cup Resolver!Range(Tail(c.todo))
  BY <1>2, HeadAndTail
<1> HIDE DEF d, v
<1>5. ASSUME c.todo # <<>>, NEW more \in Resolver!Graph, Resolves(P, {d}, c.found, more),
             r = f[Rest(c, more)]
      PROVE  Resolves(P, Resolver!Range(c.todo), c.found, r)
  <2>1. Rest(c, more) \in Resolver!Call
        /\ Below(ResolveRoom(bound), ResolveLeft, Rest(c, more), c)
    BY <1>5, ResolveRestIsBelow
  <2>2. Rest(c, more).path = c.path /\ Rest(c, more).todo = Tail(c.todo) /\ Rest(c, more).found = more
    BY DEF Rest
  <2>3. Resolves(P, Resolver!Range(Tail(c.todo)), more, r)
    BY <1>5, <2>1, <2>2
  <2>4. Resolves(P, {d} \cup Resolver!Range(Tail(c.todo)), c.found, r)
    BY <1>2, <1>5, <2>3, Joined
  <2> QED
    BY <1>4, <1>5, <2>4
<1>6. CASE c.todo = <<>>
  <2>1. r = c.found /\ Resolver!Range(c.todo) = {}
    BY <1>1, <1>6 DEF Resolver!Range
  <2>2. c.found.nodes \in Seq(Resolver!Node) /\ Len(c.found.nodes) \in Nat
    BY <1>2, GraphsAre
  <2>3. Begins(c.found.nodes, c.found.nodes)
        /\ \A i \in Len(c.found.nodes) + 1 .. Len(c.found.nodes) : FALSE
    BY <2>2 DEF Begins
  <2> QED
    BY <1>2, <2>1, <2>3 DEF Resolves
<1>7. CASE r \in Resolver!Graph /\ r.error # "none"
  BY <1>7 DEF Resolves
<1>8. CASE c.todo # <<>> /\ d.optional /\ (skip \/ ~Resolver!Resolvable(reg, d))
  <2>1. r = f[Rest(c, c.found)]
    BY <1>1, <1>8
  <2>2. Resolves(P, {d}, c.found, c.found)
    BY <1>2, <1>8, PassedOver
  <2> QED
    BY <1>2, <1>5, <1>8, <2>1, <2>2
<1> DEFINE due == c.todo # <<>> /\ ~(d.optional /\ (skip \/ ~Resolver!Resolvable(reg, d)))
<1>9. CASE due /\ ~Resolver!Resolvable(reg, d)
  <2>1. r = [c.found EXCEPT !.error = "missing"]
    BY <1>1, <1>9
  <2> QED
    BY <1>2, <1>7, <2>1, FailingIs
<1>10. CASE due /\ Resolver!Resolvable(reg, d) /\ d.id \in P
  <2> DEFINE closed == Closing(c.found, c.path, d.id)
             more == Referring(closed, d.id, v)
  <2>1. /\ closed \in Resolver!Graph /\ closed.nodes = c.found.nodes /\ closed.refs = c.found.refs
        /\ closed.circular # {} /\ closed.error = c.found.error
    BY <1>2, <1>10, ClosingIs
  <2>2. r = f[Rest(c, more)]
    BY <1>1, <1>10
  <2> HIDE DEF closed
  <2>3. /\ more \in Resolver!Graph /\ more.nodes = closed.nodes /\ more.circular = closed.circular
        /\ more.error = closed.error /\ Targets(more.refs) = Targets(closed.refs) \cup {d.id}
    BY <1>2, <1>3, <1>10, <2>1, ReferringIs
  <2> HIDE DEF more
  <2>4. /\ more.nodes = c.found.nodes /\ more.error = c.found.error /\ more.circular # {}
        /\ Targets(more.refs) = Targets(c.found.refs) \cup {d.id}
    BY <2>1, <2>3
  <2>5. Resolves(P, {d}, c.found, more)
    BY <1>2, <1>10, <2>3, <2>4, ReferredTo
  <2> QED
    BY <1>5, <1>10, <2>2, <2>3, <2>5
<1>11. CASE due /\ Resolver!Resolvable(reg, d) /\ d.id \notin P /\ d.id \in Resolver!IdsOf(c.found.nodes)
  <2> DEFINE w == Resolver!VersionOf(c.found.nodes, d.id)
             more == Referring(c.found, d.id, w)
  <2>1. r = f[Rest(c, more)]
    BY <1>1, <1>11
  <2>2. w \in Resolver!Version
    BY <1>2, <1>11, GraphsAre, VersionIsThere
  <2> HIDE DEF w
  <2>3. /\ more \in Resolver!Graph /\ more.nodes = c.found.nodes /\ more.circular = c.found.circular
        /\ more.error = c.found.error /\ Targets(more.refs) = Targets(c.found.refs) \cup {d.id}
    BY <1>2, <1>11, <2>2, ReferringIs
  <2> HIDE DEF more
  <2>4. Resolves(P, {d}, c.found, more)
    BY <1>2, <1>11, <2>3, ReferredTo
  <2> QED
    BY <1>5, <1>11, <2>1, <2>3, <2>4
<1> DEFINE new == due /\ Resolver!Resolvable(reg, d) /\ d.id \notin P
                  /\ d.id \notin Resolver!IdsOf(c.found.nodes)
<1>12. CASE new /\ Len(c.path) >= bound
  <2>1. r = [c.found EXCEPT !.error = "depth"]
    BY <1>1, <1>12
  <2> QED
    BY <1>2, <1>7, <2>1, FailingIs
<1>13. CASE new /\ ~(Len(c.path) >= bound)
  <2> DEFINE child == f[Child(reg, c)]
             start == [c.found EXCEPT !.refs = <<>>]
             deps == Resolver!BestFor(reg, d).deps
             more == Adding(reg, d, c.found, child)
             node == NodeFor(reg, d, child)
  <2>1. Child(reg, c) \in Resolver!Call /\ Below(ResolveRoom(bound), ResolveLeft, Child(reg, c), c)
    BY <1>2, <1>13, ChildIsBelow DEF d
  <2>2. /\ Child(reg, c).path = Append(c.path, d.id) /\ Child(reg, c).todo = deps
        /\ Child(reg, c).found = start
    BY DEF Child, d
  <2>3. Resolver!Range(Append(c.path, d.id)) = P \cup {d.id}
    BY <1>2, <1>13, RangeOfAppend
  <2>4. Resolves(P \cup {d.id}, Resolver!Range(deps), start, child)
    BY <2>1, <2>2, <2>3
  <2>5. child \in Resolver!Graph
    BY <2>4 DEF Resolves
  <2>6. IF child.error # "none" THEN r = child ELSE r = f[Rest(c, more)]
    BY <1>1, <1>13
  <2>7. /\ start \in Resolver!Graph /\ start.nodes = c.found.nodes /\ start.refs = <<>>
        /\ start.circular = c.found.circular /\ start.error = c.found.error
    BY <1>2, StartIs
  <2> HIDE DEF child, start, deps
  <2>8. CASE child.error # "none"
    BY <1>7, <2>5, <2>6, <2>8
  <2>9. CASE child.error = "none"
    <3>0. d \in Resolver!Dependency /\ Resolver!Resolvable(reg, d) /\ c.found \in Resolver!Graph
      BY <1>2, <1>13
    <3>1. Added(d, c.found, child, node, more)
      BY <2>5, <3>0, AddingIs
    <3>2. r = f[Rest(c, more)]
      BY <2>6, <2>9
    <3> HIDE DEF more, node
    <3>3. Resolves(P, {d}, c.found, more)
      BY <1>2, <1>13, <2>4, <2>5, <2>7, <2>9, <3>1, NodeAdded DEF Added
    <3>4. more \in Resolver!Graph
      BY <3>1 DEF Added
    <3> QED
      BY <1>5, <1>13, <3>2, <3>3, <3>4
  <2> QED
    BY <2>8, <2>9
<1> QED
  BY <1>6, <1>8, <1>9, <1>10, <1>11, <1>12, <1>13

LEMMA ResolveNodeIsLocal ==
    ASSUME NEW reg \in Seq(Resolver!Resource), NEW skip, NEW bound \in Nat, NEW c \in Resolver!Call,
           NEW f \in [Resolver!Call -> Resolver!Graph], NEW g \in [Resolver!Call -> Resolver!Graph],
           \A y \in Resolver!Call : Below(ResolveRoom(bound), ResolveLeft, y, c) => f[y] = g[y]
    PROVE  /\ Resolver!ResolveNode(reg, skip, bound, c, f) = Resolver!ResolveNode(reg, skip, bound, c, g)
           /\ Resolver!ResolveNode(reg, skip, bound, c, f) \in Resolver!Graph
<1> DEFINE d == Head(c.todo)
           v == Resolver!BestFor(reg, d).version
           closed == Referring(Closing(c.found, c.path, d.id), d.id, v)
           again == Referring(c.found, d.id, Resolver!VersionOf(c.found.nodes, d.id))
           missing == [c.found EXCEPT !.error = "missing"]
           deep == [c.found EXCEPT !.error = "depth"]
           more(child) == Adding(reg, d, c.found, child)
           can == Resolver!Resolvable(reg, d)
           on == d.id \in Resolver!Range(c.path)
           there == d.id \in Resolver!IdsOf(c.found.nodes)
           far == Len(c.path) >= bound
           over == d.optional /\ (skip \/ ~can)
           child(h) == h[Child(reg, c)]
           rest(h, found) == h[Rest(c, found)]
           due == c.todo # <<>> /\ can
<1>1. \A h : Resolver!ResolveNode(reg, skip, bound, c, h) =
          IF c.todo = <<>> THEN c.found
          ELSE IF over THEN rest(h, c.found)
          ELSE IF ~can THEN missing
          ELSE IF on THEN rest(h, closed)
          ELSE IF there THEN rest(h, again)
          ELSE IF far THEN deep
          ELSE IF child(h).error # "none" THEN child(h)
          ELSE rest(h, more(child(h)))
  BY ResolveNodeCases
<1>2. /\ c.path \in Seq(Id) /\ c.todo \in Seq(Resolver!Dependency) /\ c.found \in Resolver!Graph
      /\ c.todo # <<>> => d \in Resolver!Dependency /\ d.id \in Id
  BY CallIs
<1>3. due => v \in Resolver!Version
  BY <1>2, BestIsThere DEF Resolver!Resource
<1>4. missing \in Resolver!Graph /\ deep \in Resolver!Graph
  BY <1>2, FailingIs
<1> HIDE DEF d, v
<1>5. due /\ on => closed \in Resolver!Graph
  <2> SUFFICES ASSUME due, on PROVE closed \in Resolver!Graph
    OBVIOUS
  <2>1. Closing(c.found, c.path, d.id) \in Resolver!Graph
    BY <1>2, ClosingIs
  <2> QED
    BY <1>2, <1>3, <2>1, ReferringIs
<1>6. due /\ there => again \in Resolver!Graph
  <2> SUFFICES ASSUME due, there PROVE again \in Resolver!Graph
    OBVIOUS
  <2>1. Resolver!VersionOf(c.found.nodes, d.id) \in Resolver!Version
    BY <1>2, GraphsAre, VersionIsThere
  <2> QED
    BY <1>2, <2>1, ReferringIs
<1>7. ASSUME due, NEW k \in Resolver!Graph PROVE more(k) \in Resolver!Graph
  <2>1. d \in Resolver!Dependency
    BY <1>2, <1>7
  <2>2. Added(d, c.found, k, NodeFor(reg, d, k), more(k))
    BY <1>2, <1>7, <2>1, AddingIs
  <2> QED
    BY <2>2 DEF Added
<1>8. ASSUME c.todo # <<>>, NEW found \in Resolver!Graph
      PROVE  rest(f, found) = rest(g, found) /\ rest(f, found) \in Resolver!Graph
  BY <1>8, ResolveRestIsBelow
<1>9. due /\ ~far => child(f) = child(g) /\ child(f) \in Resolver!Graph
  <2> SUFFICES ASSUME due, ~far PROVE child(f) = child(g) /\ child(f) \in Resolver!Graph
    OBVIOUS
  <2>1. Child(reg, c) \in Resolver!Call /\ Below(ResolveRoom(bound), ResolveLeft, Child(reg, c), c)
    BY ChildIsBelow DEF d
  <2> QED
    BY <2>1
<1> HIDE DEF closed, again, missing, deep, more, can, on, there, far, over, child, rest
<1>10. CASE c.todo = <<>>
  BY <1>1, <1>2, <1>10
<1>11. CASE c.todo # <<>> /\ (over \/ ~can)
  BY <1>1, <1>2, <1>4, <1>8, <1>11
<1>12. CASE c.todo # <<>> /\ ~over /\ can /\ (on \/ there \/ far)
  BY <1>1, <1>2, <1>4, <1>5, <1>6, <1>8, <1>12
<1>13. CASE c.todo # <<>> /\ ~over /\ can /\ ~on /\ ~there /\ ~far
  <2>1. child(f) = child(g) /\ child(f) \in Resolver!Graph
    BY <1>9, <1>13
  <2>2. more(child(f)) \in Resolver!Graph
    BY <1>7, <1>13, <2>1
  <2> QED
    BY <1>1, <1>8, <1>13, <2>1, <2>2
<1> QED
  BY <1>10, <1>11, <1>12, <1>13

\* The graph of a root resolves a dependency on it from nothing.
LEMMA ResolveResolves ==
    ASSUME NEW reg \in Seq(Resolver!Resource), NEW root \in Id, NEW skip, NEW bound \in Nat
    PROVE  Resolves({}, {Resolver!RootDep(root)}, Resolver!Nothing, Resolver!Resolve(reg, root, skip, bound))
<1> DEFINE D == Resolver!Call
           G == Resolver!Graph
           Step == [p \in D \X [D -> G] |-> Resolver!ResolveNode(reg, skip, bound, p[1], p[2])]
           Solves(f) == f = [c \in D |-> Resolver!ResolveNode(reg, skip, bound, c, f)]
           resolve == CHOOSE f : Solves(f)
           first == [path |-> <<>>, todo |-> <<Resolver!RootDep(root)>>, found |-> Resolver!Nothing]
<1>1. Resolver!Nothing \in G /\ first \in D
  <2>1. Resolver!RootDep(root) \in Resolver!Dependency
    BY DEF Resolver!RootDep, Resolver!Dependency, Resolver!VersionRange, Resolver!AnyVersion,
           Resolver!RangeOf, Resolver!V, Resolver!Operator, Resolver!Version
  <2>2. Resolver!Nothing \in G
    BY DEF Resolver!Nothing, Resolver!Graph
  <2> QED
    BY <2>1, <2>2 DEF Resolver!Call
<1>2. \A c \in D, f \in [D -> G] : Step[<<c, f>>] = Resolver!ResolveNode(reg, skip, bound, c, f)
  OBVIOUS
<1>3. Step \in [D \X [D -> G] -> G]
  <2>1. \A c \in D, f \in [D -> G] : Resolver!ResolveNode(reg, skip, bound, c, f) \in G
    BY ResolveNodeIsLocal
  <2> QED
    BY <2>1
<1>4. \A c \in D, f \in [D -> G], g \in [D -> G] :
        (\A y \in D : Below(ResolveRoom(bound), ResolveLeft, y, c) => f[y] = g[y])
          => Step[<<c, f>>] = Step[<<c, g>>]
  BY <1>2, ResolveNodeIsLocal
<1>5. Recurs(D, G, ResolveRoom(bound), ResolveLeft, Step)
  <2> HIDE DEF Step
  <2> QED
    BY <1>3, <1>4, ResolveMeasures DEF Recurs
<1>6. \E f : Solves(f)
  <2>1. G # {}
    BY <1>1
  <2>2. PICK f \in [D -> G] : Follows(Step, f, D)
    <3> HIDE DEF Step
    <3> QED
      BY <1>5, <2>1, Recursion
  <2>3. \A c \in D : f[c] = Resolver!ResolveNode(reg, skip, bound, c, f)
    BY <1>2, <2>2 DEF Follows
  <2> QED
    BY <2>3
<1>7. Solves(resolve)
  <2> HIDE DEF Solves
  <2> QED
    BY <1>6
<1>8. Resolver!Resolve(reg, root, skip, bound) = resolve[first]
  BY DEF Resolver!Resolve
<1> HIDE DEF resolve
<1>9. \A c \in D : resolve[c] = Resolver!ResolveNode(reg, skip, bound, c, resolve)
  BY <1>7
<1> DEFINE good(c) == Resolves(Resolver!Range(c.path), Resolver!Range(c.todo), c.found, resolve[c])
<1>10. \A c \in D : good(c)
  <2> DEFINE Bad == {c \in D : ~good(c)}
  <2>1. SUFFICES ASSUME Bad # {} PROVE FALSE
    OBVIOUS
  <2>2. PICK c \in Bad : \A y \in D : Below(ResolveRoom(bound), ResolveLeft, y, c) => y \notin Bad
    <3>1. Bad \in SUBSET D
      OBVIOUS
    <3> HIDE DEF Bad
    <3> QED
      BY <2>1, <3>1, ResolveMeasures, LeastAmong
  <2>3. \A y \in D : Below(ResolveRoom(bound), ResolveLeft, y, c) =>
            Resolves(Resolver!Range(y.path), Resolver!Range(y.todo), y.found, resolve[y])
    BY <2>2
  <2>4. Resolves(Resolver!Range(c.path), Resolver!Range(c.todo), c.found,
                 Resolver!ResolveNode(reg, skip, bound, c, resolve))
    BY <2>3, ResolveNodeResolves
  <2> QED
    BY <1>9, <2>4
<1>11. good(first)
  BY <1>1, <1>10
<1>12. /\ Resolver!Range(<<Resolver!RootDep(root)>>) = {Resolver!RootDep(root)}
       /\ Resolver!Range(<<>>) = {}
  <2>1. \A x : Resolver!Range(<<x>>) = {x}
    BY DEF Resolver!Range
  <2>2. Resolver!Range(<<>>) = {}
    BY DEF Resolver!Range
  <2> QED
    BY <2>1, <2>2
<1>13. Resolves({}, {Resolver!RootDep(root)}, Resolver!Nothing, resolve[first])
  BY <1>11, <1>12
<1> QED
  BY <1>8, <1>13

\* What a resolved graph has to be (ResolutionIsSound).
IsSoundGraph(root, r) ==
    LET nodes == r.nodes
        ids == Resolver!IdsOf(nodes)
        pairs == RefPairs(nodes)
    IN  /\ Resolver!WellOrdered([i \in DOMAIN nodes |-> nodes[i].id], ids, pairs)
        /\ \A p \in pairs : p[2] \in ids
        /\ root \in ids /\ \A n \in ids : n = root \/ Resolver!Reach(pairs, root, n)
        /\ (r.circular # {}) = \E n \in ids : Resolver!Reach(pairs, n, n)

\* The ids of nodes, each once, and what each refers to.
LEMMA NodesInOrder ==
    ASSUME NEW nodes \in Seq(Resolver!Node),
           \A i \in 1 .. Len(nodes) : \A j \in 1 .. i - 1 : nodes[j].id # nodes[i].id
    PROVE  LET s == [i \in DOMAIN nodes |-> nodes[i].id]
           IN  /\ s \in Seq(Id) /\ DOMAIN s = DOMAIN nodes /\ Distinct(s)
               /\ Resolver!Range(s) = Resolver!IdsOf(nodes)
               /\ Len(s) = Cardinality(Resolver!IdsOf(nodes))
               /\ \A p \in RefPairs(nodes) : \E i \in DOMAIN nodes :
                     p[1] = s[i] /\ p[2] \in Targets(nodes[i].refs)
<1> DEFINE s == [i \in DOMAIN nodes |-> nodes[i].id]
<1>1. Len(nodes) \in Nat /\ DOMAIN nodes = 1 .. Len(nodes)
  OBVIOUS
<1>2. \A i \in DOMAIN nodes : nodes[i].id \in Id
  <2>1. \A i \in DOMAIN nodes : nodes[i] \in Resolver!Node
    OBVIOUS
  <2> QED
    BY <2>1 DEF Resolver!Node
<1>3. s \in Seq(Id)
  <2>1. s \in [1 .. Len(nodes) -> Id]
    BY <1>1, <1>2
  <2> QED
    BY <1>1, <2>1, SeqDef
<1>4. DOMAIN s = DOMAIN nodes /\ \A i \in DOMAIN nodes : s[i] = nodes[i].id
  OBVIOUS
<1> HIDE DEF s
<1>5. ASSUME NEW i \in DOMAIN s, NEW j \in DOMAIN s, s[i] = s[j]
      PROVE  i = j
  <2>1. i \in 1 .. Len(nodes) /\ j \in 1 .. Len(nodes)
    BY <1>1, <1>4
  <2>2. ~(i < j)
    <3>1. i < j => i \in 1 .. j - 1
      BY <1>1, <2>1
    <3> QED
      BY <1>1, <1>4, <1>5, <2>1, <3>1
  <2>3. ~(j < i)
    <3>1. j < i => j \in 1 .. i - 1
      BY <1>1, <2>1
    <3> QED
      BY <1>1, <1>4, <1>5, <2>1, <3>1
  <2> QED
    BY <1>1, <2>1, <2>2, <2>3
<1>6. Distinct(s)
  BY <1>5 DEF Distinct
<1>7. Resolver!Range(s) = Resolver!IdsOf(nodes)
  BY <1>4 DEF Resolver!Range, Resolver!IdsOf
<1>8. Len(s) = Cardinality(Resolver!IdsOf(nodes))
  BY <1>3, <1>6, <1>7, DistinctCount
<1>9. ASSUME NEW p \in RefPairs(nodes)
      PROVE  \E i \in DOMAIN nodes : p[1] = s[i] /\ p[2] \in Targets(nodes[i].refs)
  <2>1. PICK n \in Resolver!Range(nodes) : \E ref \in Resolver!Range(n.refs) : p = <<n.id, ref[1]>>
    BY DEF RefPairs
  <2>2. p[1] = n.id /\ p[2] \in Targets(n.refs)
    BY <2>1 DEF Targets
  <2>3. PICK i \in DOMAIN nodes : n = nodes[i]
    BY DEF Resolver!Range
  <2> QED
    BY <1>4, <2>2, <2>3
<1> QED
  BY <1>3, <1>4, <1>6, <1>7, <1>8, <1>9 DEF s

LEMMA ResolvedIsSound ==
    ASSUME NEW root \in Id, NEW r,
           Resolves({}, {Resolver!RootDep(root)}, Resolver!Nothing, r), r.error = "none"
    PROVE  IsSoundGraph(root, r)
<1> DEFINE nodes == r.nodes
           ids == Resolver!IdsOf(nodes)
           pairs == RefPairs(nodes)
           s == [i \in DOMAIN nodes |-> nodes[i].id]
<1>1. /\ Resolver!Nothing.nodes = <<>> /\ Resolver!Nothing.circular = {}
      /\ Targets(Resolver!Nothing.refs) = {} /\ Len(Resolver!Nothing.nodes) + 1 = 1
  <2>1. Resolver!Nothing.nodes = <<>> /\ Resolver!Nothing.refs = <<>> /\ Resolver!Nothing.circular = {}
    BY DEF Resolver!Nothing
  <2>2. Len(<<>>) + 1 = 1 /\ Targets(<<>>) = {}
    BY DEF Targets, Resolver!Range
  <2> QED
    BY <2>1, <2>2
<1>2. Resolver!RootDep(root).id = root /\ ~Resolver!RootDep(root).optional
  BY DEF Resolver!RootDep
<1>3. r \in Resolver!Graph
  BY DEF Resolves
<1>4. /\ Targets(r.refs) \subseteq {root}
      /\ r.circular # {} => Loops({}, r)
      /\ root \in ids
      /\ \A i \in 1 .. Len(nodes) :
            /\ \A j \in 1 .. i - 1 : nodes[j].id # nodes[i].id
            /\ \E t \in Targets(r.refs) : Leads(pairs, t, nodes[i].id)
            /\ \A t \in Targets(nodes[i].refs) : Backs({}, r, i, t)
  BY <1>1, <1>2 DEF Resolves
<1>5. nodes \in Seq(Resolver!Node) /\ Len(nodes) \in Nat /\ DOMAIN nodes = 1 .. Len(nodes)
  BY <1>3, GraphsAre
<1>6. \A i \in DOMAIN nodes : s[i] = nodes[i].id
  OBVIOUS
<1>7. /\ s \in Seq(Id) /\ DOMAIN s = DOMAIN nodes /\ Distinct(s)
      /\ Resolver!Range(s) = ids /\ Len(s) = Cardinality(ids)
      /\ \A p \in pairs : \E i \in DOMAIN nodes : p[1] = s[i] /\ p[2] \in Targets(nodes[i].refs)
  <2>1. \A i \in 1 .. Len(nodes) : \A j \in 1 .. i - 1 : nodes[j].id # nodes[i].id
    BY <1>4
  <2> QED
    BY <1>5, <2>1, NodesInOrder
<1>8. \A i \in DOMAIN nodes : s[i] \in ids
  BY <1>7 DEF Resolver!Range
<1> HIDE DEF s, ids, pairs, nodes
<1>9. ASSUME NEW i \in DOMAIN nodes, NEW t \in Targets(nodes[i].refs)
      PROVE  /\ t \in ids
             /\ \/ \E j \in 1 .. i - 1 : s[j] = t
                \/ r.circular # {} /\ Resolver!Reach(pairs, t, s[i])
  <2>1. Backs({}, r, i, t)
    BY <1>4, <1>5
  <2>2. CASE \E j \in 1 .. i - 1 : r.nodes[j].id = t
    <3>1. PICK j \in 1 .. i - 1 : r.nodes[j].id = t
      BY <2>2
    <3>2. j \in DOMAIN nodes
      BY <1>5, <3>1
    <3> QED
      BY <1>6, <1>8, <3>1, <3>2 DEF nodes
  <2>3. CASE /\ r.circular # {} /\ t \in Resolver!IdsOf(r.nodes)
             /\ Resolver!Reach(RefPairs(r.nodes), t, r.nodes[i].id)
    BY <1>6, <2>3 DEF nodes, ids, pairs
  <2> QED
    BY <2>1, <2>2, <2>3 DEF Backs
<1>10. \A p \in pairs : p[2] \in ids
  BY <1>7, <1>9
<1>11. ASSUME NEW i \in DOMAIN s, NEW j \in DOMAIN s, <<s[i], s[j]>> \in pairs, i < j
       PROVE  Resolver!Reach(pairs, s[j], s[i])
  <2>1. PICK k \in DOMAIN nodes : s[i] = s[k] /\ s[j] \in Targets(nodes[k].refs)
    BY <1>7, <1>11
  <2>2. k = i
    BY <1>7, <2>1 DEF Distinct
  <2>3. \A l \in 1 .. i - 1 : s[l] # s[j]
    <3> TAKE l \in 1 .. i - 1
    <3>1. l \in DOMAIN s /\ l # j
      BY <1>5, <1>7, <1>11
    <3> QED
      BY <1>7, <3>1 DEF Distinct
  <2> QED
    BY <1>9, <2>1, <2>2, <2>3
<1>12. Resolver!WellOrdered(s, ids, pairs)
  BY <1>7, <1>11, Counts DEF Resolver!WellOrdered
<1>13. \A n \in ids : n = root \/ Resolver!Reach(pairs, root, n)
  <2> TAKE n \in ids
  <2>1. PICK i \in DOMAIN nodes : n = s[i]
    BY <1>7 DEF Resolver!Range
  <2>2. PICK t \in Targets(r.refs) : Leads(pairs, t, n)
    BY <1>4, <1>5, <1>6, <2>1
  <2> QED
    BY <1>4, <2>2 DEF Leads
<1>14. r.circular # {} => \E n \in ids : Resolver!Reach(pairs, n, n)
  <2> SUFFICES ASSUME r.circular # {} PROVE \E n \in ids : Resolver!Reach(pairs, n, n)
    OBVIOUS
  <2>1. PICK n : Resolver!Reach(pairs, n, n)
    BY <1>4 DEF Loops, pairs, nodes
  <2>2. n \in ids
    BY <1>10, <2>1, ReachStays
  <2> QED
    BY <2>1, <2>2
<1>15. ASSUME r.circular = {}, NEW n \in ids, Resolver!Reach(pairs, n, n)
       PROVE  FALSE
  <2>1. PICK i \in DOMAIN nodes : n = s[i]
    BY <1>7 DEF Resolver!Range
  <2> DEFINE S == {s[j] : j \in 1 .. i - 1}
  <2>2. ASSUME NEW p \in pairs, p[1] \in S \cup {n} PROVE p[2] \in S
    <3>1. PICK k \in DOMAIN nodes : p[1] = s[k] /\ p[2] \in Targets(nodes[k].refs)
      BY <1>7
    <3>2. k <= i
      <4>1. PICK l \in 1 .. i : p[1] = s[l]
        BY <1>5, <2>1, <2>2
      <4>2. l \in DOMAIN nodes
        BY <1>5, <4>1
      <4>3. k = l
        BY <1>7, <3>1, <4>1, <4>2 DEF Distinct
      <4> QED
        BY <4>1, <4>3
    <3>3. PICK l \in 1 .. k - 1 : s[l] = p[2]
      BY <1>9, <1>15, <3>1
    <3>4. l \in 1 .. i - 1
      BY <1>5, <3>2, <3>3
    <3> QED
      BY <3>3, <3>4
  <2>3. n \in S
    <3> HIDE DEF S
    <3> QED
      BY <1>15, <2>2, ReachStays
  <2>4. PICK j \in 1 .. i - 1 : s[j] = s[i]
    BY <2>1, <2>3
  <2>5. j \in DOMAIN s /\ i \in DOMAIN s /\ j # i
    BY <1>5, <1>7, <2>4
  <2> QED
    BY <1>7, <2>4, <2>5 DEF Distinct
<1>16. (r.circular # {}) = \E n \in ids : Resolver!Reach(pairs, n, n)
  BY <1>14, <1>15
<1>17. root \in ids
  BY <1>4 DEF ids, nodes
<1> QED
  BY <1>10, <1>12, <1>13, <1>16, <1>17 DEF IsSoundGraph, s, ids, pairs, nodes

-----------------------------------------------------------------------------
(* Plans. *)

\* The nodes of a plan.
IsPlan(nodes) ==
    /\ DOMAIN nodes \subseteq Id
    /\ \A n \in DOMAIN nodes : nodes[n].deps \in Seq(Id)

\* What an id of the order depends on is before it, or the search is under way to
\* it still, or it depends on the id in turn.
Turns(nodes, path, sorted, i, t) ==
    \/ \E j \in 1 .. i - 1 : sorted[j] = t
    \/ t \in path
    \/ t \in Resolver!Range(sorted) /\ Resolver!Reach(Resolver!Pairs(nodes), t, sorted[i])

\* From the order before, the search makes the order after with the ids ids.
Visits(nodes, path, ids, before, after) ==
    /\ after \in Seq(Id) /\ Begins(before, after)
    /\ ids \cap DOMAIN nodes \subseteq Resolver!Range(after) \cup path
    /\ \A i \in Len(before) + 1 .. Len(after) :
          /\ after[i] \in DOMAIN nodes \ path
          /\ \A j \in 1 .. i - 1 : after[j] # after[i]
          /\ \E d \in ids : Leads(Resolver!Pairs(nodes), d, after[i])
          /\ \A t \in Resolver!Range(nodes[after[i]].deps) \cap DOMAIN nodes :
                Turns(nodes, path, after, i, t)

\* An order that goes on has what it had.
LEMMA OrderGrown ==
    ASSUME NEW s \in Seq(Id), NEW t \in Seq(Id), Begins(s, t)
    PROVE  Resolver!Range(s) \subseteq Resolver!Range(t)
<1>1. /\ DOMAIN s = 1 .. Len(s) /\ DOMAIN t = 1 .. Len(t) /\ Len(s) \in Nat /\ Len(t) \in Nat
      /\ Len(s) <= Len(t) /\ \A i \in 1 .. Len(s) : s[i] = t[i]
  BY DEF Begins
<1>2. \A i \in DOMAIN s : i \in DOMAIN t /\ t[i] = s[i]
  BY <1>1
<1> QED
  BY <1>2 DEF Resolver!Range

\* One id after another.
LEMMA VisitsJoined ==
    ASSUME NEW nodes, NEW path, NEW A, NEW B, NEW before \in Seq(Id), NEW mid, NEW after,
           Visits(nodes, path, A, before, mid), Visits(nodes, path, B, mid, after)
    PROVE  Visits(nodes, path, A \cup B, before, after)
<1> DEFINE a == Len(before)
           b == Len(mid)
           c == Len(after)
           pairs == Resolver!Pairs(nodes)
<1>1. /\ mid \in Seq(Id) /\ Begins(before, mid)
      /\ A \cap DOMAIN nodes \subseteq Resolver!Range(mid) \cup path
      /\ \A i \in a + 1 .. b :
            /\ mid[i] \in DOMAIN nodes \ path
            /\ \A j \in 1 .. i - 1 : mid[j] # mid[i]
            /\ \E d \in A : Leads(pairs, d, mid[i])
            /\ \A t \in Resolver!Range(nodes[mid[i]].deps) \cap DOMAIN nodes : Turns(nodes, path, mid, i, t)
  BY DEF Visits
<1>2. /\ after \in Seq(Id) /\ Begins(mid, after)
      /\ B \cap DOMAIN nodes \subseteq Resolver!Range(after) \cup path
      /\ \A i \in b + 1 .. c :
            /\ after[i] \in DOMAIN nodes \ path
            /\ \A j \in 1 .. i - 1 : after[j] # after[i]
            /\ \E d \in B : Leads(pairs, d, after[i])
            /\ \A t \in Resolver!Range(nodes[after[i]].deps) \cap DOMAIN nodes : Turns(nodes, path, after, i, t)
  BY DEF Visits
<1>3. a \in Nat /\ b \in Nat /\ c \in Nat
  BY <1>1, <1>2
<1>4. /\ a <= b /\ b <= c
      /\ \A i \in 1 .. a : before[i] = mid[i]
      /\ \A i \in 1 .. b : mid[i] = after[i]
  BY <1>1, <1>2 DEF Begins
<1>5. Resolver!Range(mid) \subseteq Resolver!Range(after)
  BY <1>1, <1>2, OrderGrown
<1> HIDE DEF a, b, c, pairs
<1>6. Begins(before, after)
  <2>1. a <= c /\ \A i \in 1 .. a : i \in 1 .. b
    BY <1>3, <1>4
  <2> QED
    BY <1>4, <2>1 DEF Begins, a, c
<1>7. ASSUME NEW i \in a + 1 .. b
      PROVE  /\ after[i] \in DOMAIN nodes \ path
             /\ \A j \in 1 .. i - 1 : after[j] # after[i]
             /\ \E d \in A : Leads(pairs, d, after[i])
             /\ \A t \in Resolver!Range(nodes[after[i]].deps) \cap DOMAIN nodes :
                   Turns(nodes, path, after, i, t)
  <2>1. i \in 1 .. b /\ \A j \in 1 .. i - 1 : j \in 1 .. b
    BY <1>3
  <2>2. mid[i] = after[i] /\ \A j \in 1 .. i - 1 : mid[j] = after[j]
    BY <1>4, <2>1
  <2>3. ASSUME NEW t \in Resolver!Range(nodes[after[i]].deps) \cap DOMAIN nodes
        PROVE  Turns(nodes, path, after, i, t)
    <3>1. Turns(nodes, path, mid, i, t)
      BY <1>1, <2>2
    <3> QED
      BY <1>5, <2>2, <3>1 DEF Turns
  <2> QED
    BY <1>1, <2>2, <2>3
<1>8. \A i \in a + 1 .. c : i \in a + 1 .. b \/ i \in b + 1 .. c
  BY <1>3, <1>4
<1>9. \A i \in a + 1 .. c :
          /\ after[i] \in DOMAIN nodes \ path
          /\ \A j \in 1 .. i - 1 : after[j] # after[i]
          /\ \E d \in A \cup B : Leads(pairs, d, after[i])
          /\ \A t \in Resolver!Range(nodes[after[i]].deps) \cap DOMAIN nodes :
                Turns(nodes, path, after, i, t)
  BY <1>2, <1>7, <1>8
<1>10. (A \cup B) \cap DOMAIN nodes \subseteq Resolver!Range(after) \cup path
  BY <1>1, <1>2, <1>5
<1> QED
  BY <1>2, <1>6, <1>9, <1>10 DEF Visits, a, c, pairs

\* An id that is there, or on the path, or of no node.
LEMMA VisitsNothing ==
    ASSUME NEW nodes, NEW path, NEW id, NEW before \in Seq(Id),
           id \in path \cup Resolver!Range(before) \/ id \notin DOMAIN nodes
    PROVE  Visits(nodes, path, {id}, before, before)
<1>1. Begins(before, before) /\ \A i \in Len(before) + 1 .. Len(before) : FALSE
  <2>1. Len(before) \in Nat
    OBVIOUS
  <2> QED
    BY <2>1 DEF Begins
<1> QED
  BY <1>1 DEF Visits

\* An id that is added after those that it depends on.
LEMMA VisitsNode ==
    ASSUME NEW nodes, NEW path, NEW id \in Id, id \in DOMAIN nodes, id \notin path,
           NEW before \in Seq(Id), id \notin Resolver!Range(before), NEW mid,
           Visits(nodes, path \cup {id}, Resolver!Range(nodes[id].deps), before, mid)
    PROVE  Visits(nodes, path, {id}, before, Append(mid, id))
<1> DEFINE a == Len(before)
           b == Len(mid)
           pairs == Resolver!Pairs(nodes)
           deps == Resolver!Range(nodes[id].deps)
           after == Append(mid, id)
<1>1. /\ mid \in Seq(Id) /\ Begins(before, mid)
      /\ deps \cap DOMAIN nodes \subseteq Resolver!Range(mid) \cup path \cup {id}
      /\ \A i \in a + 1 .. b :
            /\ mid[i] \in DOMAIN nodes \ (path \cup {id})
            /\ \A j \in 1 .. i - 1 : mid[j] # mid[i]
            /\ \E d \in deps : Leads(pairs, d, mid[i])
            /\ \A t \in Resolver!Range(nodes[mid[i]].deps) \cap DOMAIN nodes :
                  Turns(nodes, path \cup {id}, mid, i, t)
  BY DEF Visits
<1>2. /\ after \in Seq(Id) /\ Len(after) = b + 1 /\ a \in Nat /\ b \in Nat
      /\ after[b + 1] = id /\ \A i \in 1 .. b : after[i] = mid[i]
  BY <1>1
<1>3. Resolver!Range(after) = Resolver!Range(mid) \cup {id}
  BY <1>1, RangeOfAppend
<1>4. a <= b /\ \A i \in 1 .. a : before[i] = mid[i]
  BY <1>1 DEF Begins
<1>5. \A d \in deps : <<id, d>> \in pairs
  BY DEF Resolver!Pairs
<1>6. DOMAIN before = 1 .. a /\ DOMAIN mid = 1 .. b
  BY <1>1
<1> HIDE DEF a, b, pairs, deps, after
<1>7. Begins(before, after)
  <2>1. a <= b + 1 /\ \A i \in 1 .. a : i \in 1 .. b
    BY <1>2, <1>4
  <2> QED
    BY <1>2, <1>4, <2>1 DEF Begins, a
<1>8. \A d \in deps : \A m : Leads(pairs, d, m) => Resolver!Reach(pairs, id, m)
  <2> TAKE d \in deps
  <2> TAKE m
  <2> HAVE Leads(pairs, d, m)
  <2> QED
    BY <1>5, LeadsOn
<1>9. ASSUME NEW i \in a + 1 .. b
      PROVE  /\ after[i] \in DOMAIN nodes \ path
             /\ \A j \in 1 .. i - 1 : after[j] # after[i]
             /\ Leads(pairs, id, after[i])
             /\ \A t \in Resolver!Range(nodes[after[i]].deps) \cap DOMAIN nodes :
                   Turns(nodes, path, after, i, t)
  <2>1. i \in 1 .. b /\ \A j \in 1 .. i - 1 : j \in 1 .. b
    BY <1>2
  <2>2. mid[i] = after[i] /\ \A j \in 1 .. i - 1 : mid[j] = after[j]
    BY <1>2, <2>1
  <2>3. Resolver!Reach(pairs, id, after[i])
    BY <1>1, <1>8, <2>2
  <2>4. ASSUME NEW t \in Resolver!Range(nodes[after[i]].deps) \cap DOMAIN nodes
        PROVE  Turns(nodes, path, after, i, t)
    <3>1. Turns(nodes, path \cup {id}, mid, i, t)
      BY <1>1, <2>2
    <3>2. t = id => Turns(nodes, path, after, i, t)
      BY <1>3, <2>3 DEF Turns, pairs
    <3> QED
      BY <1>3, <2>2, <3>1, <3>2 DEF Turns
  <2> QED
    BY <1>1, <2>2, <2>3, <2>4 DEF Leads
<1>10. ASSUME NEW j \in 1 .. b
       PROVE  after[j] # id
  <2>1. CASE j \in 1 .. a
    <3>1. after[j] = before[j] /\ j \in DOMAIN before
      BY <1>2, <1>4, <1>6, <2>1
    <3> QED
      BY <3>1 DEF Resolver!Range
  <2>2. CASE j \notin 1 .. a
    <3>1. j \in a + 1 .. b
      BY <1>2, <2>2
    <3> QED
      BY <1>1, <1>2, <3>1
  <2> QED
    BY <2>1, <2>2
<1>11. ASSUME NEW t \in deps \cap DOMAIN nodes
       PROVE  Turns(nodes, path, after, b + 1, t)
  <2>1. CASE t \in Resolver!Range(mid)
    <3>1. PICK j \in 1 .. b : mid[j] = t
      BY <1>6, <2>1 DEF Resolver!Range
    <3>2. j \in 1 .. (b + 1) - 1 /\ after[j] = t
      BY <1>2, <3>1
    <3> QED
      BY <3>2 DEF Turns
  <2>2. CASE t \in path
    BY <2>2 DEF Turns
  <2>3. CASE t = id
    <3>1. Resolver!Reach(pairs, t, after[b + 1])
      BY <1>2, <1>5, <1>11, <2>3, ReachStep
    <3> QED
      BY <1>3, <2>3, <3>1 DEF Turns, pairs
  <2> QED
    BY <1>1, <1>11, <2>1, <2>2, <2>3
<1>12. \A i \in a + 1 .. Len(after) :
           /\ after[i] \in DOMAIN nodes \ path
           /\ \A j \in 1 .. i - 1 : after[j] # after[i]
           /\ \E d \in {id} : Leads(pairs, d, after[i])
           /\ \A t \in Resolver!Range(nodes[after[i]].deps) \cap DOMAIN nodes :
                 Turns(nodes, path, after, i, t)
  <2>1. \A i \in a + 1 .. Len(after) : i \in a + 1 .. b \/ (i = b + 1 /\ i - 1 = b)
    BY <1>2
  <2>2. after[b + 1] = id /\ Leads(pairs, id, id)
    BY <1>2 DEF Leads
  <2> QED
    BY <1>9, <1>10, <1>11, <2>1, <2>2 DEF deps
<1>13. {id} \cap DOMAIN nodes \subseteq Resolver!Range(after) \cup path
  BY <1>3
<1>14. after \in Seq(Id)
  BY <1>2
<1> QED
  BY <1>7, <1>12, <1>13, <1>14 DEF Visits, a, pairs, after

\* The calls that a call of visit makes.
OnWith(c, sorted) == [path |-> c.path, todo |-> Tail(c.todo), order |-> sorted]
Into(nodes, c) == [path |-> c.path \cup {Head(c.todo)}, todo |-> nodes[Head(c.todo)].deps,
                   order |-> c.order]
Passes(nodes, c) == \/ Head(c.todo) \in c.path \cup Resolver!Range(c.order)
                    \/ Head(c.todo) \notin DOMAIN nodes

PlanRoom == [c \in Resolver!Visiting |-> Cardinality(Id \ c.path)]
PlanLeft == [c \in Resolver!Visiting |-> Len(c.todo)]

LEMMA VisitCases ==
    ASSUME NEW nodes, NEW c, NEW f
    PROVE  Resolver!Visit(nodes, c, f) =
               IF c.todo = <<>> THEN c.order
               ELSE IF Passes(nodes, c) THEN f[OnWith(c, c.order)]
               ELSE f[OnWith(c, Append(f[Into(nodes, c)], Head(c.todo)))]
  BY DEF Resolver!Visit, OnWith, Into, Passes

LEMMA PlanCallIs ==
    ASSUME NEW c \in Resolver!Visiting
    PROVE  /\ c.path \in SUBSET Id /\ c.todo \in Seq(Id) /\ c.order \in Seq(Id)
           /\ Cardinality(Id \ c.path) \in Nat /\ Len(c.todo) \in Nat
           /\ c.todo # <<>> => Head(c.todo) \in Id
<1>1. c.path \in SUBSET Id /\ c.todo \in Seq(Id) /\ c.order \in Seq(Id)
  BY DEF Resolver!Visiting
<1>2. Cardinality(Id \ c.path) \in Nat
  BY ResolverAssumption, FS_Difference, FS_CardinalityType
<1> QED
  BY <1>1, <1>2

LEMMA PlanMeasures == Measures(Resolver!Visiting, PlanRoom, PlanLeft)
<1>1. ASSUME NEW c \in Resolver!Visiting
      PROVE  Cardinality(Id \ c.path) \in Nat /\ Len(c.todo) \in Nat
  BY PlanCallIs
<1> QED
  BY <1>1 DEF Measures, PlanRoom, PlanLeft

LEMMA OnWithIsBelow ==
    ASSUME NEW c \in Resolver!Visiting, c.todo # <<>>, NEW sorted \in Seq(Id)
    PROVE  /\ OnWith(c, sorted) \in Resolver!Visiting
           /\ Below(PlanRoom, PlanLeft, OnWith(c, sorted), c)
<1>1. c.path \in SUBSET Id /\ c.todo \in Seq(Id)
  BY PlanCallIs
<1>2. /\ Tail(c.todo) \in Seq(Id)
      /\ Len(Tail(c.todo)) \in Nat /\ Len(c.todo) \in Nat /\ Len(Tail(c.todo)) = Len(c.todo) - 1
  BY <1>1, HeadAndTail
<1>3. OnWith(c, sorted) \in Resolver!Visiting
  BY <1>1, <1>2 DEF OnWith, Resolver!Visiting
<1>4. /\ PlanRoom[OnWith(c, sorted)] = PlanRoom[c]
      /\ PlanLeft[OnWith(c, sorted)] = Len(Tail(c.todo)) /\ PlanLeft[c] = Len(c.todo)
  BY <1>3 DEF PlanRoom, PlanLeft, OnWith
<1> QED
  BY <1>2, <1>3, <1>4 DEF Below

LEMMA IntoIsBelow ==
    ASSUME NEW nodes, IsPlan(nodes), NEW c \in Resolver!Visiting, c.todo # <<>>, ~Passes(nodes, c)
    PROVE  /\ Into(nodes, c) \in Resolver!Visiting
           /\ Below(PlanRoom, PlanLeft, Into(nodes, c), c)
<1> DEFINE id == Head(c.todo)
           left == Id \ c.path
<1>1. /\ c.path \in SUBSET Id /\ c.order \in Seq(Id) /\ id \in Id
      /\ id \notin c.path /\ id \in DOMAIN nodes
  BY PlanCallIs DEF Passes
<1>2. nodes[id].deps \in Seq(Id)
  BY <1>1 DEF IsPlan
<1>3. Into(nodes, c) = [path |-> c.path \cup {id}, todo |-> nodes[id].deps, order |-> c.order]
  BY DEF Into
<1> HIDE DEF id
<1>4. Into(nodes, c) \in Resolver!Visiting
  BY <1>1, <1>2, <1>3 DEF Resolver!Visiting
<1>5. Id \ (c.path \cup {id}) = left \ {id} /\ id \in left
  BY <1>1
<1>6. IsFiniteSet(left)
  BY ResolverAssumption, FS_Difference
<1>7. Cardinality(left \ {id}) = Cardinality(left) - 1 /\ Cardinality(left) \in Nat
  BY <1>5, <1>6, FS_RemoveElement, FS_CardinalityType
<1>8. PlanRoom[Into(nodes, c)] = Cardinality(left \ {id}) /\ PlanRoom[c] = Cardinality(left)
  <2>1. Into(nodes, c).path = c.path \cup {id}
    BY <1>3
  <2>2. PlanRoom[Into(nodes, c)] = Cardinality(Id \ Into(nodes, c).path)
    BY <1>4 DEF PlanRoom
  <2>3. PlanRoom[c] = Cardinality(Id \ c.path)
    BY DEF PlanRoom
  <2> QED
    BY <1>5, <2>1, <2>2, <2>3
<1> QED
  BY <1>4, <1>7, <1>8 DEF Below

\* A call visits its ids when those below it do.
LEMMA VisitVisits ==
    ASSUME NEW nodes, IsPlan(nodes), NEW c \in Resolver!Visiting, NEW f,
           \A y \in Resolver!Visiting : Below(PlanRoom, PlanLeft, y, c) =>
               Visits(nodes, y.path, Resolver!Range(y.todo), y.order, f[y])
    PROVE  Visits(nodes, c.path, Resolver!Range(c.todo), c.order, Resolver!Visit(nodes, c, f))
<1> DEFINE id == Head(c.todo)
           r == Resolver!Visit(nodes, c, f)
<1> SUFFICES Visits(nodes, c.path, Resolver!Range(c.todo), c.order, r)
  OBVIOUS
<1>1. r = IF c.todo = <<>> THEN c.order
          ELSE IF Passes(nodes, c) THEN f[OnWith(c, c.order)]
          ELSE f[OnWith(c, Append(f[Into(nodes, c)], id))]
  BY VisitCases
<1> HIDE DEF r
<1>2. /\ c.path \in SUBSET Id /\ c.todo \in Seq(Id) /\ c.order \in Seq(Id)
      /\ c.todo # <<>> => id \in Id
  BY PlanCallIs
<1>3. c.todo # <<>> => Resolver!Range(c.todo) = {id} \cup Resolver!Range(Tail(c.todo))
  BY <1>2, HeadAndTail
<1>4. ASSUME c.todo # <<>>, NEW more, Visits(nodes, c.path, {id}, c.order, more), r = f[OnWith(c, more)]
      PROVE  Visits(nodes, c.path, Resolver!Range(c.todo), c.order, r)
  <2>1. more \in Seq(Id)
    BY <1>4 DEF Visits
  <2>2. OnWith(c, more) \in Resolver!Visiting /\ Below(PlanRoom, PlanLeft, OnWith(c, more), c)
    BY <1>4, <2>1, OnWithIsBelow
  <2>3. OnWith(c, more).path = c.path /\ OnWith(c, more).todo = Tail(c.todo) /\ OnWith(c, more).order = more
    BY DEF OnWith
  <2>4. Visits(nodes, c.path, Resolver!Range(Tail(c.todo)), more, r)
    BY <1>4, <2>2, <2>3
  <2>5. Visits(nodes, c.path, {id} \cup Resolver!Range(Tail(c.todo)), c.order, r)
    BY <1>2, <1>4, <2>4, VisitsJoined
  <2> QED
    BY <1>3, <1>4, <2>5
<1>5. CASE c.todo = <<>>
  <2>1. r = c.order /\ Resolver!Range(c.todo) = {}
    BY <1>1, <1>5 DEF Resolver!Range
  <2>2. Begins(c.order, c.order) /\ \A i \in Len(c.order) + 1 .. Len(c.order) : FALSE
    <3>1. Len(c.order) \in Nat
      BY <1>2
    <3> QED
      BY <3>1 DEF Begins
  <2> QED
    BY <1>2, <2>1, <2>2 DEF Visits
<1>6. CASE c.todo # <<>> /\ Passes(nodes, c)
  <2>1. r = f[OnWith(c, c.order)]
    BY <1>1, <1>6
  <2>2. Visits(nodes, c.path, {id}, c.order, c.order)
    BY <1>2, <1>6, VisitsNothing DEF Passes
  <2> QED
    BY <1>4, <1>6, <2>1, <2>2
<1>7. CASE c.todo # <<>> /\ ~Passes(nodes, c)
  <2> DEFINE mid == f[Into(nodes, c)]
             more == Append(mid, id)
  <2>1. Into(nodes, c) \in Resolver!Visiting /\ Below(PlanRoom, PlanLeft, Into(nodes, c), c)
    BY <1>7, IntoIsBelow
  <2>2. /\ Into(nodes, c).path = c.path \cup {id} /\ Into(nodes, c).todo = nodes[id].deps
        /\ Into(nodes, c).order = c.order
    BY DEF Into
  <2>3. Visits(nodes, c.path \cup {id}, Resolver!Range(nodes[id].deps), c.order, mid)
    BY <2>1, <2>2
  <2>4. r = f[OnWith(c, more)]
    BY <1>1, <1>7
  <2>5. id \in Id /\ id \in DOMAIN nodes /\ id \notin c.path /\ id \notin Resolver!Range(c.order)
    BY <1>2, <1>7 DEF Passes
  <2> HIDE DEF mid, id
  <2>6. Visits(nodes, c.path, {id}, c.order, more)
    BY <1>2, <2>3, <2>5, VisitsNode
  <2> HIDE DEF more
  <2> QED
    BY <1>4, <1>7, <2>4, <2>6 DEF id
<1> QED
  BY <1>5, <1>6, <1>7

LEMMA PlanVisitIsLocal ==
    ASSUME NEW nodes, IsPlan(nodes), NEW c \in Resolver!Visiting,
           NEW f \in [Resolver!Visiting -> Seq(Id)], NEW g \in [Resolver!Visiting -> Seq(Id)],
           \A y \in Resolver!Visiting : Below(PlanRoom, PlanLeft, y, c) => f[y] = g[y]
    PROVE  /\ Resolver!Visit(nodes, c, f) = Resolver!Visit(nodes, c, g)
           /\ Resolver!Visit(nodes, c, f) \in Seq(Id)
<1> DEFINE id == Head(c.todo)
           rest(h, sorted) == h[OnWith(c, sorted)]
           inner(h) == h[Into(nodes, c)]
           last(sorted) == Append(sorted, id)
<1>1. \A h : Resolver!Visit(nodes, c, h) =
          IF c.todo = <<>> THEN c.order
          ELSE IF Passes(nodes, c) THEN rest(h, c.order)
          ELSE rest(h, last(inner(h)))
  BY VisitCases
<1>2. c.order \in Seq(Id) /\ (c.todo # <<>> => id \in Id)
  BY PlanCallIs
<1>3. ASSUME c.todo # <<>>, NEW sorted \in Seq(Id)
      PROVE  /\ rest(f, sorted) = rest(g, sorted) /\ rest(f, sorted) \in Seq(Id)
             /\ last(sorted) \in Seq(Id)
  BY <1>2, <1>3, OnWithIsBelow
<1>4. c.todo # <<>> /\ ~Passes(nodes, c) => inner(f) = inner(g) /\ inner(f) \in Seq(Id)
  <2> SUFFICES ASSUME c.todo # <<>>, ~Passes(nodes, c)
               PROVE  inner(f) = inner(g) /\ inner(f) \in Seq(Id)
    OBVIOUS
  <2>1. Into(nodes, c) \in Resolver!Visiting /\ Below(PlanRoom, PlanLeft, Into(nodes, c), c)
    BY IntoIsBelow
  <2> QED
    BY <2>1
<1> HIDE DEF rest, inner, last
<1>5. CASE c.todo = <<>>
  BY <1>1, <1>2, <1>5
<1>6. CASE c.todo # <<>> /\ Passes(nodes, c)
  BY <1>1, <1>2, <1>3, <1>6
<1>7. CASE c.todo # <<>> /\ ~Passes(nodes, c)
  <2>1. inner(f) = inner(g) /\ inner(f) \in Seq(Id)
    BY <1>4, <1>7
  <2>2. last(inner(f)) \in Seq(Id)
    BY <1>3, <1>7, <2>1
  <2>3. /\ rest(f, last(inner(f))) = rest(g, last(inner(f)))
        /\ rest(f, last(inner(f))) \in Seq(Id)
    BY <1>3, <1>7, <2>2
  <2> QED
    BY <1>1, <1>7, <2>1, <2>3
<1> QED
  BY <1>5, <1>6, <1>7

\* A search over the nodes of a plan visits what it is given.
LEMMA DepthFirstVisits ==
    ASSUME NEW nodes, IsPlan(nodes), NEW hint \in Seq(Id)
    PROVE  Visits(nodes, {}, Resolver!Range(hint), <<>>, Resolver!DepthFirst(nodes, hint))
<1> DEFINE D == Resolver!Visiting
           G == Seq(Id)
           Step == [p \in D \X [D -> G] |-> Resolver!Visit(nodes, p[1], p[2])]
           Solves(f) == f = [c \in D |-> Resolver!Visit(nodes, c, f)]
           visit == CHOOSE f : Solves(f)
           first == [path |-> {}, todo |-> hint, order |-> <<>>]
<1>1. <<>> \in G /\ first \in D
  BY DEF Resolver!Visiting
<1>2. \A c \in D, f \in [D -> G] : Step[<<c, f>>] = Resolver!Visit(nodes, c, f)
  OBVIOUS
<1>3. Step \in [D \X [D -> G] -> G]
  <2>1. \A c \in D, f \in [D -> G] : Resolver!Visit(nodes, c, f) \in G
    BY PlanVisitIsLocal
  <2> QED
    BY <2>1
<1>4. \A c \in D, f \in [D -> G], g \in [D -> G] :
        (\A y \in D : Below(PlanRoom, PlanLeft, y, c) => f[y] = g[y])
          => Step[<<c, f>>] = Step[<<c, g>>]
  BY <1>2, PlanVisitIsLocal
<1>5. Recurs(D, G, PlanRoom, PlanLeft, Step)
  <2> HIDE DEF Step
  <2> QED
    BY <1>3, <1>4, PlanMeasures DEF Recurs
<1>6. \E f : Solves(f)
  <2>1. G # {}
    BY <1>1
  <2>2. PICK f \in [D -> G] : Follows(Step, f, D)
    <3> HIDE DEF Step
    <3> QED
      BY <1>5, <2>1, Recursion
  <2>3. \A c \in D : f[c] = Resolver!Visit(nodes, c, f)
    BY <1>2, <2>2 DEF Follows
  <2> QED
    BY <2>3
<1>7. Solves(visit)
  <2> HIDE DEF Solves
  <2> QED
    BY <1>6
<1>8. Resolver!DepthFirst(nodes, hint) = visit[first]
  BY DEF Resolver!DepthFirst
<1> HIDE DEF visit
<1>9. \A c \in D : visit[c] = Resolver!Visit(nodes, c, visit)
  BY <1>7
<1> DEFINE good(c) == Visits(nodes, c.path, Resolver!Range(c.todo), c.order, visit[c])
<1>10. \A c \in D : good(c)
  <2> DEFINE Bad == {c \in D : ~good(c)}
  <2>1. SUFFICES ASSUME Bad # {} PROVE FALSE
    OBVIOUS
  <2>2. PICK c \in Bad : \A y \in D : Below(PlanRoom, PlanLeft, y, c) => y \notin Bad
    <3>1. Bad \in SUBSET D
      OBVIOUS
    <3> HIDE DEF Bad
    <3> QED
      BY <2>1, <3>1, PlanMeasures, LeastAmong
  <2>3. \A y \in D : Below(PlanRoom, PlanLeft, y, c) =>
            Visits(nodes, y.path, Resolver!Range(y.todo), y.order, visit[y])
    BY <2>2
  <2>4. Visits(nodes, c.path, Resolver!Range(c.todo), c.order, Resolver!Visit(nodes, c, visit))
    BY <2>3, VisitVisits
  <2> QED
    BY <1>9, <2>4
<1>11. good(first)
  BY <1>1, <1>10
<1> QED
  BY <1>8, <1>11

\* A plan in an order to install it.
GoodPlan(plan) ==
    /\ IsPlan(plan.nodes) /\ plan.order \in Seq(Id)
    /\ Resolver!WellOrdered(plan.order, DOMAIN plan.nodes, Resolver!Pairs(plan.nodes))

\* What visits all nodes orders them.
LEMMA VisitedIsOrdered ==
    ASSUME NEW nodes, IsPlan(nodes), NEW ids, DOMAIN nodes \subseteq ids, NEW sorted,
           Visits(nodes, {}, ids, <<>>, sorted)
    PROVE  Resolver!WellOrdered(sorted, DOMAIN nodes, Resolver!Pairs(nodes))
<1> DEFINE pairs == Resolver!Pairs(nodes)
           n == Len(sorted)
<1>0. Len(<<>>) + 1 = 1
  OBVIOUS
<1>1. /\ sorted \in Seq(Id)
      /\ ids \cap DOMAIN nodes \subseteq Resolver!Range(sorted)
      /\ \A i \in 1 .. n :
            /\ sorted[i] \in DOMAIN nodes
            /\ \A j \in 1 .. i - 1 : sorted[j] # sorted[i]
            /\ \A t \in Resolver!Range(nodes[sorted[i]].deps) \cap DOMAIN nodes :
                  Turns(nodes, {}, sorted, i, t)
  BY <1>0 DEF Visits
<1>2. DOMAIN sorted = 1 .. n /\ n \in Nat
  BY <1>1
<1>3. Resolver!Range(sorted) = DOMAIN nodes
  BY <1>1, <1>2 DEF Resolver!Range
<1>4. Distinct(sorted)
  <2> SUFFICES ASSUME NEW i \in DOMAIN sorted, NEW j \in DOMAIN sorted, sorted[i] = sorted[j]
               PROVE  i = j
    BY DEF Distinct
  <2>1. i < j => i \in 1 .. j - 1
    BY <1>2
  <2>2. j < i => j \in 1 .. i - 1
    BY <1>2
  <2>3. ~(i < j) /\ ~(j < i)
    BY <1>1, <1>2, <2>1, <2>2
  <2> QED
    BY <1>2, <2>3
<1>5. Len(sorted) = Resolver!Cardinality(DOMAIN nodes)
  BY <1>1, <1>3, <1>4, DistinctCount, Counts
<1> HIDE DEF n
<1>6. ASSUME NEW i \in DOMAIN sorted, NEW j \in DOMAIN sorted, <<sorted[i], sorted[j]>> \in pairs, i < j
      PROVE  Resolver!Reach(pairs, sorted[j], sorted[i])
  <2>1. sorted[j] \in Resolver!Range(nodes[sorted[i]].deps) /\ sorted[j] \in DOMAIN nodes
    <3>1. PICK m \in DOMAIN nodes : \E d \in Resolver!Range(nodes[m].deps) :
             <<sorted[i], sorted[j]>> = <<m, d>>
      BY <1>6 DEF Resolver!Pairs
    <3> QED
      BY <1>1, <1>2, <3>1
  <2>2. Turns(nodes, {}, sorted, i, sorted[j])
    BY <1>1, <1>2, <2>1
  <2>3. \A k \in 1 .. i - 1 : sorted[k] # sorted[j]
    <3> TAKE k \in 1 .. i - 1
    <3>1. k \in 1 .. j - 1
      BY <1>2, <1>6
    <3> QED
      BY <1>1, <1>2, <3>1
  <2> QED
    BY <2>2, <2>3 DEF Turns
<1> QED
  BY <1>3, <1>5, <1>6 DEF Resolver!WellOrdered

LEMMA DepthFirstOrders ==
    ASSUME NEW nodes, IsPlan(nodes), NEW hint \in Seq(Id), DOMAIN nodes \subseteq Resolver!Range(hint)
    PROVE  /\ Resolver!DepthFirst(nodes, hint) \in Seq(Id)
           /\ Resolver!WellOrdered(Resolver!DepthFirst(nodes, hint), DOMAIN nodes, Resolver!Pairs(nodes))
<1>1. Visits(nodes, {}, Resolver!Range(hint), <<>>, Resolver!DepthFirst(nodes, hint))
  BY DepthFirstVisits
<1>2. Resolver!DepthFirst(nodes, hint) \in Seq(Id)
  BY <1>1 DEF Visits
<1> QED
  BY <1>1, <1>2, VisitedIsOrdered

-----------------------------------------------------------------------------
(* Sequences one after another. *)

LEMMA ConcatHasBoth ==
    ASSUME NEW S, NEW s \in Seq(S), NEW t \in Seq(S)
    PROVE  /\ s \o t \in Seq(S)
           /\ Resolver!Range(s) \subseteq Resolver!Range(s \o t)
           /\ Resolver!Range(t) \subseteq Resolver!Range(s \o t)
<1> DEFINE st == s \o t
<1>1. /\ st \in Seq(S) /\ Len(st) = Len(s) + Len(t) /\ Len(s) \in Nat /\ Len(t) \in Nat
      /\ \A i \in 1 .. Len(s) : st[i] = s[i]
      /\ \A i \in 1 .. Len(t) : st[Len(s) + i] = t[i]
  OBVIOUS
<1>2. DOMAIN s = 1 .. Len(s) /\ DOMAIN t = 1 .. Len(t) /\ DOMAIN st = 1 .. Len(s) + Len(t)
  BY <1>1
<1> HIDE DEF st
<1>3. \A i \in 1 .. Len(s) : i \in DOMAIN st
  BY <1>1, <1>2
<1>4. \A i \in 1 .. Len(t) : Len(s) + i \in DOMAIN st
  BY <1>1, <1>2
<1>5. Resolver!Range(s) \subseteq Resolver!Range(st)
  BY <1>1, <1>2, <1>3 DEF Resolver!Range
<1>6. Resolver!Range(t) \subseteq Resolver!Range(st)
  BY <1>1, <1>2, <1>4 DEF Resolver!Range
<1> QED
  BY <1>1, <1>5, <1>6 DEF st

\* A sequence of sequences, made one, has what each of them has.
LEMMA FlattenHasAll ==
    ASSUME NEW S, NEW seqs \in Seq(Seq(S)), seqs # <<>>
    PROVE  /\ Resolver!FlattenSeq(seqs) \in Seq(S)
           /\ \A i \in DOMAIN seqs : Resolver!Range(seqs[i]) \subseteq Resolver!Range(Resolver!FlattenSeq(seqs))
<1> DEFINE n == Len(seqs)
           D == 1 .. n
           G == Seq(S)
           a == [i \in D |-> i]
           b == [i \in D |-> 0]
           Value(f, i) == IF i = 1 THEN seqs[i] ELSE f[i - 1] \o seqs[i]
           Step == [p \in D \X [D -> G] |-> Value(p[2], p[1])]
           Solves(f) == f = [i \in D |-> Value(f, i)]
           flatten == CHOOSE f : Solves(f)
<1>1. n \in Nat /\ n # 0 /\ DOMAIN seqs = D /\ \A i \in D : seqs[i] \in G
  OBVIOUS
<1>2. Resolver!FlattenSeq(seqs) = flatten[n]
  BY <1>1 DEF Resolver!FlattenSeq
<1> HIDE DEF n, flatten
<1>3. \A i \in D : i \in Nat /\ (i # 1 => i - 1 \in D /\ i - 1 < i)
  BY <1>1
<1>4. Measures(D, a, b)
  BY <1>3 DEF Measures
<1>5. \A i, j \in D : j < i => Below(a, b, j, i)
  BY DEF Below
<1> HIDE DEF D, G, a, b
<1>6. ASSUME NEW i \in D, NEW f \in [D -> G] PROVE Value(f, i) \in G
  <2>1. CASE i = 1
    BY <1>1, <2>1
  <2>2. CASE i # 1
    <3>1. f[i - 1] \in G /\ seqs[i] \in G
      BY <1>1, <1>3, <2>2
    <3>2. f[i - 1] \o seqs[i] \in G
      BY <3>1, ConcatHasBoth DEF G
    <3> QED
      BY <2>2, <3>2
  <2> QED
    BY <2>1, <2>2
<1>7. \A i \in D, f \in [D -> G], g \in [D -> G] :
        (\A j \in D : Below(a, b, j, i) => f[j] = g[j]) => Value(f, i) = Value(g, i)
  BY <1>3, <1>5
<1> HIDE DEF Value
<1>8. \A i \in D, f \in [D -> G] : Step[<<i, f>>] = Value(f, i)
  OBVIOUS
<1>9. Step \in [D \X [D -> G] -> G]
  BY <1>6
<1>10. Recurs(D, G, a, b, Step)
  <2>1. \A i \in D, f \in [D -> G], g \in [D -> G] :
        (\A j \in D : Below(a, b, j, i) => f[j] = g[j]) => Step[<<i, f>>] = Step[<<i, g>>]
    BY <1>7, <1>8
  <2> HIDE DEF Step
  <2> QED
    BY <1>4, <1>9, <2>1 DEF Recurs
<1>11. \E f : Solves(f)
  <2>1. G # {}
    BY DEF G
  <2>2. PICK f \in [D -> G] : Follows(Step, f, D)
    <3> HIDE DEF Step
    <3> QED
      BY <1>10, <2>1, Recursion
  <2>3. \A i \in D : f[i] = Value(f, i)
    BY <1>8, <2>2 DEF Follows
  <2> QED
    BY <2>3
<1>12. Solves(flatten)
  <2> HIDE DEF Solves
  <2> QED
    BY <1>11 DEF flatten
<1>13. \A i \in D : flatten[i] = Value(flatten, i)
  BY <1>12
<1> DEFINE good(i) == /\ flatten[i] \in G
                      /\ \A k \in D : k <= i => Resolver!Range(seqs[k]) \subseteq Resolver!Range(flatten[i])
           Bad == {i \in D : ~good(i)}
<1>14. Bad = {}
  <2> SUFFICES ASSUME Bad # {} PROVE FALSE
    OBVIOUS
  <2>1. PICK i \in Bad : \A j \in D : Below(a, b, j, i) => j \notin Bad
    <3>1. Bad \in SUBSET D
      OBVIOUS
    <3> HIDE DEF Bad
    <3> QED
      BY <1>4, <3>1, LeastAmong
  <2>2. \A j \in D : j < i => good(j)
    BY <1>5, <2>1
  <2>3. i \in D /\ flatten[i] = Value(flatten, i) /\ seqs[i] \in G
    BY <1>1, <1>13, <2>1
  <2>4. CASE i = 1
    <3>1. flatten[i] = seqs[i]
      BY <2>3, <2>4 DEF Value
    <3>2. \A k \in D : k <= i => k = i
      BY <2>4 DEF D
    <3> QED
      BY <2>1, <2>3, <3>1, <3>2
  <2>5. CASE i # 1
    <3>1. i - 1 \in D /\ i - 1 < i
      BY <1>3, <2>3, <2>5
    <3> DEFINE before == flatten[i - 1]
    <3>2. flatten[i] = before \o seqs[i]
      BY <2>3, <2>5 DEF Value
    <3>3. /\ before \in G
          /\ \A k \in D : k <= i - 1 => Resolver!Range(seqs[k]) \subseteq Resolver!Range(before)
      BY <2>2, <3>1
    <3> HIDE DEF before
    <3>4. /\ flatten[i] \in G
          /\ Resolver!Range(before) \subseteq Resolver!Range(flatten[i])
          /\ Resolver!Range(seqs[i]) \subseteq Resolver!Range(flatten[i])
      BY <2>3, <3>2, <3>3, ConcatHasBoth DEF G
    <3>5. \A k \in D : k <= i => k = i \/ k <= i - 1
      <4> TAKE k \in D
      <4>1. k \in Nat /\ i \in Nat
        BY <1>3, <2>3
      <4> HIDE DEF Bad, good
      <4> QED
        BY <4>1
    <3> QED
      BY <2>1, <3>3, <3>4, <3>5
  <2> QED
    BY <2>4, <2>5
<1>15. n \in D /\ \A k \in D : k <= n
  BY <1>1 DEF D
<1>16. good(n)
  BY <1>14, <1>15
<1> QED
  BY <1>1, <1>2, <1>15, <1>16 DEF G

\* The plan of one root is in the order in which its nodes were resolved.
LEMMA PlanIsGood ==
    ASSUME NEW reg \in Seq(Resolver!Resource), NEW root \in Id, NEW skip, NEW installed,
           Resolver!Plan(reg, root, skip, installed).error = "none"
    PROVE  /\ GoodPlan(Resolver!Plan(reg, root, skip, installed))
           /\ Resolver!Range(Resolver!Plan(reg, root, skip, installed).order) =
                  DOMAIN Resolver!Plan(reg, root, skip, installed).nodes
<1> DEFINE graph == Resolver!Resolve(reg, root, skip, MaxDepth)
           ids == Resolver!IdsOf(graph.nodes)
           nodeOf(id) == CHOOSE n \in Resolver!Range(graph.nodes) : n.id = id
           refs(id) == [i \in DOMAIN nodeOf(id).refs |-> nodeOf(id).refs[i][1]]
           act(id) == Resolver!Action(graph.nodes, nodeOf(id), installed)
           sorted == [i \in DOMAIN graph.nodes |-> graph.nodes[i].id]
           nodes == [id \in ids |-> [action |-> act(id), deps |-> refs(id)]]
           plan == Resolver!Plan(reg, root, skip, installed)
<1>1. plan = [error |-> graph.error, order |-> sorted, nodes |-> nodes]
  BY DEF Resolver!Plan, Resolver!PlanOf
<1>2. plan.error = graph.error /\ plan.order = sorted /\ plan.nodes = nodes
  BY <1>1
<1>3. DOMAIN nodes = ids /\ \A id \in ids : nodes[id].deps = refs(id)
  OBVIOUS
<1>4. MaxDepth \in Nat
  BY ResolverAssumption
<1>5. /\ Resolves({}, {Resolver!RootDep(root)}, Resolver!Nothing, graph)
      /\ graph.error = "none"
  BY <1>2, <1>4, ResolveResolves
<1> HIDE DEF graph, plan, nodes, sorted, act
<1>6. graph \in Resolver!Graph /\ IsSoundGraph(root, graph)
  BY <1>5, ResolvedIsSound DEF Resolves
<1>7. Resolver!WellOrdered(sorted, ids, RefPairs(graph.nodes))
  BY <1>6 DEF IsSoundGraph, sorted
<1>8. /\ graph.nodes \in Seq(Resolver!Node) /\ DOMAIN graph.nodes = 1 .. Len(graph.nodes)
      /\ \A n \in Resolver!Range(graph.nodes) : n \in Resolver!Node
  BY <1>6, GraphsAre DEF Resolver!Range
<1>9. \A n \in Resolver!Node : n.id \in Id /\ n.refs \in Seq(Resolver!Reference)
  BY DEF Resolver!Node
<1>10. sorted \in Seq(Id)
  <2>1. sorted \in [1 .. Len(graph.nodes) -> Id]
    BY <1>8, <1>9 DEF sorted, Resolver!Range
  <2>2. Len(graph.nodes) \in Nat
    BY <1>8
  <2> QED
    BY <2>1, <2>2, SeqDef
<1>11. \A id \in ids : nodeOf(id) \in Resolver!Range(graph.nodes) /\ nodeOf(id).id = id
  BY DEF Resolver!IdsOf
\* An id is there once: nodeOf gives its node.
<1>12. \A n \in Resolver!Range(graph.nodes) : n.id \in ids /\ nodeOf(n.id) = n
  <2> SUFFICES ASSUME NEW i \in DOMAIN graph.nodes, NEW j \in DOMAIN graph.nodes,
                      graph.nodes[i].id = graph.nodes[j].id
               PROVE  i = j
    BY <1>11 DEF Resolver!IdsOf, Resolver!Range
  <2>0. graph.error = "none" /\ Len(Resolver!Nothing.nodes) + 1 = 1
    <3>1. Resolver!Nothing.nodes = <<>>
      BY DEF Resolver!Nothing
    <3>2. Len(<<>>) + 1 = 1
      OBVIOUS
    <3> QED
      BY <1>5, <3>1, <3>2
  <2>1. \A k \in 1 .. Len(graph.nodes) : \A l \in 1 .. k - 1 : graph.nodes[l].id # graph.nodes[k].id
    BY <1>5, <2>0 DEF Resolves
  <2>2. i \in 1 .. Len(graph.nodes) /\ j \in 1 .. Len(graph.nodes) /\ Len(graph.nodes) \in Nat
    BY <1>8
  <2>3. i < j => i \in 1 .. j - 1
    BY <2>2
  <2>4. j < i => j \in 1 .. i - 1
    BY <2>2
  <2>5. ~(i < j) /\ ~(j < i)
    BY <2>1, <2>2, <2>3, <2>4
  <2> QED
    BY <2>2, <2>5
<1> HIDE DEF nodeOf, ids
<1>13. ASSUME NEW id \in ids
       PROVE  refs(id) \in Seq(Id) /\ Resolver!Range(refs(id)) = {ref[1] : ref \in Resolver!Range(nodeOf(id).refs)}
  <2> DEFINE r == nodeOf(id).refs
  <2>1. r \in Seq(Resolver!Reference)
    BY <1>8, <1>9, <1>11
  <2> HIDE DEF r
  <2>2. DOMAIN r = 1 .. Len(r) /\ Len(r) \in Nat /\ \A i \in DOMAIN r : r[i][1] \in Id
    BY <2>1 DEF Resolver!Reference
  <2> DEFINE q == [i \in DOMAIN r |-> r[i][1]]
  <2>3. q \in [1 .. Len(r) -> Id]
    BY <2>2
  <2>4. q \in Seq(Id)
    BY <2>2, <2>3, SeqDef
  <2>5. Resolver!Range(q) = {ref[1] : ref \in Resolver!Range(r)}
    BY DEF Resolver!Range
  <2> QED
    BY <2>4, <2>5 DEF r
<1>14. Resolver!Pairs(nodes) = RefPairs(graph.nodes)
  <2>1. ASSUME NEW p \in Resolver!Pairs(nodes) PROVE p \in RefPairs(graph.nodes)
    <3>1. PICK id \in ids : \E d \in Resolver!Range(nodes[id].deps) : p = <<id, d>>
      BY <1>3 DEF Resolver!Pairs
    <3>2. PICK ref \in Resolver!Range(nodeOf(id).refs) : p = <<id, ref[1]>>
      <4>1. PICK d \in Resolver!Range(refs(id)) : p = <<id, d>>
        BY <1>3, <3>1
      <4>2. Resolver!Range(refs(id)) = {ref[1] : ref \in Resolver!Range(nodeOf(id).refs)}
        BY <1>13
      <4> HIDE DEF refs
      <4> QED
        BY <4>1, <4>2
    <3> QED
      BY <1>11, <3>2 DEF RefPairs
  <2>2. ASSUME NEW p \in RefPairs(graph.nodes) PROVE p \in Resolver!Pairs(nodes)
    <3>1. PICK n \in Resolver!Range(graph.nodes) : \E ref \in Resolver!Range(n.refs) : p = <<n.id, ref[1]>>
      BY DEF RefPairs
    <3>2. n.id \in ids /\ nodeOf(n.id) = n
      BY <1>12
    <3>3. \E d \in Resolver!Range(nodes[n.id].deps) : p = <<n.id, d>>
      BY <1>3, <1>13, <3>1, <3>2
    <3> QED
      BY <1>3, <3>2, <3>3 DEF Resolver!Pairs
  <2> QED
    BY <2>1, <2>2
<1>15. ids \subseteq Id
  BY <1>8, <1>9 DEF ids, Resolver!IdsOf
<1>16. IsPlan(nodes)
  BY <1>3, <1>13, <1>15 DEF IsPlan
<1>17. Resolver!Range(sorted) = ids
  BY <1>7 DEF Resolver!WellOrdered
<1> QED
  BY <1>2, <1>3, <1>7, <1>10, <1>14, <1>16, <1>17 DEF GoodPlan, plan

\* The plan of several roots has what theirs have, in an order of its own.
LEMMA MultiPlanIsGood ==
    ASSUME NEW reg \in Seq(Resolver!Resource), NEW roots \in Seq(Id), roots # <<>>, NEW skip,
           NEW installed, Resolver!MultiPlan(reg, roots, skip, installed).error = "none"
    PROVE  GoodPlan(Resolver!MultiPlan(reg, roots, skip, installed))
<1> DEFINE R == DOMAIN roots
           plans == [i \in R |-> Resolver!Plan(reg, roots[i], skip, installed)]
           wrong == {i \in R : plans[i].error # "none"}
           ids == UNION {DOMAIN plans[i].nodes : i \in R}
           of(id) == {i \in R : id \in DOMAIN plans[i].nodes}
           first(id) == Resolver!Min(of(id))
           nodes == [id \in ids |-> plans[first(id)].nodes[id]]
           orders == [i \in R |-> plans[i].order]
           result == Resolver!MultiPlan(reg, roots, skip, installed)
<1>1. R = 1 .. Len(roots) /\ Len(roots) \in Nat /\ Len(roots) # 0 /\ \A i \in R : roots[i] \in Id
  OBVIOUS
<1>2. result = IF wrong # {}
               THEN [error |-> plans[Resolver!Min(wrong)].error, order |-> <<>>, nodes |-> <<>>]
               ELSE IF Len(roots) = 1 THEN plans[1]
               ELSE [error |-> "none", nodes |-> nodes,
                     order |-> Resolver!DepthFirst(nodes, Resolver!FlattenSeq(orders))]
  <2> DEFINE P == {plans[i] : i \in R}
  <2>1. result = Resolver!JoinedPlan(plans)
    BY DEF Resolver!MultiPlan
  <2>2. DOMAIN plans = R
    OBVIOUS
  <2>3. plans \in Seq(P)
    <3>1. plans \in [1 .. Len(roots) -> P]
      BY <1>1
    <3> QED
      BY <1>1, <3>1, SeqDef
  <2> HIDE DEF plans, P
  <2>4. Len(plans) = Len(roots)
    <3>1. Len(plans) \in Nat /\ DOMAIN plans = 1 .. Len(plans)
      BY <2>3
    <3> QED
      BY <1>1, <2>2, <3>1
  <2> QED
    BY <2>1, <2>2, <2>4 DEF Resolver!JoinedPlan
<1> HIDE DEF result, nodes, orders
<1>3. wrong = {}
  <2> SUFFICES ASSUME wrong # {} PROVE FALSE
    OBVIOUS
  <2>1. result.error = plans[Resolver!Min(wrong)].error
    BY <1>2
  <2>2. wrong \in SUBSET Nat
    BY <1>1
  <2> HIDE DEF wrong
  <2>3. Resolver!Min(wrong) \in wrong
    BY <2>2, LeastIsThere
  <2> QED
    BY <2>1, <2>3 DEF wrong, result
<1>4. ASSUME NEW i \in R
      PROVE  GoodPlan(plans[i]) /\ Resolver!Range(plans[i].order) = DOMAIN plans[i].nodes
  <2>1. plans[i] = Resolver!Plan(reg, roots[i], skip, installed) /\ plans[i].error = "none"
    BY <1>3
  <2>2. roots[i] \in Id
    BY <1>1
  <2>3. Resolver!Plan(reg, roots[i], skip, installed).error = "none"
    BY <2>1
  <2>4. /\ GoodPlan(Resolver!Plan(reg, roots[i], skip, installed))
        /\ Resolver!Range(Resolver!Plan(reg, roots[i], skip, installed).order) =
               DOMAIN Resolver!Plan(reg, roots[i], skip, installed).nodes
    BY <2>2, <2>3, PlanIsGood
  <2> HIDE DEF plans
  <2> QED
    BY <2>1, <2>4
<1> HIDE DEF plans, wrong
<1>5. CASE Len(roots) = 1
  <2>1. result = plans[1] /\ 1 \in R
    BY <1>2, <1>1, <1>3, <1>5
  <2> QED
    BY <1>4, <2>1 DEF result
<1>6. CASE Len(roots) # 1
  <2> DEFINE hint == Resolver!FlattenSeq(orders)
  <2>1. /\ result = [error |-> "none", nodes |-> nodes, order |-> Resolver!DepthFirst(nodes, hint)]
    BY <1>2, <1>3, <1>6
  <2>2. orders \in Seq(Seq(Id)) /\ orders # <<>> /\ DOMAIN orders = R
        /\ \A i \in R : orders[i] = plans[i].order
    <3>1. \A i \in R : plans[i].order \in Seq(Id)
      BY <1>4 DEF GoodPlan
    <3>2. orders \in [1 .. Len(roots) -> Seq(Id)]
      BY <1>1, <3>1 DEF orders
    <3>3. orders \in Seq(Seq(Id)) /\ Len(orders) = Len(roots)
      <4> HIDE DEF R
      <4> QED
        BY <1>1, <3>2, SeqDef
    <3>4. orders # <<>>
      BY <1>1, <3>3
    <3> QED
      BY <3>3, <3>4 DEF orders
  <2>3. hint \in Seq(Id) /\ \A i \in R : Resolver!Range(plans[i].order) \subseteq Resolver!Range(hint)
    <3>1. /\ Resolver!FlattenSeq(orders) \in Seq(Id)
          /\ \A i \in DOMAIN orders : Resolver!Range(orders[i]) \subseteq Resolver!Range(Resolver!FlattenSeq(orders))
      BY <2>2, FlattenHasAll
    <3> QED
      BY <2>2, <3>1
  <2> HIDE DEF hint
  <2>4. DOMAIN nodes = ids /\ ids \subseteq Resolver!Range(hint)
    BY <1>4, <2>3 DEF nodes
  <2>5. ASSUME NEW id \in ids PROVE nodes[id].deps \in Seq(Id) /\ id \in Id
    <3>1. of(id) \in SUBSET Nat /\ of(id) # {}
      BY <1>1
    <3> DEFINE k == first(id)
    <3>2. k \in of(id)
      <4> HIDE DEF of
      <4> QED
        BY <3>1, LeastIsThere
    <3>3. nodes[id] = plans[k].nodes[id]
      BY DEF nodes
    <3>4. k \in R /\ id \in DOMAIN plans[k].nodes
      BY <3>2
    <3> HIDE DEF k
    <3>5. IsPlan(plans[k].nodes)
      BY <1>4, <3>4 DEF GoodPlan
    <3> QED
      BY <3>3, <3>4, <3>5 DEF IsPlan
  <2>6. IsPlan(nodes)
    BY <2>4, <2>5 DEF IsPlan
  <2>7. DOMAIN nodes \subseteq Resolver!Range(hint)
    BY <2>4
  <2>8. /\ Resolver!DepthFirst(nodes, hint) \in Seq(Id)
        /\ Resolver!WellOrdered(Resolver!DepthFirst(nodes, hint), DOMAIN nodes, Resolver!Pairs(nodes))
    BY <2>3, <2>6, <2>7, DepthFirstOrders
  <2>9. result.nodes = nodes /\ result.order = Resolver!DepthFirst(nodes, hint)
    BY <2>1
  <2> QED
    BY <2>6, <2>8, <2>9 DEF GoodPlan, result
<1> QED
  BY <1>5, <1>6

-----------------------------------------------------------------------------
(* What both resolvers, the index and the registries of types answer. *)

\* What an answer of resolve, resolveOffline or a plan has to be.
IsSoundAnswer(a) ==
    a.result.error = "none" =>
        /\ a.op \in {"resolve", "offline"} => IsSoundGraph(a.request.roots[1], a.result)
        /\ a.op = "plan" => GoodPlan(a.result)

LEMMA ResolveRequestIsSound ==
    ASSUME ResolverInv, NEW q \in Requests, Resolver!ResolveRequest(q)
    PROVE  IsSoundAnswer(answer')
<1> DEFINE root == q.roots[1]
           reg == Resolver!registry
<1>1. root \in Id /\ reg \in Seq(Resolver!Resource)
  BY Request, PresentRegistry
<1>2. MaxDepth \in Nat /\ Resolver!Cardinality(Id) + 1 \in Nat
  <2>1. Cardinality(Id) \in Nat
    BY ResolverAssumption, FS_CardinalityType
  <2>2. Resolver!Cardinality(Id) \in Nat
    BY <2>1, Counts
  <2> QED
    BY <2>2, ResolverAssumption
<1> HIDE DEF root, reg
<1>3. ASSUME NEW bound \in Nat,
             LET r == Resolver!Resolve(reg, root, q.skip, bound)
             IN  Resolver!Answered(q, r) /\ q.op \in {"resolve", "offline"}
      PROVE  IsSoundAnswer(answer')
  <2> DEFINE r == Resolver!Resolve(reg, root, q.skip, bound)
  <2>1. Resolves({}, {Resolver!RootDep(root)}, Resolver!Nothing, r)
    BY <1>1, ResolveResolves
  <2>2. Resolver!Answered(q, r) /\ q.op \in {"resolve", "offline"}
    BY <1>3
  <2> HIDE DEF r
  <2>3. answer'.op = q.op /\ answer'.request = q /\ answer'.result = r
    BY <2>2, Answers
  <2>4. r.error = "none" => IsSoundGraph(root, r)
    BY <1>1, <2>1, ResolvedIsSound
  <2> QED
    BY <2>2, <2>3, <2>4 DEF IsSoundAnswer, root
<1>4. \E bound \in {MaxDepth, Resolver!Cardinality(Id) + 1} :
          LET r == Resolver!Resolve(reg, root, q.skip, bound)
          IN  Resolver!Answered(q, r) /\ q.op \in {"resolve", "offline"}
  BY DEF Resolver!ResolveRequest, Resolver!ResolveOffline, root, reg
<1> QED
  BY <1>2, <1>3, <1>4

LEMMA PlanRequestIsSound ==
    ASSUME ResolverInv, NEW q \in Requests, Resolver!PlanRequest(q)
    PROVE  IsSoundAnswer(answer')
<1> DEFINE r == Resolver!MultiPlan(Resolver!registry, q.roots, q.skip, q.installed)
<1>1. Resolver!registry \in Seq(Resolver!Resource) /\ q.roots \in Seq(Id) /\ q.roots # <<>>
  BY PresentRegistry, ResolverAssumption
<1>2. r.error = "none" => GoodPlan(r)
  BY <1>1, MultiPlanIsGood
<1>3. Resolver!Answered(q, r) /\ q.op = "plan"
  BY DEF Resolver!PlanRequest
<1> HIDE DEF r
<1>4. answer'.op = "plan" /\ answer'.result = r
  BY <1>3, Answers
<1> QED
  BY <1>2, <1>4 DEF IsSoundAnswer

\* Every other step leaves the answer, takes it back, or answers something else.
LEMMA OtherAnswers ==
    ASSUME [Resolver!Next]_resolverVars,
           ~\E q \in Requests : Resolver!ResolveRequest(q) \/ Resolver!PlanRequest(q)
    PROVE  answer' = answer \/ answer'.op \in {"none", "impact", "advanced", "dependents"}
<1>1. CASE UNCHANGED resolverVars
  BY <1>1 DEF resolverVars
<1>2. ASSUME NEW q \in Requests, Resolver!ImpactRequest(q) \/ Resolver!AdvancedRequest(q)
                                 \/ Resolver!DependentsRequest(q)
      PROVE  answer'.op \in {"none", "impact", "advanced", "dependents"}
  <2>1. \E r : Resolver!Answered(q, r) /\ q.op \in {"impact", "advanced", "dependents"}
    BY <1>2 DEF Resolver!ImpactRequest, Resolver!AdvancedRequest, Resolver!DependentsRequest
  <2> QED
    BY <2>1, Answers
<1>3. CASE \/ Resolver!Settle \/ Resolver!SetResources
           \/ Resolver!InvalidateResolutionCache \/ Resolver!Tick
  <2>1. answer' = answer \/ answer' = Resolver!NoAnswer
    BY <1>3 DEF Resolver!Settle, Resolver!SetResources, Resolver!InvalidateResolutionCache,
                Resolver!Tick
  <2> QED
    BY <2>1 DEF Resolver!NoAnswer
<1> QED
  BY <1>1, <1>2, <1>3 DEF Resolver!Next

LEMMA AnswersAreSound == ExtensionsSpec => []IsSoundAnswer(answer)
<1>1. ExtensionsInit => IsSoundAnswer(answer)
  <2> SUFFICES ASSUME ExtensionsInit PROVE IsSoundAnswer(answer)
    OBVIOUS
  <2>1. answer.op = "none"
    BY DEF ExtensionsInit, Resolver!Init, Resolver!NoAnswer
  <2> QED
    BY <2>1 DEF IsSoundAnswer
<1>2. ResolverInv /\ IsSoundAnswer(answer) /\ [ExtensionsNext]_extensionVars => IsSoundAnswer(answer)'
  <2> SUFFICES ASSUME ResolverInv, IsSoundAnswer(answer), [ExtensionsNext]_extensionVars
               PROVE  IsSoundAnswer(answer')
    BY DEF IsSoundAnswer, IsSoundGraph, GoodPlan, IsPlan
  <2>1. [Resolver!Next]_resolverVars
    BY DEF ExtensionsNext, extensionVars
  <2>2. CASE \E q \in Requests : Resolver!ResolveRequest(q) \/ Resolver!PlanRequest(q)
    BY <2>2, ResolveRequestIsSound, PlanRequestIsSound
  <2>3. CASE answer' = answer
    BY <2>3
  <2>4. CASE answer'.op \in {"none", "impact", "advanced", "dependents"}
    BY <2>4 DEF IsSoundAnswer
  <2> QED
    BY <2>1, <2>2, <2>3, <2>4, OtherAnswers
<1> QED
  BY <1>1, <1>2, ResolverIsKept, PTL DEF ExtensionsSpec

\* Whatever is asked, in whatever registry: a graph or a plan that is resolved has
\* what its roots need and is in an order to install it, with a cycle exactly if it
\* says so (dependencies/index.ts:533-650, plan.ts:62-145); an advanced one orders
\* what reaches no cycle, in one way (graph.ts:155-211); the index finds exactly the
\* resources of the registry (registry/resource-index.ts), and the lookups of types and
\* installers follow every change (resource-types/, installer-registry/).
THEOREM ResolvedAnswersAreSound == ExtensionsSpec => []ResolutionIsSound
<1>1. IsSoundAnswer(answer) => Resolver!ResolutionIsSound
  <2> SUFFICES ASSUME IsSoundAnswer(answer), answer.result.error = "none"
               PROVE  Resolver!ResolutionIsSound
    BY DEF Resolver!ResolutionIsSound
  <2>1. answer.op \in {"resolve", "offline"} => IsSoundGraph(answer.request.roots[1], answer.result)
    BY DEF IsSoundAnswer
  <2>2. answer.op = "plan" =>
            Resolver!WellOrdered(answer.result.order, DOMAIN answer.result.nodes,
                                 Resolver!Pairs(answer.result.nodes))
    BY DEF IsSoundAnswer, GoodPlan
  <2> QED
    BY <2>1, <2>2 DEF Resolver!ResolutionIsSound, IsSoundGraph, RefPairs
<1>2. ResolverInv => Resolver!AdvancedIsSound
  BY AdvancedAnswer
<1>3. IndexInv => Indexing!IndexIsOfRegistry
  BY DEF IndexInv, Indexing!IndexIsOfRegistry
<1>4. TypesInv => Types!LookupsAreCurrent
  BY LookupsFollow
<1>5. IsSoundAnswer(answer) /\ ResolverInv /\ IndexInv /\ TypesInv => ResolutionIsSound
  BY <1>1, <1>2, <1>3, <1>4 DEF ResolutionIsSound
<1> QED
  BY <1>5, AnswersAreSound, ResolverIsKept, IndexIsKept, TypesAreKept, PTL
=============================================================================
