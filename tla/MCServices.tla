----------------------------- MODULE MCServices -----------------------------
(***************************************************************************)
(* Model values, scenarios and bounds of the services.                     *)
(***************************************************************************)
EXTENDS Services, TLC

CONSTANTS
    a, b,               \* resources
    c1, c2, c3, t1,     \* calls of fetch
    u, v,               \* URLs
    r1, r2, r3, r4,     \* calls of run
    d1, d2,             \* readers of the repository
    k1, k2, k3,         \* cache keys
    e1, e2, y1, y2      \* resources on screen and their categories

LifeOp(kind, id) == [kind |-> kind, id |-> id, force |-> FALSE, policy |-> "preserve"]

LifeBatches ==
    {<<LifeOp("add", a)>>, <<LifeOp("add", b)>>, <<LifeOp("update", a)>>,
     <<LifeOp("remove", a)>>, <<LifeOp("reinstall", b)>>,
     <<[LifeOp("repair", a) EXCEPT !.policy = "fail"]>>,
     <<LifeOp("rebuild", a)>>, <<LifeOp("remove", a), LifeOp("remove", b)>>}

LifeRequires == (a :> {b}) @@ (b :> {})

NetUrlOf == (c1 :> u) @@ (c2 :> u) @@ (c3 :> v) @@ (t1 :> v)

RunCategories == (r1 :> "background") @@ (r2 :> "background")
                 @@ (r3 :> "background") @@ (r4 :> "metadata")
OneEach == [background |-> 1, metadata |-> 1]

SourceFiles == {"registry.json", "tree", "m1", "m2", "m3"}
ThreeManifests == <<"m1", "m2", "m3">>
SharedName == [p \in SourceFiles |-> IF p = "m3" THEN "y" ELSE "x"]
AllValid == [p \in SourceFiles |-> TRUE]
ReaderWants == (d1 :> "discover") @@ (d2 :> "m1")

KeySizes == (k1 :> 1) @@ (k2 :> 2) @@ (k3 :> 4)

StageTries == [github |-> 3, project |-> 2]

ItemSections == (e1 :> y1) @@ (e2 :> y2)
Toggles == <<"overwrite", "optionalDeps", "dryRun">>
Defaults == [overwrite |-> FALSE, optionalDeps |-> TRUE, dryRun |-> FALSE]

Configured(offline, mode, project) ==
    [offline |-> offline, mode |-> mode, project |-> project]
OfflineHere == {Configured(TRUE, "absent", "here")}
OnlineThere == Configured(FALSE, "prefer-offline", "there")
=============================================================================
