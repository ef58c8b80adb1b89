-------------------------- MODULE MCDownloadEngine --------------------------
(* Small sets of requests for the download engine. *)
EXTENDS DownloadEngine, TLC

CONSTANTS r1, r2, r3, r4, r5, u, v, d, e

\* r1 and r2 are the same download; r3 has the URL of r1 and a destination of
\* its own; r4 and r5 have another URL and these destinations.
Urls == r1 :> u @@ r2 :> u @@ r3 :> u @@ r4 :> v @@ r5 :> v
Dests == r1 :> d @@ r2 :> d @@ r3 :> e @@ r4 :> d @@ r5 :> e
Weights == r1 :> 2 @@ r2 :> 2 @@ r3 :> 2 @@ r4 :> 1 @@ r5 :> 2
Attempts == r1 :> 3 @@ r2 :> 2 @@ r3 :> 2 @@ r4 :> 1 @@ r5 :> 1
Troubles ==
    r1 :> {"limit", "corrupt"} @@ r2 :> {} @@ r3 :> {"files"}
    @@ r4 :> {} @@ r5 :> {}
=============================================================================
