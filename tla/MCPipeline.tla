----------------------------- MODULE MCPipeline -----------------------------
(***************************************************************************)
(* Instances of the pipeline for TLC.                                      *)
(***************************************************************************)
EXTENDS Pipeline, TLC

CONSTANTS j1, j2, j3, j4, d1, d2, d3, d4

OneJob == j1 :> d1
TwoJobsOneDocument == j1 :> d1 @@ j2 :> d1
TwoDocuments == j1 :> d1 @@ j2 :> d2
OneJobEach == j1 :> d1 @@ j2 :> d2 @@ j3 :> d3 @@ j4 :> d4

(* Workers are alike, and so are jobs where all have the same document. *)
Symmetry == Permutations(Workers) \cup Permutations(Jobs)
=============================================================================
