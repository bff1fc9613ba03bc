---------------------------- MODULE MCMigrations ----------------------------
(***************************************************************************)
(* Instances of the migration chain for TLC.                               *)
(***************************************************************************)
EXTENDS Migrations, TLC

CONSTANTS a1, j1, j2, doc

TwoOfOne == (j1 :> doc) @@ (j2 :> doc)
=============================================================================
