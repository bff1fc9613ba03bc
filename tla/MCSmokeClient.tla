--------------------------- MODULE MCSmokeClient ---------------------------
(***************************************************************************)
(* Instances of the smoke client for TLC.                                  *)
(***************************************************************************)
EXTENDS SmokeClient

CONSTANTS r1, r2
=============================================================================
