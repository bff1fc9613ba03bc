--------------------------- MODULE MCProvisioning ---------------------------
(***************************************************************************)
(* Instances of account provisioning for TLC.                              *)
(***************************************************************************)
EXTENDS Provisioning

CONSTANTS p1, p2, p3
=============================================================================
