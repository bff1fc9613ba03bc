---------------------------- MODULE MCWorkerKill ----------------------------
(***************************************************************************)
(* An instance of the worker-kill scenario for TLC.                        *)
(***************************************************************************)
EXTENDS WorkerKill, TLC

CONSTANTS j1, d1

OneJob == j1 :> d1
=============================================================================
