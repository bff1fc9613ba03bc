-------------------------- MODULE MCMessagingClient --------------------------
(***************************************************************************)
(* An instance of the messaging client for TLC.                            *)
(***************************************************************************)
EXTENDS MessagingClient, TLC

RequestSymmetry == Permutations(Requests)
=============================================================================
