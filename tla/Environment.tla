---------------------------- MODULE Environment ----------------------------
(***************************************************************************)
(* The setting in which the document pipeline runs: the documents and jobs *)
(* of one account, the worker processes, the configured limits, and the    *)
(* faults that may strike.  A fault is not part of the program; it is what *)
(* the program is written to survive, so every action that models one      *)
(* spends a unit of the budget MaxFaults and must be of a kind in Faults.  *)
(***************************************************************************)
EXTENDS Naturals, FiniteSets

CONSTANTS
  Documents,     \* documents whose row is in the database
  Jobs,          \* UUIDs the API may generate, one per POST .../process
  DocOf,         \* the document whose processing request generates the UUID
  Workers,       \* worker processes (docker-compose replicas, ECS tasks)
  MaxAttempts,   \* jobs.max_attempts (column default 3)
  Threshold,     \* settings.backpressure_threshold
  MaxInFlight,   \* bound: processing requests the API serves at a time
  MaxVersion,    \* bound: uploads of one document
  Poison,        \* a message whose body names no job
  Nothing,       \* no message, no job
  Faults,        \* kinds of fault this model admits
  MaxFaults      \* bound: faults in one behaviour

(***************************************************************************)
(* crash      a worker process dies (SIGKILL, out of memory, a segfault in *)
(*            the PDF library)                                             *)
(* hang       the parse of a document never returns                        *)
(* db         a statement or commit of a worker fails and is rolled back   *)
(* ambiguous  a commit of a worker is applied, yet reported as failed      *)
(* queue      a worker cannot publish, or is told so after publishing      *)
(* conn       a worker loses its broker connection and reconnects          *)
(* api        the API fails between its commit and the answer              *)
(* stop       a worker receives SIGTERM or SIGINT                          *)
(* poison     somebody publishes a malformed message                       *)
(***************************************************************************)
FaultKinds == {"crash", "hang", "db", "ambiguous", "queue", "conn", "api", "stop", "poison"}

ASSUME DocAssumption == DocOf \in [Jobs -> Documents]
ASSUME AttemptsAssumption == MaxAttempts \in Nat \ {0}
ASSUME LimitAssumption == /\ Threshold \in Nat \ {0}
                          /\ MaxInFlight \in Nat \ {0}
                          /\ MaxVersion \in Nat \ {0}
ASSUME MessageAssumption == /\ Poison \notin Jobs
                            /\ Nothing \notin Jobs \cup {Poison}
ASSUME WorkersAssumption == IsFiniteSet(Workers)
ASSUME FaultAssumption == Faults \subseteq FaultKinds /\ MaxFaults \in Nat

VARIABLE faults   \* faults that have happened

(* What a queue message can say: the id of a job, or nothing intelligible. *)
Messages == Jobs \cup {Poison}

Fault(kind) == /\ kind \in Faults
               /\ faults < MaxFaults
               /\ faults' = faults + 1
=============================================================================
