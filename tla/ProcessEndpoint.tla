--------------------------- MODULE ProcessEndpoint ---------------------------
(***************************************************************************)
(* POST /documents/{id}/process: JobService.create, for many requests at a *)
(* time.  A request is named by the job UUID it would generate, and ends   *)
(* in the state that stands for its answer:                                *)
(*   accepted 201, not_uploaded 409, backpressure 429, active_job 409,     *)
(*   failed 5xx or a broken connection.                                    *)
(***************************************************************************)
EXTENDS JobTable, Broker, ObjectStore, FiniteSets

VARIABLE rpc   \* where each request is

InFlight == {"depth", "insert", "enqueue"}
Answers == {"accepted", "not_uploaded", "backpressure", "active_job", "failed"}

EndpointTypeOK == rpc \in [Jobs -> {"none"} \cup InFlight \cup Answers]

EndpointInit == rpc = [j \in Jobs |-> "none"]

Served == {j \in Jobs : rpc[j] \in InFlight}

Answer(j, from, to) == /\ rpc[j] = from
                       /\ rpc' = [rpc EXCEPT ![j] = to]

(* The document row is there; is the upload? *)
StartRequest(j) ==
  /\ Cardinality(Served) < MaxInFlight
  /\ Answer(j, "none", IF ObjectExists(DocOf[j]) THEN "depth" ELSE "not_uploaded")
  /\ UNCHANGED <<tableVars, brokerVars, storeVars, faults>>

(* Mutant: the message is published before the row is committed. *)
MutantEnqueueFirst(j) ==
  /\ Answer(j, "depth", "insert")
  /\ Publish(j)
  /\ UNCHANGED <<tableVars, storeVars, unacked, buffered, faults>>

(* Mutant: one message more than the threshold is let in. *)
MutantCheckDepth(j) ==
  /\ Answer(j, "depth", IF Depth > Threshold THEN "backpressure" ELSE "insert")
  /\ UNCHANGED <<tableVars, brokerVars, storeVars, faults>>

CheckDepth(j) ==
  /\ Answer(j, "depth", IF Depth >= Threshold THEN "backpressure" ELSE "insert")
  /\ UNCHANGED <<tableVars, brokerVars, storeVars, faults>>

(* The row is committed before anything is published. *)
InsertJob(j) ==
  /\ Answer(j, "insert", "enqueue")
  /\ CreateJob(j, raw[DocOf[j]])
  /\ UNCHANGED <<brokerVars, storeVars, faults>>

RejectActiveJob(j) ==
  /\ ActiveJobExists(DocOf[j])
  /\ Answer(j, "insert", "active_job")
  /\ UNCHANGED <<tableVars, brokerVars, storeVars, faults>>

EnqueueJob(j) ==
  /\ Answer(j, "enqueue", "accepted")
  /\ Publish(j)
  /\ UNCHANGED <<tableVars, storeVars, unacked, buffered, faults>>

(* The broker, the object store or the database fails before the commit,   *)
(* or the commit is applied and reported as failed.                        *)
RequestError(j) ==
  /\ Fault("api")
  /\ \/ \E at \in {"depth", "insert"} : Answer(j, at, "failed") /\ UNCHANGED tableVars
     \/ Answer(j, "insert", "failed") /\ CreateJob(j, raw[DocOf[j]])
  /\ UNCHANGED <<brokerVars, storeVars>>

(* After the commit: the API dies, or the publication fails, or only its   *)
(* confirmation is lost.  Nothing undoes the row.                          *)
EnqueueError(j) ==
  /\ Fault("api")
  /\ Answer(j, "enqueue", "failed")
  /\ Publish(j) \/ UNCHANGED ready
  /\ UNCHANGED <<tableVars, storeVars, unacked, buffered>>

(* The steps of a request under way. *)
RequestStep(j) == \/ CheckDepth(j) \/ InsertJob(j) \/ RejectActiveJob(j) \/ EnqueueJob(j)
=============================================================================
