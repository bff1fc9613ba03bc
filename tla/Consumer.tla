------------------------------ MODULE Consumer ------------------------------
(***************************************************************************)
(* The worker processes: RabbitMQConsumer.start, _handle and               *)
(* _handle_failure with ProcessingService.process inside.  A worker takes  *)
(* a step at each await at which another process can be observed: a        *)
(* committed transaction, a broker operation, an object store call.        *)
(*                                                                         *)
(*   idle        in `async for msg in it`                                  *)
(*   load        the job is about to be read                               *)
(*   drop        the message is about to be acked without work             *)
(*   claim       QUEUED was seen, STARTED is about to be written           *)
(*   fetch, store, complete                                                *)
(*               inside process: before get_object, before put_object, and *)
(*               before the transaction that records the result            *)
(*   wedged      in a parse that does not return                           *)
(*   ack_done    COMPLETED is committed, the message not yet acked         *)
(*   failing     at the entry of _handle_failure                           *)
(*   requeue     QUEUED is committed, the retry not yet published          *)
(*   ack_failed  _handle_failure has returned                              *)
(*   killed, exited, stopped                                               *)
(*               no process: killed from outside, ended by an exception    *)
(*               that start() lets through, or drained after a signal      *)
(***************************************************************************)
EXTENDS JobTable, Broker, ObjectStore

VARIABLES
  wpc,      \* where each worker is
  cur,      \* the message in its hands
  att,      \* started.attempts, as the claiming UPDATE returned it
  content,  \* the PDF bytes fetched: a version
  since,    \* the commits its job's row had seen when the worker came to a statement
            \* that records a time; 0 elsewhere
  stop      \* _stop_event

localVars == <<cur, att, content>>
workerVars == <<wpc, cur, att, content, since, stop>>
sharedVars == <<tableVars, brokerVars, storeVars>>

Down == {"killed", "exited", "stopped"}
Steps == {"load", "drop", "claim", "fetch", "store", "complete", "wedged", "ack_done",
          "failing", "requeue", "ack_failed"}
Processing == {"fetch", "store", "complete", "wedged"}
Updating == {"claim", "complete", "failing"}   \* about to call update_status

WorkerTypeOK ==
  /\ wpc \in [Workers -> {"idle"} \cup Steps \cup Down]
  /\ cur \in [Workers -> Messages \cup {Nothing}]
  /\ att \in [Workers -> Nat]
  /\ content \in [Workers -> 0..MaxVersion]
  /\ since \in [Workers -> Nat]
  /\ stop \in [Workers -> BOOLEAN]

WorkerInit ==
  /\ wpc = [w \in Workers |-> "idle"]
  /\ cur = [w \in Workers |-> Nothing]
  /\ att = [w \in Workers |-> 0]
  /\ content = [w \in Workers |-> 0]
  /\ since = [w \in Workers |-> 0]
  /\ stop = [w \in Workers |-> FALSE]

(***************************************************************************)
(* How a handler moves on, comes back to the loop, or takes its process    *)
(* down.                                                                   *)
(***************************************************************************)
Goto(w, from, to) ==
  /\ wpc[w] = from
  /\ wpc' = [wpc EXCEPT ![w] = to]
  /\ since' = [since EXCEPT ![w] = IF to \in Updating THEN commits[cur[w]] ELSE 0]
  /\ UNCHANGED stop

Forget(w) == /\ cur' = [cur EXCEPT ![w] = Nothing]
             /\ att' = [att EXCEPT ![w] = 0]
             /\ content' = [content EXCEPT ![w] = 0]

(* The process ends, and with it its channel: the broker requeues what was *)
(* outstanding on it.                                                      *)
Die(w, how, outstanding) ==
  /\ wpc' = [wpc EXCEPT ![w] = how]
  /\ since' = [since EXCEPT ![w] = 0]
  /\ stop' = [stop EXCEPT ![w] = FALSE]
  /\ Forget(w)
  /\ ReturnDelivery(w, outstanding)
  /\ buffered' = [buffered EXCEPT ![w] = Nothing]

(* msg.ack() as the handler's last act.  On a dead delivery tag it changes *)
(* nothing at the broker, and the client either ignores it or raises.      *)
AckAndReturn(w, from) ==
  /\ Goto(w, from, "idle")
  /\ Forget(w)
  /\ unacked' = AfterAck(w)
  /\ UNCHANGED <<ready, buffered>>

AckRaises(w, from) == /\ wpc[w] = from
                      /\ DeadTag(w)
                      /\ Die(w, "exited", unacked)

(***************************************************************************)
(* The consume loop.                                                       *)
(***************************************************************************)
Deliver(w, m) ==
  /\ wpc[w] \notin Down
  /\ Push(w, m)
  /\ UNCHANGED <<tableVars, storeVars, workerVars, faults>>

(* The next message is handed to _handle, which acks it at once when it    *)
(* names no job.                                                           *)
TakeMessage(w) ==
  /\ wpc[w] = "idle" /\ buffered[w] # Nothing /\ ~stop[w]
  /\ wpc' = [wpc EXCEPT ![w] = IF buffered[w] = Poison THEN "drop" ELSE "load"]
  /\ cur' = [cur EXCEPT ![w] = buffered[w]]
  /\ buffered' = [buffered EXCEPT ![w] = Nothing]
  /\ UNCHANGED <<tableVars, storeVars, ready, unacked, att, content, since, stop, faults>>

(* Mutant: the message pulled last is settled although nobody handled it. *)
MutantBreakOnStop(w) ==
  /\ wpc[w] = "idle" /\ buffered[w] # Nothing /\ stop[w]
  /\ Die(w, "stopped", [unacked EXCEPT ![w] = Nothing])
  /\ UNCHANGED <<tableVars, storeVars, faults>>

(* The stop flag is looked at only after a message has been pulled; the    *)
(* loop then ends, and closing the channel gives the message back.         *)
BreakOnStop(w) ==
  /\ wpc[w] = "idle" /\ buffered[w] # Nothing /\ stop[w]
  /\ Die(w, "stopped", unacked)
  /\ UNCHANGED <<tableVars, storeVars, faults>>

(***************************************************************************)
(* _handle, up to the claim.                                               *)
(***************************************************************************)
(* Redeliveries and duplicates end here unless the job is QUEUED. *)
LoadJob(w) ==
  /\ Goto(w, "load", IF status[cur[w]] = "QUEUED" THEN "claim" ELSE "drop")
  /\ UNCHANGED <<sharedVars, localVars, faults>>

(* The read or its commit raises: no handler catches it. *)
LoadFails(w) ==
  /\ wpc[w] = "load"
  /\ Fault("db")
  /\ Die(w, "exited", unacked)
  /\ UNCHANGED <<tableVars, storeVars>>

(* Mutant: what cannot be used is nacked. *)
MutantAckDrop(w) ==
  /\ Goto(w, "drop", "idle") /\ Forget(w) /\ Nack(w)
  /\ UNCHANGED <<tableVars, storeVars, buffered, faults>>

AckDrop(w) ==
  /\ AckAndReturn(w, "drop") \/ AckRaises(w, "drop")
  /\ UNCHANGED <<tableVars, storeVars, faults>>

(* The ack precedes the end of the session, whose commit may still raise. *)
DropCommitFails(w) ==
  /\ wpc[w] = "drop" /\ cur[w] # Poison
  /\ Fault("db")
  /\ Die(w, "exited", AfterAck(w))
  /\ UNCHANGED <<tableVars, storeVars>>

(* Mutant: the attempt count is the one read before the UPDATE. *)
MutantClaim(w) ==
  /\ Goto(w, "claim", "fetch")
  /\ UpdateStatus(cur[w], "STARTED", "QUEUED", 0, since[w])
  /\ att' = [att EXCEPT ![w] = attempts[cur[w]]]
  /\ UNCHANGED <<artifactJob, brokerVars, storeVars, cur, content, faults>>

Claim(w) ==
  /\ Goto(w, "claim", "fetch")
  /\ UpdateStatus(cur[w], "STARTED", "QUEUED", 0, since[w])
  /\ att' = [att EXCEPT ![w] = attempts[cur[w]] + 1]
  /\ UNCHANGED <<artifactJob, brokerVars, storeVars, cur, content, faults>>

(* The compare-and-swap finds another status: ack and drop. *)
ClaimConflict(w) ==
  /\ Goto(w, "claim", "drop")
  /\ status[cur[w]] # "QUEUED"
  /\ UNCHANGED <<sharedVars, localVars, faults>>

(* The UPDATE raises DatabaseException: nack with requeue.  The session is *)
(* still open, and ending it on a broken connection raises once more.      *)
ClaimDbError(w) ==
  /\ wpc[w] = "claim"
  /\ Fault("db")
  /\ \/ Goto(w, "claim", "idle") /\ Forget(w) /\ Nack(w) /\ UNCHANGED buffered
     \/ Die(w, "exited", unacked)
  /\ UNCHANGED <<tableVars, storeVars>>

(* The commit, outside the try, raises: the process ends, and whether the  *)
(* job is STARTED depends on what the database did.                        *)
ClaimCommitFails(w) ==
  /\ wpc[w] = "claim"
  /\ status[cur[w]] = "QUEUED"
  /\ \/ Fault("db") /\ UNCHANGED tableVars
     \/ /\ Fault("ambiguous")
        /\ UpdateStatus(cur[w], "STARTED", "QUEUED", 0, since[w])
        /\ UNCHANGED artifactJob
  /\ Die(w, "exited", unacked)
  /\ UNCHANGED storeVars

(***************************************************************************)
(* ProcessingService.process.                                              *)
(***************************************************************************)
FetchDocument(w) ==
  /\ Goto(w, "fetch", "store")
  /\ content' = [content EXCEPT ![w] = raw[DocOf[cur[w]]]]
  /\ UNCHANGED <<sharedVars, cur, att, faults>>

(* Mutant: an object that is already there is not written again. *)
MutantStoreMarkdown(w) ==
  /\ Goto(w, "store", "complete")
  /\ IF markdown[DocOf[cur[w]]] > 0 THEN UNCHANGED storeVars
                                   ELSE PutMarkdown(DocOf[cur[w]], content[w])
  /\ UNCHANGED <<tableVars, brokerVars, localVars, faults>>

StoreMarkdown(w) ==
  /\ Goto(w, "store", "complete")
  /\ PutMarkdown(DocOf[cur[w]], content[w])
  /\ UNCHANGED <<tableVars, brokerVars, localVars, faults>>

(* Mutant: the artifact row is not part of the transaction. *)
MutantCommitResult(w) ==
  /\ UpdateStatus(cur[w], "COMPLETED", "STARTED", 0, since[w])
  /\ UNCHANGED artifactJob

(* Upsert of the artifact row and COMPLETED, in one transaction. *)
CommitResult(w) ==
  /\ UpdateStatus(cur[w], "COMPLETED", "STARTED", 0, since[w])
  /\ UpsertArtifact(cur[w])

Complete(w) ==
  /\ Goto(w, "complete", "ack_done")
  /\ CommitResult(w)
  /\ UNCHANGED <<brokerVars, storeVars, localVars, faults>>

(* Mutant: an error is only logged. *)
MutantProcessingError(w) ==
  /\ \E at \in Processing \ {"wedged"} : Goto(w, at, "ack_failed")
  /\ UNCHANGED <<sharedVars, localVars, faults>>

(* Anything process raises, the parser included, and a put_object that     *)
(* raises after the object was written.                                    *)
ProcessingError(w) ==
  /\ \E at \in Processing \ {"wedged"} : Goto(w, at, "failing")
  /\ \/ UNCHANGED storeVars
     \/ wpc[w] = "store" /\ PutMarkdown(DocOf[cur[w]], content[w])
  /\ UNCHANGED <<tableVars, brokerVars, localVars, faults>>

(* The parser runs in a thread of its own and nothing bounds how long: the *)
(* process stays up and connected, and the handler never goes on.          *)
Hang(w) ==
  /\ Goto(w, "store", "wedged")
  /\ Fault("hang")
  /\ UNCHANGED <<sharedVars, localVars>>

(* The result is committed but the commit is reported as failed. *)
CompleteAmbiguous(w) ==
  /\ Goto(w, "complete", "failing")
  /\ Fault("ambiguous")
  /\ CommitResult(w)
  /\ UNCHANGED <<brokerVars, storeVars, localVars>>

(* This ack is inside the try: when it raises, the failure handler runs on *)
(* a job that is already COMPLETED.                                        *)
AckDone(w) ==
  /\ \/ AckAndReturn(w, "ack_done")
     \/ DeadTag(w) /\ Goto(w, "ack_done", "failing") /\ UNCHANGED <<localVars, brokerVars>>
  /\ UNCHANGED <<tableVars, storeVars, faults>>

(***************************************************************************)
(* _handle_failure.                                                        *)
(***************************************************************************)
(* Mutant: one attempt too many. *)
MutantFailureStatus(w) == IF att[w] <= MaxAttempts THEN "QUEUED" ELSE "FAILED"

(* Mutant: a retried job is relabelled CREATED, a label the enum has lost. *)
MutantStaleLabel(w) == IF att[w] < MaxAttempts THEN "CREATED" ELSE "FAILED"

(* The status it writes, decided from the attempt count of the claim. *)
FailureStatus(w) == IF att[w] < MaxAttempts THEN "QUEUED" ELSE "FAILED"

(* Mutant: the retry is left to the broker, but the message is acked. *)
MutantHandleFailure(w) ==
  /\ Goto(w, "failing", "ack_failed")
  /\ UpdateStatus(cur[w], FailureStatus(w), "STARTED", att[w], since[w])
  /\ UNCHANGED <<artifactJob, brokerVars, storeVars, localVars, faults>>

HandleFailure(w) ==
  /\ Goto(w, "failing", IF att[w] < MaxAttempts THEN "requeue" ELSE "ack_failed")
  /\ UpdateStatus(cur[w], FailureStatus(w), "STARTED", att[w], since[w])
  /\ UNCHANGED <<artifactJob, brokerVars, storeVars, localVars, faults>>

FailureConflict(w) ==
  /\ Goto(w, "failing", "ack_failed")
  /\ status[cur[w]] # "STARTED"
  /\ UNCHANGED <<sharedVars, localVars, faults>>

(* DatabaseException, or an error of the commit, leaves _handle. *)
FailureDbError(w) ==
  /\ wpc[w] = "failing"
  /\ \/ Fault("db") /\ UNCHANGED tableVars
     \/ /\ Fault("ambiguous")
        /\ UpdateStatus(cur[w], FailureStatus(w), "STARTED", att[w], since[w])
        /\ UNCHANGED artifactJob
  /\ Die(w, "exited", unacked)
  /\ UNCHANGED storeVars

Reenqueue(w) ==
  /\ Goto(w, "requeue", "ack_failed")
  /\ Publish(cur[w])
  /\ UNCHANGED <<tableVars, storeVars, unacked, buffered, localVars, faults>>

(* The publication fails, or is reported as failed.  QueueException is     *)
(* logged; any other exception leaves _handle.                             *)
ReenqueueError(w) ==
  /\ wpc[w] = "requeue"
  /\ Fault("queue")
  /\ \/ /\ Goto(w, "requeue", "ack_failed")
        /\ Publish(cur[w]) \/ UNCHANGED ready
        /\ UNCHANGED <<unacked, buffered, localVars>>
     \/ Die(w, "exited", unacked)
  /\ UNCHANGED <<tableVars, storeVars>>

AckFailed(w) ==
  /\ AckAndReturn(w, "ack_failed") \/ AckRaises(w, "ack_failed")
  /\ UNCHANGED <<tableVars, storeVars, faults>>

(***************************************************************************)
(* What happens to a worker from outside.                                  *)
(***************************************************************************)
Kill(w) ==
  /\ wpc[w] \notin Down
  /\ Fault("crash")
  /\ Die(w, "killed", unacked)
  /\ UNCHANGED <<tableVars, storeVars>>

(* The connection is re-established; the client's buffer survives, the     *)
(* delivery tags do not.                                                   *)
LoseConnection(w) ==
  /\ unacked[w] # Nothing
  /\ Fault("conn")
  /\ ReturnDelivery(w, unacked)
  /\ UNCHANGED <<tableVars, storeVars, buffered, workerVars>>

RequestStop(w) ==
  /\ wpc[w] \notin Down /\ ~stop[w]
  /\ Fault("stop")
  /\ stop' = [stop EXCEPT ![w] = TRUE]
  /\ UNCHANGED <<sharedVars, wpc, localVars, since>>

(* The orchestrator starts a new process in its place. *)
Restart(w) ==
  /\ wpc[w] \in Down
  /\ wpc' = [wpc EXCEPT ![w] = "idle"]
  /\ UNCHANGED <<sharedVars, localVars, since, stop, faults>>

(* A malformed message reaches the queue. *)
PublishPoison ==
  /\ Fault("poison")
  /\ Publish(Poison)
  /\ UNCHANGED <<tableVars, storeVars, unacked, buffered, workerVars>>

(* The steps the program takes by itself, faults apart. *)
WorkerStep(w) ==
  \/ TakeMessage(w) \/ BreakOnStop(w) \/ LoadJob(w) \/ AckDrop(w)
  \/ Claim(w) \/ ClaimConflict(w)
  \/ FetchDocument(w) \/ StoreMarkdown(w) \/ Complete(w) \/ ProcessingError(w)
  \/ AckDone(w) \/ HandleFailure(w) \/ FailureConflict(w) \/ Reenqueue(w)
  \/ AckFailed(w)

WorkerFault(w) ==
  \/ LoadFails(w) \/ DropCommitFails(w) \/ ClaimDbError(w) \/ ClaimCommitFails(w)
  \/ Hang(w) \/ CompleteAmbiguous(w) \/ FailureDbError(w) \/ ReenqueueError(w)
  \/ Kill(w) \/ LoseConnection(w) \/ RequestStop(w)
=============================================================================
