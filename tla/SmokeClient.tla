---------------------------- MODULE SmokeClient ----------------------------
(***************************************************************************)
(* local/smoke.py over PipelineClient: concurrent runs that each submit a  *)
(* document, upload the PDF, request processing and poll the job until it  *)
(* ends or a deadline passes.  The jobs themselves follow JobLifecycle,    *)
(* which the pipeline implements; a job that completes gains its artifact  *)
(* row in the same transaction.                                            *)
(*                                                                         *)
(*   submit, waiting    before and after POST /documents is sent           *)
(*   upload             the answer is in hand                              *)
(*   process, pending   before and after POST .../process is sent          *)
(*   check, get         wait_for_completion: at the test of the deadline,  *)
(*                      and at GET /jobs/{id}                              *)
(*   ok, failed, error  the Result: completed, JobFailed, anything else    *)
(***************************************************************************)
EXTENDS DocumentEndpoint, Naturals

CONSTANT MaxAttempts

ASSUME AttemptsAssumption == MaxAttempts \in Nat \ {0}

VARIABLES
  cpc,        \* where each run is
  expired,    \* its poll timeout has passed
  uploaded,   \* the object raw/{account}/{document}.pdf exists
  process,    \* the processing request of each run
  status,     \* jobs.status
  attempts,   \* jobs.attempts
  artifacts   \* documents with an artifact row

clientVars == <<cpc, expired>>
jobVars == <<status, attempts, artifacts>>
vars == <<documentVars, clientVars, uploaded, process, jobVars>>

Self == [r \in Runs |-> r]
Life == INSTANCE JobLifecycle WITH Jobs <- Runs, Documents <- Runs, DocOf <- Self

Results == {"ok", "failed", "error"}
Waiting == {"submit", "waiting", "upload", "process", "pending", "get"}

TypeOK ==
  /\ DocumentTypeOK
  /\ cpc \in [Runs -> Waiting \cup {"check"} \cup Results]
  /\ expired \in [Runs -> BOOLEAN]
  /\ uploaded \in [Runs -> BOOLEAN]
  /\ process \in [Runs -> {"none", "sent", "committed", "accepted", "refused"}]
  /\ status \in [Runs -> {"ABSENT", "QUEUED", "STARTED", "COMPLETED", "FAILED"}]
  /\ attempts \in [Runs -> 0..MaxAttempts]
  /\ artifacts \in SUBSET Runs

Init ==
  /\ DocumentInit
  /\ cpc = [r \in Runs |-> "submit"]
  /\ expired = [r \in Runs |-> FALSE]
  /\ uploaded = [r \in Runs |-> FALSE]
  /\ process = [r \in Runs |-> "none"]
  /\ Life!Init
  /\ artifacts = {}

Goto(r, from, to) == cpc[r] = from /\ cpc' = [cpc EXCEPT ![r] = to]

(***************************************************************************)
(* The client.                                                             *)
(***************************************************************************)
Submit(r) ==
  /\ Goto(r, "submit", "waiting")
  /\ request' = [request EXCEPT ![r] = "sent"]
  /\ UNCHANGED <<registered, response, document, expired, uploaded, process, jobVars>>

(* raise_for_status lets only the 201 through. *)
ReceiveDocument(r) ==
  /\ response[r] # "none"
  /\ Goto(r, "waiting", IF response[r] = "created" THEN "upload" ELSE "error")
  /\ UNCHANGED <<documentVars, expired, uploaded, process, jobVars>>

(* Straight to the object store: the API is not asked. *)
Upload(r) ==
  /\ Goto(r, "upload", "process")
  /\ uploaded' = [uploaded EXCEPT ![r] = TRUE]
  /\ UNCHANGED <<documentVars, expired, process, jobVars>>

StartProcessing(r) ==
  /\ Goto(r, "process", "pending")
  /\ process' = [process EXCEPT ![r] = "sent"]
  /\ UNCHANGED <<documentVars, expired, uploaded, jobVars>>

ReceiveJob(r) ==
  /\ process[r] \in {"accepted", "refused"}
  /\ Goto(r, "pending", IF process[r] = "accepted" THEN "check" ELSE "error")
  /\ UNCHANGED <<documentVars, expired, uploaded, process, jobVars>>

(* Mutant: the loop goes on whatever the clock says. *)
MutantCheckDeadline(r) ==
  /\ Goto(r, "check", "get")
  /\ UNCHANGED <<documentVars, expired, uploaded, process, jobVars>>

CheckDeadline(r) ==
  /\ Goto(r, "check", IF expired[r] THEN "error" ELSE "get")
  /\ UNCHANGED <<documentVars, expired, uploaded, process, jobVars>>

(* Mutant: whatever is no longer under way counts as completed. *)
MutantPoll(r) ==
  /\ Goto(r, "get", IF status[r] \in {"QUEUED", "STARTED"} THEN "check" ELSE "ok")
  /\ UNCHANGED <<documentVars, expired, uploaded, process, jobVars>>

(* GET /jobs/{id}: the status of the row, or 404. *)
GetJob(r) == IF status[r] = "ABSENT" THEN "not_found" ELSE status[r]

(* The verdict, or a pause. *)
Poll(r) ==
  /\ Goto(r, "get", CASE GetJob(r) = "COMPLETED" -> "ok"
                      [] GetJob(r) = "FAILED"    -> "failed"
                      [] GetJob(r) = "not_found" -> "error"
                      [] OTHER                   -> "check")
  /\ UNCHANGED <<documentVars, expired, uploaded, process, jobVars>>

(* A call times out or its connection breaks, or an answer is an error.    *)
(* What was sent may still be served.                                      *)
CallFails(r) ==
  /\ \E at \in Waiting : Goto(r, at, "error")
  /\ \/ UNCHANGED uploaded
     \/ cpc[r] = "upload" /\ uploaded' = [uploaded EXCEPT ![r] = TRUE]
  /\ UNCHANGED <<documentVars, expired, process, jobVars>>

(* poll_timeout passes. *)
Expire(r) ==
  /\ cpc[r] \in {"check", "get"} /\ ~expired[r]
  /\ expired' = [expired EXCEPT ![r] = TRUE]
  /\ UNCHANGED <<documentVars, cpc, uploaded, process, jobVars>>

ClientStep(r) == \/ Submit(r) \/ ReceiveDocument(r) \/ Upload(r) \/ StartProcessing(r)
                 \/ ReceiveJob(r) \/ CheckDeadline(r) \/ Poll(r) \/ CallFails(r)

(***************************************************************************)
(* POST /documents/{id}/process as its client sees it, and the job.        *)
(***************************************************************************)
Processed(r, from, to) ==
  /\ process[r] = from
  /\ process' = [process EXCEPT ![r] = to]

(* JobService.create commits by itself; from here on the job can run. *)
CommitJob(r) ==
  /\ Processed(r, "sent", "committed")
  /\ Visible(r) /\ uploaded[r]
  /\ Life!Queue(r)
  /\ UNCHANGED <<documentVars, clientVars, uploaded, artifacts>>

(* Mutant: the commit is left to the end of the session, after the answer. *)
MutantAcceptJob(r) ==
  /\ \E at \in {"sent", "committed"} : Processed(r, at, "accepted")
  /\ Visible(r) /\ uploaded[r]
  /\ UNCHANGED <<documentVars, clientVars, uploaded, jobVars>>

(* The message is published, and the 201 sent. *)
AcceptJob(r) ==
  /\ Processed(r, "committed", "accepted")
  /\ UNCHANGED <<documentVars, clientVars, uploaded, jobVars>>

(* 404, 409, 429, or an error; after the commit the job exists all the     *)
(* same.                                                                   *)
RefuseJob(r) ==
  /\ \E at \in {"sent", "committed"} : Processed(r, at, "refused")
  /\ UNCHANGED <<documentVars, clientVars, uploaded, jobVars>>

ServeProcess(r) == CommitJob(r) \/ AcceptJob(r) \/ RefuseJob(r)

JobStep(r) ==
  /\ \/ Life!Start(r) /\ UNCHANGED artifacts
     \/ Life!Retry(r) /\ UNCHANGED artifacts
     \/ Life!GiveUp(r) /\ UNCHANGED artifacts
     \/ Life!Succeed(r) /\ artifacts' = artifacts \cup {r}
  /\ UNCHANGED <<documentVars, clientVars, uploaded, process>>

Serve(r) == ServeDocument(r) /\ UNCHANGED <<clientVars, uploaded, process, jobVars>>

Next == \E r \in Runs : ClientStep(r) \/ Expire(r) \/ Serve(r) \/ ServeProcess(r) \/ JobStep(r)

Spec == Init /\ [][Next]_vars

(***************************************************************************)
(* The client runs and time passes.  Nothing is assumed of the API, nor of *)
(* the workers: the pipeline can leave a job STARTED for good.             *)
(***************************************************************************)
FairSpec == Spec /\ \A r \in Runs : WF_vars(ClientStep(r)) /\ WF_vars(Expire(r))

(***************************************************************************)
(* What a run of the client shows.                                         *)
(***************************************************************************)
(* list_artifacts of a document returns an entry. *)
Listed(r) == Visible(r) /\ r \in artifacts

(* A verdict is final: a run that reported ok has a completed job whose    *)
(* artifact the API lists, for a document whose row survived its late      *)
(* commit; a run that reported JobFailed has a job with no attempt left.   *)
VerdictIsFinal ==
  \A r \in Runs :
    /\ cpc[r] = "ok" => status[r] = "COMPLETED" /\ Listed(r)
    /\ cpc[r] = "failed" => status[r] = "FAILED" /\ attempts[r] = MaxAttempts

(* An accepted job is there to be polled: GET /jobs/{id} cannot miss the   *)
(* row the client was told of, as GET /documents/{id} can.                 *)
PollFindsJob == \A r \in Runs : cpc[r] \in {"check", "get"} => status[r] # "ABSENT"

(* A request for a document that was answered with an error leaves no row  *)
(* behind, and no row exists that was not promised to somebody.            *)
RowMeansPromise == \A r \in Runs : document[r] => response[r] = "created"

(* Why the three above hold: what an answer, a row and a status rest on. *)
Grounded ==
  \A r \in Runs :
    /\ cpc[r] = "submit" => request[r] = "none"
    /\ request[r] \in {"none", "sent"} => ~document[r]
    /\ request[r] = "answered" => response[r] = "created"
    /\ process[r] \in {"committed", "accepted"} => status[r] # "ABSENT"
    /\ status[r] # "ABSENT" => document[r]
    /\ status[r] = "COMPLETED" => r \in artifacts
    /\ status[r] = "FAILED" => attempts[r] = MaxAttempts

(* Every run ends with a Result, whatever becomes of its job. *)
EveryRunEnds == \A r \in Runs : <>(cpc[r] \in Results)

(* The UUID design: POST /documents commits a row before any upload. *)
UploadHasRow == \A r \in Runs : uploaded[r] => document[r]
=============================================================================
